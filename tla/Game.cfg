SPECIFICATION Spec
CONSTANTS
  o1 = o1
  o2 = o2
  Files <- MCFiles
  MaxScene = 3
  Objects = {o1, o2}
  Hidden = {o2}
  IdOf <- MCIdOf
  SceneFiles = {1, 2}
  SceneFile <- MCSceneFile
  SceneIds = {1, 2, 3}
  Names = {"nothing"}
  Windows = {FALSE}
  MaxRaised = 4
INVARIANTS AssetsOK WhatIsShown
PROPERTIES ObjectsAreTraced
CHECK_DEADLOCK FALSE
