-------------------------------- MODULE MCGame --------------------------------
EXTENDS Game, TLC
CONSTANTS o1, o2

El(uid, name, kind, scene, readable) ==
    [uid |-> uid, name |-> name, kind |-> kind, scene |-> scene, readable |-> readable]

(* A file whose assets all load; one with what does not know it is loaded, *)
(* names that are used twice and files that are missing; one with a script *)
(* that throws; one with an element that is refused.                       *)
MCFiles ==
    {<<El(1, "hero", "sprite", 0, TRUE), El(2, "tree", "graphic", 1, TRUE),
       El(3, "bang", "fx", 2, TRUE), El(4, "ai", "script", 1, TRUE)>>,
     <<El(1, "hero", "graphic", Absent, TRUE), El(2, "text", "font", 1, TRUE),
       El(3, "hero", "fx", 2, FALSE), El(3, "bang", "fx", 2, FALSE)>>,
     <<El(1, "hero", "graphic", 1, FALSE), El(2, "ai", "script", 2, FALSE)>>,
     <<El(1, "hero", "fx", Absent, TRUE), El(2, "ai", "script", Absent, TRUE)>>}

MCIdOf == o1 :> 0 @@ o2 :> 1

Layer(v, os) == [visible |-> v, objects |-> os]
MCSceneFile == 1 :> <<Layer(TRUE, <<1>>), Layer(FALSE, <<1>>)>> @@
               2 :> <<Layer(TRUE, <<1, 1>>)>>
=============================================================================
