------------------------------- MODULE MCMinds -------------------------------
EXTENDS Minds
CONSTANTS own, shared, idle, alert, chase

(* Deep trees of a few kinds, and shallow ones of the others. *)
MCSetups ==
    {[composites |-> {"Sequence", "ActiveSelector", "Parallel all"},
      leaves |-> {"Action"}, repeated |-> {}, maxNodes |-> 5,
      results |-> {"Success", "Failure", "Running"}],
     [composites |-> {"Selector", "UtilitySelector", "Monitor"},
      leaves |-> {"Action"}, repeated |-> {}, maxNodes |-> 4, results |-> Results],
     [composites |-> {"ActiveSelector", "Parallel one", "Parallel both"},
      leaves |-> {"Script", "Repeat"}, repeated |-> {"Action", "Script"}, maxNodes |-> 4,
      results |-> Results]}

MCParent == [b \in Boards |-> IF b = own THEN shared ELSE NoBoard]
MCKeys == {<<"hp", "int">>, <<"hp", "float">>}
MCTransitions == [s \in States |->
    CASE s = idle  -> <<alert, chase>>
      [] s = alert -> <<idle, chase>>
      [] s = chase -> <<alert>>]
=============================================================================
