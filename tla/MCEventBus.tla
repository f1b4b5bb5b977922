----------------------------- MODULE MCEventBus -----------------------------
(***************************************************************************)
(* Instance: a subscriber that publishes and unsubscribes, one that raises *)
(* on reports too, and one that subscribes another or exits.               *)
(***************************************************************************)
EXTENDS EventBus

MCMatches == [s \in Subs |-> IF s = "b" THEN Topics \cup {BusError} ELSE Topics]
MCActs == [s \in Subs |->
    CASE s = "a" -> {"publish", "unsubscribe"}
      [] s = "b" -> {"raise"}
      [] OTHER   -> {"subscribe", "exit"}]
=============================================================================
