------------------------------ MODULE MessageStore ------------------------------
(***************************************************************************)
(* What librequiemdb promises its callers, and no more: a set of messages, *)
(* each of them held whole or not at all.  requiemdb_insert_message and    *)
(* the requiemdb_delete_* calls take effect at one instant, the one at     *)
(* which the caller's answer is settled; a call that fails has no effect,  *)
(* unless the answer to the COMMIT was lost.  Nothing is said of threads,  *)
(* mutex, connection, queries or rows.                                     *)
(***************************************************************************)

CONSTANTS
  Messages,   \* idents of IDMEF messages
  Preloaded   \* the messages that are held at first

VARIABLES
  held,     \* is each message "whole" or "absent"?
  outcome,  \* what the caller of its insertion was told
  doomed    \* the messages someone has asked to delete

vars == <<held, outcome, doomed>>

Busy == {m \in Messages : outcome[m] = "busy"}

\* The messages of in are now held, those of out are not.
Exchange(in, out) ==
  held' = [m \in Messages |-> IF m \in in THEN "whole"
                              ELSE IF m \in out THEN "absent" ELSE held[m]]

\* The callers of the insertions of the messages of S get their answer.
Tell(S, answer) ==
  outcome' = [m \in Messages |-> IF m \in S THEN answer ELSE outcome[m]]

Init ==
  /\ held = [m \in Messages |-> IF m \in Preloaded THEN "whole" ELSE "absent"]
  /\ outcome = [m \in Messages |-> "none"]
  /\ doomed = {}

\* Someone asks for a message to be inserted, for the first time.
Insert(m) ==
  /\ outcome[m] = "none" /\ m \notin Preloaded
  /\ Tell({m}, "busy")
  /\ UNCHANGED <<held, doomed>>

\* Someone asks for a message to be deleted.
Delete(m) ==
  /\ held[m] = "whole"
  /\ doomed' = doomed \cup {m}
  /\ UNCHANGED <<held, outcome>>

\* Insertions and deletions take effect together.
Settle(in, out) ==
  /\ Exchange(in, out)
  /\ Tell(in, "ok")
  /\ UNCHANGED doomed

\* Insertions fail and leave nothing.
Refuse(in) ==
  /\ Tell(in, "error")
  /\ UNCHANGED <<held, doomed>>

\* They take effect, but the answer is lost and the callers are told otherwise.
LoseAnswer(in, out) ==
  /\ Exchange(in, out)
  /\ Tell(in, "error")
  /\ UNCHANGED doomed

Next ==
  \/ \E m \in Messages : Insert(m) \/ Delete(m)
  \/ \E in \in SUBSET Busy :
       \/ Refuse(in)
       \/ \E out \in SUBSET (doomed \ in) : Settle(in, out) \/ LoseAnswer(in, out)

Spec == Init /\ [][Next]_vars
=============================================================================
