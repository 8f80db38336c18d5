--------------------------- MODULE MountContract ---------------------------
(***************************************************************************)
(* What driver-mounter promises to its callers: Mount and Unmount are      *)
(* atomic, idempotent operations on the device held at each target.  A     *)
(* call that is asked takes effect at one moment before it is answered; a  *)
(* call that fails takes none; of a call that is lost the caller does not  *)
(* know.                                                                   *)
(***************************************************************************)
CONSTANTS Proc, Uuid, Dev, None

VARIABLES
    held,    \* held[u]: device mounted for u, or None
    ask,     \* ask[p]: the operation and UUID that p was asked for
    status   \* status[p]: idle, open, served, failed or lost

Asked == [op : {"mount", "unmount"}, uuid : Uuid]

Init ==
    /\ held = [u \in Uuid |-> None]
    /\ ask = [p \in Proc |-> [op |-> "none", uuid |-> None]]
    /\ status = [p \in Proc |-> "idle"]

Turn(p, from, to) ==
    /\ status[p] \in from
    /\ status' = [status EXCEPT ![p] = to]

Begin(p) ==
    /\ Turn(p, {"idle", "failed", "lost"}, "open")
    /\ \E a \in Asked :
          /\ status[p] # "idle" => a = ask[p]
          /\ ask' = [ask EXCEPT ![p] = a]
    /\ UNCHANGED held

\* The operation puts the target into the state it asks for, unless it is there.
TakeEffect(p) ==
    LET u == ask[p].uuid IN
    /\ Turn(p, {"open"}, "served")
    /\ \/ /\ ask[p].op = "mount"
          /\ IF held[u] = None
               THEN \E d \in Dev : held' = [held EXCEPT ![u] = d]
               ELSE UNCHANGED held
       \/ /\ ask[p].op = "unmount"
          /\ held' = [held EXCEPT ![u] = None]
    /\ UNCHANGED ask

Fail(p) == Turn(p, {"open"}, "failed") /\ UNCHANGED <<held, ask>>

Lose(p) == Turn(p, {"open", "served"}, "lost") /\ UNCHANGED <<held, ask>>

End(p) ==
    /\ Turn(p, {"served", "failed", "lost"}, "idle")
    /\ ask' = [ask EXCEPT ![p] = [op |-> "none", uuid |-> None]]
    /\ UNCHANGED held

Next ==
    \E p \in Proc : Begin(p) \/ TakeEffect(p) \/ Fail(p) \/ Lose(p) \/ End(p)

Spec == Init /\ [][Next]_<<held, ask, status>>
=============================================================================
