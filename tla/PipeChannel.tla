---------------------------- MODULE PipeChannel ----------------------------
(***************************************************************************)
(* What a pipe promises its users: a bounded first-in first-out channel    *)
(* with two ends that are closed separately. Bytes leave in the order they *)
(* entered, none is lost, duplicated or made up, nothing enters once the   *)
(* writing end is closed, and nothing leaves once the reading end is.      *)
(***************************************************************************)
EXTENDS Naturals, Sequences

CONSTANTS Bytes, PIPE_SIZE

VARIABLES queue,    \* the bytes under way
          status    \* the ends still open

cvars == <<queue, status>>

Init == queue = <<>> /\ status = {"openRead", "openWrite"}

Send(b) ==
    /\ "openWrite" \in status
    /\ Len(queue) < PIPE_SIZE
    /\ queue' = Append(queue, b)
    /\ UNCHANGED status

Receive ==
    /\ "openRead" \in status
    /\ queue # <<>>
    /\ queue' = Tail(queue)
    /\ UNCHANGED status

Close(end) ==
    /\ status' = status \ {end}
    /\ UNCHANGED queue

Next == \/ \E b \in Bytes : Send(b)
        \/ Receive
        \/ \E end \in {"openRead", "openWrite"} : Close(end)

Spec == Init /\ [][Next]_cvars
=============================================================================
