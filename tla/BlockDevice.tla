---------------------------- MODULE BlockDevice ----------------------------
(***************************************************************************)
(* What the file system relies on: the trait BlockDevice of                *)
(* src/pkg/storage/src/common/device.rs, without registers, polling or     *)
(* words.  One call at a time is answered from the medium, or fails.  A    *)
(* write is owed by the device from the moment it was handed over; the     *)
(* medium changes only by what is owed.  AtaBus implements it.             *)
(***************************************************************************)
EXTENDS Naturals

CONSTANTS
    Drives,     \* drives of the bus
    Blocks,     \* block numbers
    NoCall, NoReply, NoWrite

VARIABLES
    supported,  \* the drives that can be opened
    medium,     \* drive -> block -> contents
    call,       \* the call in progress
    reply,      \* the answer to the last call
    owed        \* drive -> the write handed over but not yet on the medium

deviceVars == <<supported, medium, call, reply, owed>>

Init ==
    /\ call = NoCall /\ reply = NoReply
    /\ owed = [d \in Drives |-> NoWrite]

Ask ==
    /\ call = NoCall /\ call' # NoCall
    /\ call'.stage = "asked" /\ call'.drive \in Drives
    /\ call'.op = "open" \/ (call'.op \in {"read", "write"} /\ call'.block \in Blocks)
    /\ reply' = NoReply
    /\ UNCHANGED <<supported, medium, owed>>

(* Only the contents of the block asked for, or an error, answer a read; a  *)
(* write succeeds only if it was handed over and has not failed since.      *)
Answers ==
    CASE call.op = "open"  -> IF call.drive \in supported THEN {"refused", "opened"}
                                                          ELSE {"refused"}
      [] call.op = "read"  -> {"error", "data"}
      [] call.op = "write" -> IF call.stage = "handed_over" THEN {"error", "done"}
                                                            ELSE {"error"}
Answer ==
    /\ call # NoCall /\ call' = NoCall
    /\ reply'.kind \in Answers
    /\ reply'.kind = "data" => reply'.data = medium[call.drive][call.block]
    /\ UNCHANGED <<supported, medium, owed>>

HandOver ==
    /\ call # NoCall /\ call.op = "write" /\ call.stage = "asked"
    /\ call' = [call EXCEPT !.stage = "handed_over"]
    /\ owed' = [owed EXCEPT ![call.drive] = [block |-> call.block, data |-> call.data]]
    /\ UNCHANGED <<supported, medium, reply>>

Store(d) ==
    /\ owed[d] # NoWrite
    /\ medium' = [medium EXCEPT ![d][owed[d].block] = owed[d].data]
    /\ owed' = [owed EXCEPT ![d] = NoWrite]
    /\ UNCHANGED <<supported, call, reply>>

(* The medium fails: the call that handed the write over fails if it has    *)
(* not been answered yet.                                                   *)
Fail(d) ==
    /\ owed[d] # NoWrite
    /\ owed' = [owed EXCEPT ![d] = NoWrite]
    /\ call' = IF call # NoCall /\ call.drive = d /\ call.stage = "handed_over"
               THEN [call EXCEPT !.stage = "failed"] ELSE call
    /\ UNCHANGED <<supported, medium, reply>>

Next == Ask \/ Answer \/ HandOver \/ \E d \in Drives : Store(d) \/ Fail(d)

Spec == Init /\ [][Next]_deviceVars
=============================================================================
