--------------------------- MODULE CallTransaction ---------------------------
(***************************************************************************)
(* What the runtime's cross-contract calls promise, without contexts,      *)
(* copies, references or awaits: a run is a transaction over one store.    *)
(* Its calls nest, each works on its own contract's entry of the store,    *)
(* a call returns by appending itself to the trace and being claimed by    *)
(* its caller, and the run as a whole commits its view or leaves nothing.  *)
(* No contract executes twice on one call stack.                           *)
(***************************************************************************)
EXTENDS Integers, Sequences

CONSTANTS Addr, Entry, Runs, Reuse, Costs, GasLimit

VARIABLES
  phase,  \* run -> idle, running, done or failed
  calls,  \* run -> the calls in progress, the innermost last
  view    \* run -> the store, the event log and the trace as the run sees them

vars == <<phase, calls, view>>

Untouched == -1

(* The store before any call: the entry contract alone is known.            *)
AtStart == [a \in Addr |-> IF a = Entry THEN 0 ELSE Untouched]

InitialView ==
  [data |-> AtStart, coins |-> AtStart, gas |-> AtStart,
   events |-> <<>>, trace |-> <<>>]

Init ==
  /\ phase = [r \in Runs |-> "idle"]
  /\ calls = [r \in Runs |-> <<>>]
  /\ view = [r \in Runs |-> InitialView]

Innermost(r) == calls[r][Len(calls[r])]
Running(r) == phase[r] = "running"
NewCall(a) == [addr |-> a, ops |-> 0, claims |-> {}]
Touch(entries, a) == [entries EXCEPT ![a] = IF @ = Untouched THEN 0 ELSE @]

Begin(r) ==
  /\ phase[r] = "idle"
  /\ phase' = [phase EXCEPT ![r] = "running"]
  /\ calls' = [calls EXCEPT ![r] = <<NewCall(Entry)>>]
  /\ \/ view' = view
     \/ /\ Reuse
        /\ \E q \in Runs : phase[q] = "done" /\ view' = [view EXCEPT ![r] = view[q]]

(* A query of the executing contract.                                       *)
Op(r, cost) ==
  LET a == Innermost(r).addr
  IN /\ Running(r)
     /\ cost <= GasLimit
     /\ calls' = [calls EXCEPT ![r][Len(calls[r])].ops = @ + 1]
     /\ view' = [view EXCEPT ![r].data[a] = @ + 1, ![r].gas[a] = @ + cost,
                             ![r].events = Append(@, a)]
     /\ UNCHANGED phase

(* A coin output of the executing contract.                                 *)
Output(r) ==
  /\ Running(r)
  /\ view' = [view EXCEPT ![r].coins[Innermost(r).addr] = @ + 1]
  /\ UNCHANGED <<phase, calls>>

Call(r, callee) ==
  /\ Running(r)
  /\ \A i \in 1 .. Len(calls[r]) : calls[r][i].addr # callee
  /\ calls' = [calls EXCEPT ![r] = Append(@, NewCall(callee))]
  /\ view' = [view EXCEPT ![r].data = Touch(@, callee), ![r].coins = Touch(@, callee),
                          ![r].gas = Touch(@, callee)]
  /\ UNCHANGED phase

(* The callee completes, and its caller claims its place in the trace.      *)
Return(r, cost) ==
  LET n == Len(calls[r])
      place == Len(view[r].trace) + 1
  IN /\ Running(r)
     /\ n > 1
     /\ cost <= GasLimit
     /\ calls' = [calls EXCEPT ![r] =
          Append(SubSeq(@, 1, n - 2), [calls[r][n - 1] EXCEPT !.claims = @ \cup {place}])]
     /\ view' = [view EXCEPT ![r].trace = Append(@, calls[r][n]),
                             ![r].gas[calls[r][n - 1].addr] = @ + cost]
     /\ UNCHANGED phase

Commit(r) ==
  /\ Running(r)
  /\ Len(calls[r]) = 1
  /\ phase' = [phase EXCEPT ![r] = "done"]
  /\ calls' = [calls EXCEPT ![r] = <<>>]
  /\ view' = [view EXCEPT ![r].trace = Append(@, calls[r][1])]

(* All or nothing: a failure anywhere in the call tree undoes the whole run. *)
Abort(r) ==
  /\ Running(r)
  /\ phase' = [phase EXCEPT ![r] = "failed"]
  /\ calls' = [calls EXCEPT ![r] = <<>>]
  /\ view' = [view EXCEPT ![r] = InitialView]

Next ==
  \E r \in Runs :
    \/ Begin(r)
    \/ \E cost \in Costs : Op(r, cost) \/ Return(r, cost)
    \/ Output(r)
    \/ \E callee \in Addr : Call(r, callee)
    \/ Commit(r)
    \/ Abort(r)

Spec == Init /\ [][Next]_vars
=============================================================================
