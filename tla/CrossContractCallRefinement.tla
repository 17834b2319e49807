--------------------- MODULE CrossContractCallRefinement ---------------------
(***************************************************************************)
(* CrossContractCall implements CallTransaction.  A run that is throwing   *)
(* has already failed as far as the application can tell: nothing of its   *)
(* contexts is handed back.                                                *)
(***************************************************************************)
EXTENDS CrossContractCall

ViewOf(ctx) ==
  [data |-> [a \in Addr |-> IF Known(ctx, a) THEN heap[ctx.queryContexts[a]].data
                            ELSE Absent],
   coins |-> ctx.zswapLocalStates,
   gas |-> ctx.gasCosts,
   events |-> ctx.events,
   trace |-> [k \in 1 .. Len(ctx.trace) |->
     [addr |-> ctx.trace[k].addr, ops |-> ctx.trace[k].ops,
      claims |-> ctx.trace[k].claims]]]

Transaction == INSTANCE CallTransaction WITH
  phase <- [r \in Runs |-> IF status[r] = "throwing" THEN "failed" ELSE status[r]],
  calls <- [r \in Runs |->
    IF status[r] = "running"
    THEN [i \in 1 .. Depth(r) |->
      [addr |-> Home(stack[r][i]), ops |-> stack[r][i].ppd.ops,
       claims |-> stack[r][i].ppd.claims]]
    ELSE <<>>],
  view <- [r \in Runs |->
    IF status[r] = "running" THEN ViewOf(Top(r).ctx) ELSE ViewOf(result[r])]

(* The copies crossContractCall and copyCircuitContext make, the maps it    *)
(* hands back and the cells it snapshots amount to one store per run, on    *)
(* which nested calls act in place and a failure undoes everything.         *)
IsTransactional == Transaction!Spec
=============================================================================
