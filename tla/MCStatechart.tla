---------------------------- MODULE MCStatechart ----------------------------
(***************************************************************************)
(* A tree with a parallel state, nested compound regions, a shallow and a  *)
(* deep history node and final states, and families of configs over it.    *)
(*                                                                         *)
(*   m -+- idle                                                            *)
(*      +- P (parallel) -+- A -+- a1                                       *)
(*      |                |     +- Q -+- x                                  *)
(*      |                |     |     +- y                                  *)
(*      |                |     +- af (final)                               *)
(*      |                |     +- Ah (history)                             *)
(*      |                +- B -+- b1                                       *)
(*      |                |     +- bf (final)                               *)
(*      |                +- Ph (history)                                   *)
(*      +- end (final)                                                     *)
(*                                                                         *)
(* Every state has its key for its id but the history nodes, whose ids are  *)
(* made by the parser.                                                      *)
(***************************************************************************)
EXTENDS Statechart

E == <<"E">>
F == <<"F">>
G == <<"F", "sub">>
JobDone == <<"done", "invoke", "job">>
Waited == AfterEvent(5, "end")
Events == {E, F, JobDone, Waited}
Untimed == Events \ {Waited}

To(keys) == [target |-> <<Beside(keys)>>]
ToId(names) == [target |-> [i \in DOMAIN names |-> Hash(names[i])]]
Nowhere == [target |-> <<>>]
On(e, raw) == <<[event |-> Exactly(e), raws |-> <<raw>>]>>

mP == <<"P">>
mA == <<"P", "A">>
mQ == <<"P", "A", "Q">>
mB == <<"P", "B">>
Leaf(p) == p :> [id |-> Last(p)]
Final(p) == p :> [id |-> Last(p), type |-> "final"]

\* Into P by its history, and out of it when its job is done.
Base(deep) ==
    <<>> :> [id |-> "m", states |-> <<"idle", "P", "end">>]
    @@ <<"idle">> :> [id |-> "idle", on |-> On(E, To(<<"P", "Ph">>))]
    @@ mP :> [id |-> "P", type |-> "parallel", states |-> <<"A", "B", "Ph">>,
              invoke |-> <<[id |-> "job", src |-> "job", onDone |-> <<To(<<"idle">>)>>]>>]
    @@ mA :> [id |-> "A", initial |-> "a1", states |-> <<"a1", "Q", "af", "Ah">>]
    @@ Leaf(mA \o <<"a1">>)
    @@ mQ :> [id |-> "Q", states |-> <<"x", "y">>]
    @@ Leaf(mQ \o <<"x">>) @@ Leaf(mQ \o <<"y">>)
    @@ Final(mA \o <<"af">>)
    @@ mA \o <<"Ah">> :> [type |-> "history", history |-> IF deep = "A.Ah" THEN "deep" ELSE "shallow"]
    @@ mB :> [id |-> "B", initial |-> "b1", states |-> <<"b1", "bf">>]
    @@ Leaf(mB \o <<"b1">>) @@ Final(mB \o <<"bf">>)
    @@ mP \o <<"Ph">> :>
         ([type |-> "history", target |-> <<Hash("a1"), Beside(<<"B", "b1">>)>>]
          @@ IF deep = "P.Ph" THEN [history |-> "deep"] ELSE [history |-> "shallow"])
    @@ Final(<<"end">>)

\* Ph is shallow (the two regions of P), and Ah deep; or the other way round.
DeepA == Base("A.Ah")
DeepP == Base("P.Ph")

\* More of a field of a state.
Add(cfg, p, field, more) ==
    [cfg EXCEPT ![p] = (field :> (Get(@, field, <<>>) \o more)) @@ @]

\* Entry and exit actions that raise.
Raising == Add(Add(Add(DeepA, mQ \o <<"y">>, "entry", <<F>>),
                   mB \o <<"bf">>, "entry", <<G>>), mA \o <<"a1">>, "exit", <<F>>)

MachinesOf(configs) == {Transitions(c) : c \in {d \in configs : Accepted(d)}}

\* What the algorithm reads of the machine, written down, since TLC would parse
\* again at each use of a constant that stood for it.
MCDoc == <<"m", "idle", "P", "A", "a1", "Q", "x", "y", "af", "A.Ah",
           "B", "b1", "bf", "P.Ph", "end">>
MCKind ==
    [n \in ToSet(MCDoc) |->
        IF n \in {"m", "A", "Q", "B"} THEN "compound"
        ELSE IF n = "P" THEN "parallel"
        ELSE IF n \in {"af", "bf", "end"} THEN "final"
        ELSE IF n \in {"A.Ah", "P.Ph"} THEN "history" ELSE "atomic"]
MCParent ==
    [n \in {"idle", "P", "end"} |-> "m"] @@ [n \in {"A", "B", "P.Ph"} |-> "P"]
    @@ [n \in {"a1", "Q", "af", "A.Ah"} |-> "A"] @@ [n \in {"x", "y"} |-> "Q"]
    @@ [n \in {"b1", "bf"} |-> "B"]
MCInitial == [m |-> "idle", A |-> "a1", Q |-> "x", B |-> "b1"]
MCHistoryTarget == "A.Ah" :> {} @@ "P.Ph" :> {"a1", "b1"}
DeepInA == {"A.Ah"}
DeepInP == {"P.Ph"}
NoRaise == [n \in ToSet(MCDoc) |-> <<>>]
RaiseOnEntry == [NoRaise EXCEPT !["y"] = <<F>>, !["bf"] = <<G>>]
RaiseOnExit == [NoRaise EXCEPT !["a1"] = <<F>>]

\* It is what the parser makes of the configs.
ASSUME TreeIsParsed ==
    /\ DocOf(DeepA) = MCDoc /\ KindOf(DeepA) = MCKind /\ ParentOf(DeepA) = MCParent
    /\ InitialOfCompound(DeepA) = MCInitial /\ HistoryTargetOf(DeepA) = MCHistoryTarget
    /\ DeepOf(DeepA) = DeepInA /\ DeepOf(DeepP) = DeepInP
    /\ RaisesOf(DeepA, "entry") = NoRaise
    /\ RaisesOf(Raising, "entry") = RaiseOnEntry /\ RaisesOf(Raising, "exit") = RaiseOnExit

\* The charts of the runs are among those the theorems are about.
ASSUME ChartsAreWellFormed == WellFormedTree /\ WellFormedCharts /\ WellFormedDone

-----------------------------------------------------------------------------
(* Competing transitions: any transition of region A with any transition of
   region B or of P, on the same event.                                     *)

Reach == {To(<<"y">>), ToId(<<"y", "bf">>), ToId(<<"P.Ph">>)} \cup
         {ToId(<<n>>) : n \in {"idle", "P", "A", "Q", "y", "B", "bf", "end"}}
SelfTo(p) == ToId(<<Last(p)>>)

Pool(paths) == {<<p, raw>> : p \in paths, raw \in Reach \cup {SelfTo(q) : q \in paths}}
Internal(paths) == {<<tr[1], [type |-> "internal"] @@ tr[2]>> : tr \in Pool(paths)}

InA == Pool({mA \o <<"a1">>, mQ, mQ \o <<"x">>}) \cup Internal({mQ, mA})
InB == Pool({mP, mB \o <<"b1">>})
OnF == Add(DeepP, mQ \o <<"x">>, "on", On(F, To(<<"y">>)))

Competing ==
    MachinesOf({Add(Add(OnF, t[1], "on", On(E, t[2])), u[1], "on", On(E, u[2])) :
                  t \in InA, u \in InB})

-----------------------------------------------------------------------------
(* Macrosteps: guarded and done transitions, with every choice of those that
   raise, complete, loop, listen to a wildcard or leave the parallel state.  *)

Guarding(raw) == [guard |-> TRUE] @@ raw

Completing(cfg) ==
    Add(Add(Add(Add(cfg,
        mB \o <<"b1">>, "on", On(E, Guarding(To(<<"bf">>)))),
        mQ \o <<"x">>, "always", <<Guarding(To(<<"y">>))>>),
        mA, "onDone", <<[target |-> <<Under(<<"Q">>)>>]>>),
        <<"end">>, "after", <<[delay |-> 5, raws |-> <<ToId(<<"P.Ph">>)>>]>>)

Reactions == {
    <<mA \o <<"a1">>, "on", On(E, [actions |-> <<F>>] @@ To(<<"af">>))>>,
    <<mB \o <<"b1">>, "on", On(F, [in |-> "af"] @@ To(<<"bf">>))>>,
    <<mQ \o <<"y">>, "always", <<To(<<"x">>)>>>>,
    <<mB, "on", <<[event |-> [tokens |-> <<"F">>, wild |-> TRUE],
                   raws |-> <<[target |-> <<Under(<<"b1">>)>>]>>]>>>>,
    <<mA, "on", On(F, [actions |-> <<F>>])>>,
    <<mP, "onDone", <<To(<<"end">>)>>>>}

AddAll(cfg, S) == FoldLeft(LAMBDA c, r : Add(c, r[1], r[2], r[3]), cfg, SetToSeq(S))

\* A machine that may loop before it has its initial snapshot.
Restless == Add(DeepA, <<"idle">>, "always", <<Guarding(Nowhere)>>)

Reacting == MachinesOf({Restless} \cup {AddAll(Completing(DeepA), S) : S \in SUBSET Reactions})

-----------------------------------------------------------------------------
\* Both families.
Charted == Competing \cup Reacting

\* A machine that completes and receives another event.
Ending == MachinesOf({Add(DeepA, mP, "on", On(E, To(<<"end">>)))})
=============================================================================
