-------------------------- MODULE ActorsTreeProofs --------------------------
(***************************************************************************)
(* What the actor tree of Actors keeps, whatever its threads do: a parent   *)
(* that has stopped leaves no child running, the invocations follow the     *)
(* configuration, and completions reach the parent once.                    *)
(*                                                                         *)
(* Tree strengthens the three properties to an inductive invariant: which   *)
(* call, on which stack, is about to do what the tables or the children     *)
(* still lack.                                                             *)
(***************************************************************************)
EXTENDS ActorsProofs

\* Child c has stopped, or a thread is stopping it, or an exception of its
\* cleanup has cut that short.
InStop(c) == \E f \in Live("cstop") \cup Live("cleanup") : f.arg = c
Down(c) == cst[c] = "stopped" \/ c \in cut \/ InStop(c)

\* Nobody has to stop child c any more: it is down, or has lost its place in
\* the table to the stop of an older child with its id.
Out(c) == Down(c) \/ c \in lost

\* The parent stops, or has stopped.
Closing == Stopping \/ ist = "stopped"

\* The children that are up are those of the tables; none is once the parent
\* has stopped.
UpInTable == \A c \in Created : Out(c) \/ Closing \/ children[id[c]] = c
UpInvoked == \A c \in Created : id[c] \in InvId => Down(c) \/ invoked[id[c]] = c
AllDown == ist = "stopped" => \A c \in Created : Out(c)

\* stop() has the others before it.
UpInStop == \A f \in Live("stopkids") : \A c \in Created : Out(c) \/ c \in f.ids

\* A child is cleaned up once, before it has stopped, and unlinked after.
Unlinked == \A f \in Live("unlink") : cst[f.arg] = "stopped"
CleanedBefore == \A f \in Live("cleanup") : cst[f.arg] # "stopped"
CleanedOnce == \A t \in Thread : \A k, j \in DOMAIN stack[t] :
    stack[t][k].op = "cleanup" /\ stack[t][j].op = "cleanup"
    /\ stack[t][k].arg = stack[t][j].arg => k = j

\* An id whose child is stopped has no other one yet.
StopsAlone == \A f \in Live("cstop") \cup Live("cleanup") \cup Live("unlink") :
    id[f.arg] \in InvId => invoked[id[f.arg]] = None \/ Closing

\* A call that stops the child of an invocation finds it in the table or finds
\* nothing there: only children that the application spawned are lost.
Own(c) == id[c] \in InvId => children[id[c]] \in {None, c}
InStops == Live("cstop") \cup Live("cleanup") \cup Live("unlink")
Entries ==
    /\ \A c \in lost : c \in Created /\ id[c] \in SpawnId
    /\ \A f \in InStops : Own(f.arg)
    /\ \A f \in Live("stopkids") : \A c \in f.ids : Own(c)

\* The reconciler is unsubscribed before the parent stops.
StopQuiet == Stopping => ~sub

\* While the parent is up, an invocation of the table has its child there too,
\* started or about to be.
InvocationsUp ==
    ist = "running" /\ ~Stopping => \A i \in InvId : invoked[i] # None =>
        LET c == invoked[i] IN
        /\ children[i] = c
        /\ c \notin cut
        /\ \/ cst[c] = "running"
           \/ cst[c] = "not_started" /\ \E f \in Live("cstart") : f.arg = c

\* Before it starts, the parent runs nothing and has invoked nothing.
InTable == {i \in InvId : invoked[i] # None}
Asleep == ist = "not_started" =>
    /\ \A op \in {"drain", "act", "subscribe", "sync", "recon", "leave", "enter"} : Live(op) = {}
    /\ ~sub /\ InTable = {} /\ \A c \in Child : ~listening[c]

\* A configuration that differs from the table is about to be reconciled.
Due ==
    \/ Live("act") # {} \/ Live("sync") # {} \/ Live("recon") # {}
    \/ \E f \in Live("leave") \cup Live("enter") : f.changed
    \/ \E f \in Live("leave") : f.ids = conf /\ f.gone = InTable \ conf
    \/ \E f \in Live("enter") : f.ids = conf \ InTable /\ InTable \subseteq conf
ReconciliationDue == ist = "running" /\ sub /\ ~torn => InTable = conf \/ Due

\* Thread t carries the completion of child c to the parent.
Carries(t, c) == \E f \in Calls(t) : f.op \in {"send", "isend"} /\ f.arg = c

\* The listener of a child tells its parent at most once, ...
ToldOnce == \A c \in Child :
    /\ delivered[c] <= 1
    /\ \A t \in Thread : Carries(t, c) => told[c] /\ delivered[c] = 0
    /\ ~told[c] => delivered[c] = 0
    /\ \A t, u \in Thread : Carries(t, c) /\ Carries(u, c) => t = u

\* ... and does, unless the parent stops first.
ToldAtLeast == \A c \in Child : listening[c] =>
    /\ snap[c] = "settled" => told[c] \/ \E f \in Live("cnotify") : f.arg = c
    /\ told[c] => \/ delivered[c] = 1 \/ Stopping \/ ist = "stopped"
                  \/ \E t \in Thread : Carries(t, c)

Ties == /\ UpInTable /\ UpInvoked /\ AllDown /\ UpInStop /\ Unlinked /\ CleanedBefore
        /\ StopsAlone /\ Entries /\ StopQuiet /\ InvocationsUp
Tree == Ties /\ CleanedOnce /\ Asleep

-----------------------------------------------------------------------------
(* Which calls come and go in a step *)

\* A call may go on as, or make, only certain others.
Follows == {<<"send", "isend">>, <<"isend", "drain">>, <<"drain", "act">>,
            <<"act", "drain">>, <<"act", "sync">>,
            <<"start", "subscribe">>, <<"start", "act">>,
            <<"subscribe", "return">>, <<"subscribe", "sync">>,
            <<"stop", "stopkids">>, <<"stopkids", "stopkids">>, <<"stopkids", "cstop">>,
            <<"cstart", "run">>, <<"run", "return">>, <<"run", "cnotify">>,
            <<"cnotify", "send">>, <<"cstop", "cleanup">>, <<"cleanup", "unlink">>,
            <<"sync", "recon">>, <<"recon", "leave">>,
            <<"leave", "leave">>, <<"leave", "cstop">>, <<"leave", "enter">>,
            <<"enter", "enter">>, <<"enter", "cstart">>, <<"enter", "recon">>}

\* Thread t goes on with the calls `new` in place of the one on top; what is
\* below rests.
Replaces(t, new) ==
    /\ stack[t] # <<>> /\ new \subseteq Call
    /\ Changes(t, {Top(t)}, new)
    /\ Calls(t)' \subseteq {f \in Calls(t) : f.op \in Resting} \cup new
    /\ \E seq \in Seq(Call) :
          Moves(t, Len(stack[t]) - 1, seq) /\ \A i \in 1..Len(seq) : seq[i] \in new

LEMMA BecomesReplaces ==
  ASSUME Frames, NEW t \in Thread, stack[t] # <<>>
  PROVE  /\ Becomes(t, <<>>) => Replaces(t, {})
         /\ \A f \in Call : Becomes(t, <<f>>) => Replaces(t, {f})
         /\ \A f, g \in Call : Becomes(t, <<f, g>>) => Replaces(t, {f, g})
<1>1. ASSUME NEW new \in Seq(Call), Becomes(t, new)
      PROVE  /\ Calls(t)' \subseteq {f \in Calls(t) : f.op \in Resting}
                                    \cup {new[i] : i \in 1..Len(new)}
             /\ Moves(t, Len(stack[t]) - 1, new)
  <2> DEFINE n == Len(stack[t]) - 1
  <2>1. Moves(t, n, new)
    BY <1>1, BecomesMoves DEF Frames
  <2>2. /\ \A k \in DOMAIN stack'[t] :
            \/ k \in 1..n /\ k \in DOMAIN stack[t] /\ stack'[t][k] = stack[t][k]
            \/ \E i \in 1..Len(new) : k = n + i /\ stack'[t][k] = new[i]
    <3> HIDE DEF n
    <3> QED
      BY <2>1, Positions DEF Frames
  <2>3. \A k \in 1..n : k \in DOMAIN stack[t] => stack[t][k].op \in Resting
    BY OnTop DEF Frames, Order
  <2>4. Moves(t, Len(stack[t]) - 1, new)
    BY <2>1
  <2> HIDE DEF n
  <2> QED
    BY <2>2, <2>3, <2>4 DEF Calls
<1>2. <<>> \in Seq(Call) /\ {<<>>[i] : i \in 1..Len(<<>>)} = {}
  OBVIOUS
<1>3. \A f \in Call : <<f>> \in Seq(Call) /\ {<<f>>[i] : i \in 1..Len(<<f>>)} = {f}
  OBVIOUS
<1>4. ASSUME NEW f \in Call, NEW g \in Call
      PROVE  <<f, g>> \in Seq(Call) /\ {<<f, g>>[i] : i \in 1..Len(<<f, g>>)} = {f, g}
  <2>1. 1..Len(<<f, g>>) = {1, 2} /\ <<f, g>>[1] = f /\ <<f, g>>[2] = g
    OBVIOUS
  <2> QED
    BY <2>1
<1>5. Becomes(t, <<>>) => Replaces(t, {})
  <2>1. Becomes(t, <<>>) => Changes(t, {Top(t)}, {})
    BY BecomesChanges DEF Frames
  <2>2. Becomes(t, <<>>) => /\ Calls(t)' \subseteq {f \in Calls(t) : f.op \in Resting} \cup {}
                            /\ Moves(t, Len(stack[t]) - 1, <<>>)
    BY <1>1, <1>2
  <2> QED
    BY <2>1, <2>2, <1>2 DEF Replaces
<1>6. ASSUME NEW f \in Call, Becomes(t, <<f>>)
      PROVE  Replaces(t, {f})
  <2>1. Changes(t, {Top(t)}, {f})
    BY <1>6, BecomesChanges DEF Frames
  <2>2. /\ Calls(t)' \subseteq {h \in Calls(t) : h.op \in Resting} \cup {f}
        /\ Moves(t, Len(stack[t]) - 1, <<f>>)
    BY <1>1, <1>3, <1>6
  <2>3. <<f>> \in Seq(Call) /\ \A i \in 1..Len(<<f>>) : <<f>>[i] \in {f}
    BY <1>3
  <2> QED
    BY <2>1, <2>2, <2>3 DEF Replaces
<1>7. ASSUME NEW f \in Call, NEW g \in Call, Becomes(t, <<f, g>>)
      PROVE  Replaces(t, {f, g})
  <2>1. Changes(t, {Top(t)}, {f, g})
    BY <1>7, BecomesChanges DEF Frames
  <2>2. /\ Calls(t)' \subseteq {h \in Calls(t) : h.op \in Resting} \cup {f, g}
        /\ Moves(t, Len(stack[t]) - 1, <<f, g>>)
    BY <1>1, <1>4, <1>7
  <2>3. <<f, g>> \in Seq(Call) /\ \A i \in 1..Len(<<f, g>>) : <<f, g>>[i] \in {f, g}
    BY <1>4
  <2> QED
    BY <2>1, <2>2, <2>3 DEF Replaces
<1> QED
  BY <1>5, <1>6, <1>7

\* What each action does to the calls of its thread.
LEMMA Effects ==
  ASSUME Frames, Data, Tables, NEW t \in Thread
  PROVE  /\ Send(t) => /\ At(t, "send")
                       /\ \/ Replaces(t, {}) /\ (Stopping \/ ist = "stopped")
                          \/ Replaces(t, {Frame("isend", Top(t).arg)})
         /\ InterpreterSend(t) => /\ At(t, "isend")
                                  /\ \/ Replaces(t, {})
                                     \/ Replaces(t, {Frame("drain", None)}) /\ ist = "running"
         /\ Drain(t) => /\ At(t, "drain")
                        /\ \/ Replaces(t, {}) /\ conf' = conf
                           \/ Replaces(t, {Frame("act", None)})
         /\ Notify(t) => /\ At(t, "act")
                         /\ \/ Replaces(t, {Frame("drain", None)}) /\ ~(ist = "running" /\ sub)
                            \/ Replaces(t, {Frame("drain", None), Frame("sync", None)})
         /\ Start(t) => /\ At(t, "start")
                        /\ \/ Replaces(t, {}) /\ ist' = ist
                           \/ /\ ist # "stopped" /\ ~Stopping /\ ~sub /\ ist' = "running"
                              /\ \/ Replaces(t, {Holding("subscribe", Parent)})
                                 \/ Replaces(t, {Holding("subscribe", Parent), Frame("act", None)})
         /\ Subscribe(t) => /\ At(t, "subscribe")
                            /\ \/ Replaces(t, {Holding("return", Parent)}) /\ ist # "running"
                               \/ Replaces(t, {Holding("return", Parent), Frame("sync", None)})
         /\ Return(t) => At(t, "return") /\ Replaces(t, {})
<1>0. \A op \in Labels, arg \in Child \cup {None} : Frame(op, arg) \in Call /\ Holding(op, arg) \in Call
  BY Calling
<1>1. /\ Frame("drain", None) \in Call /\ Frame("act", None) \in Call /\ Frame("sync", None) \in Call
      /\ Holding("subscribe", Parent) \in Call /\ Holding("return", Parent) \in Call
  BY <1>0 DEF Labels, Parent
<1>2. ASSUME Send(t)
      PROVE  /\ At(t, "send")
             /\ \/ Replaces(t, {}) /\ (Stopping \/ ist = "stopped")
                \/ Replaces(t, {Frame("isend", Top(t).arg)})
  <2>1. At(t, "send") /\ stack[t] # <<>> /\ Top(t).arg \in Child \cup {None}
    BY <1>2, TopFormed DEF Send
  <2>2. Frame("isend", Top(t).arg) \in Call
    BY <2>1, <1>0 DEF Labels
  <2> QED
    BY <1>2, <2>1, <2>2, BecomesReplaces DEF Send
<1>3. ASSUME InterpreterSend(t)
      PROVE  /\ At(t, "isend")
             /\ \/ Replaces(t, {})
                \/ Replaces(t, {Frame("drain", None)}) /\ ist = "running"
  <2>1. At(t, "isend") /\ stack[t] # <<>>
    BY <1>3, TopFormed DEF InterpreterSend
  <2> QED
    BY <1>1, <1>3, <2>1, BecomesReplaces DEF InterpreterSend
<1>4. ASSUME Drain(t)
      PROVE  /\ At(t, "drain")
             /\ \/ Replaces(t, {}) /\ conf' = conf
                \/ Replaces(t, {Frame("act", None)})
  <2>1. At(t, "drain") /\ stack[t] # <<>>
    BY <1>4, TopFormed DEF Drain
  <2> QED
    BY <1>1, <1>4, <2>1, BecomesReplaces DEF Drain
<1>5. ASSUME Notify(t)
      PROVE  /\ At(t, "act")
             /\ \/ Replaces(t, {Frame("drain", None)}) /\ ~(ist = "running" /\ sub)
                \/ Replaces(t, {Frame("drain", None), Frame("sync", None)})
  <2>1. At(t, "act") /\ stack[t] # <<>>
    BY <1>5, TopFormed DEF Notify
  <2>2. \/ Becomes(t, <<Frame("drain", None)>>) /\ ~(ist = "running" /\ sub)
        \/ Becomes(t, <<Frame("drain", None), Frame("sync", None)>>)
    BY <1>1, <1>5, Concats DEF Notify
  <2> QED
    BY <1>1, <2>1, <2>2, BecomesReplaces
<1>6. ASSUME Start(t)
      PROVE  /\ At(t, "start")
             /\ \/ Replaces(t, {}) /\ ist' = ist
                \/ /\ ist # "stopped" /\ ~Stopping /\ ~sub /\ ist' = "running"
                   /\ \/ Replaces(t, {Holding("subscribe", Parent)})
                      \/ Replaces(t, {Holding("subscribe", Parent), Frame("act", None)})
  <2>1. At(t, "start") /\ stack[t] # <<>>
    BY <1>6, TopFormed DEF Start
  <2>2. \/ Becomes(t, <<>>) /\ ist' = ist
        \/ /\ ist # "stopped" /\ ~Stopping /\ ~sub /\ ist' = "running"
           /\ \/ Becomes(t, <<Holding("subscribe", Parent)>>)
              \/ Becomes(t, <<Holding("subscribe", Parent), Frame("act", None)>>)
    BY <1>1, <1>6, Concats DEF Start
  <2> QED
    BY <1>1, <2>1, <2>2, BecomesReplaces
<1>7. ASSUME Subscribe(t)
      PROVE  /\ At(t, "subscribe")
             /\ \/ Replaces(t, {Holding("return", Parent)}) /\ ist # "running"
                \/ Replaces(t, {Holding("return", Parent), Frame("sync", None)})
  <2>1. At(t, "subscribe") /\ stack[t] # <<>>
    BY <1>7, TopFormed DEF Subscribe
  <2>2. \/ Becomes(t, <<Holding("return", Parent)>>) /\ ist # "running"
        \/ Becomes(t, <<Holding("return", Parent), Frame("sync", None)>>)
    BY <1>1, <1>7, Concats DEF Subscribe
  <2> QED
    BY <1>1, <2>1, <2>2, BecomesReplaces
<1>8. ASSUME Return(t)
      PROVE  At(t, "return") /\ Replaces(t, {})
  BY <1>8, TopFormed, BecomesReplaces DEF Return
<1> QED
  BY <1>2, <1>3, <1>4, <1>5, <1>6, <1>7, <1>8

LEMMA ChildEffects ==
  ASSUME Frames, Data, Tables, NEW t \in Thread
  PROVE  /\ ChildStart(t) => /\ At(t, "cstart")
                             /\ \/ Replaces(t, {}) /\ cst' = cst
                                   /\ (cst[Top(t).arg] # "not_started" \/ ChildStopping(Top(t).arg))
                                \/ Replaces(t, {Holding("run", Top(t).arg)})
                                   /\ cst[Top(t).arg] = "not_started"
                                   /\ cst' = [cst EXCEPT ![Top(t).arg] = "running"]
         /\ ChildStarted(t) => /\ At(t, "run")
                               /\ Replaces(t, {Holding("return", Top(t).arg),
                                               Frame("cnotify", Top(t).arg)})
         /\ ChildNotify(t) => /\ At(t, "cnotify")
                              /\ LET c == Top(t).arg IN
                                 \/ /\ listening[c] /\ ~told[c] /\ snap[c] = "settled"
                                    /\ told' = [told EXCEPT ![c] = TRUE]
                                    /\ Replaces(t, {Frame("send", c)})
                                 \/ /\ ~(listening[c] /\ ~told[c] /\ snap[c] = "settled")
                                    /\ told' = told
                                    /\ Replaces(t, {})
         /\ ChildStop(t) => /\ At(t, "cstop")
                            /\ LET c == Top(t).arg IN
                               \/ Replaces(t, {}) /\ (ChildStopping(c) \/ cst[c] = "stopped")
                               \/ /\ Replaces(t, {Holding("cleanup", c)})
                                  /\ ~ChildStopping(c) /\ cst[c] # "stopped"
         /\ ChildStopped(t) => /\ At(t, "cleanup")
                               /\ Replaces(t, {Frame("unlink", Top(t).arg)})
         /\ Unlink(t) => At(t, "unlink") /\ Replaces(t, {})
<1>0. \A op \in Labels, arg \in Child \cup {None} : Frame(op, arg) \in Call /\ Holding(op, arg) \in Call
  BY Calling
<1>1. ASSUME ChildStart(t) \/ ChildStarted(t) \/ ChildNotify(t) \/ ChildStop(t)
             \/ ChildStopped(t) \/ Unlink(t)
      PROVE  /\ stack[t] # <<>>
             /\ Holding("run", Top(t).arg) \in Call /\ Holding("return", Top(t).arg) \in Call
             /\ Frame("cnotify", Top(t).arg) \in Call /\ Frame("send", Top(t).arg) \in Call
             /\ Holding("cleanup", Top(t).arg) \in Call /\ Frame("unlink", Top(t).arg) \in Call
  <2>1. stack[t] # <<>> /\ Top(t).arg \in Child \cup {None}
    BY <1>1, TopFormed DEF ChildStart, ChildStarted, ChildNotify, ChildStop, ChildStopped, Unlink
  <2> QED
    BY <2>1, <1>0 DEF Labels
<1>2. ChildStart(t) => /\ At(t, "cstart")
                       /\ \/ Replaces(t, {}) /\ cst' = cst
                             /\ (cst[Top(t).arg] # "not_started" \/ ChildStopping(Top(t).arg))
                          \/ Replaces(t, {Holding("run", Top(t).arg)})
                             /\ cst[Top(t).arg] = "not_started"
                             /\ cst' = [cst EXCEPT ![Top(t).arg] = "running"]
  BY <1>1, BecomesReplaces DEF ChildStart
<1>3. ChildStarted(t) => /\ At(t, "run")
                         /\ Replaces(t, {Holding("return", Top(t).arg),
                                         Frame("cnotify", Top(t).arg)})
  BY <1>1, BecomesReplaces DEF ChildStarted
<1>4. ChildNotify(t) => /\ At(t, "cnotify")
                        /\ LET c == Top(t).arg IN
                           \/ /\ listening[c] /\ ~told[c] /\ snap[c] = "settled"
                              /\ told' = [told EXCEPT ![c] = TRUE]
                              /\ Replaces(t, {Frame("send", c)})
                           \/ /\ ~(listening[c] /\ ~told[c] /\ snap[c] = "settled")
                              /\ told' = told
                              /\ Replaces(t, {})
  BY <1>1, BecomesReplaces DEF ChildNotify
<1>5. ChildStop(t) => /\ At(t, "cstop")
                      /\ LET c == Top(t).arg IN
                         \/ Replaces(t, {}) /\ (ChildStopping(c) \/ cst[c] = "stopped")
                         \/ /\ Replaces(t, {Holding("cleanup", c)})
                            /\ ~ChildStopping(c) /\ cst[c] # "stopped"
  BY <1>1, BecomesReplaces DEF ChildStop
<1>6. ChildStopped(t) => /\ At(t, "cleanup")
                         /\ Replaces(t, {Frame("unlink", Top(t).arg)})
  BY <1>1, BecomesReplaces DEF ChildStopped
<1>7. Unlink(t) => At(t, "unlink") /\ Replaces(t, {})
  BY <1>1, BecomesReplaces DEF Unlink
<1> QED
  BY <1>2, <1>3, <1>4, <1>5, <1>6, <1>7

\* stop() with the children of the table; with one child less and its stop.
KidsFrame == [Holding("stopkids", Parent) EXCEPT !.ids = {children[i] : i \in Id} \ {None}]
LessFrame(t, c) == [Top(t) EXCEPT !.ids = @ \ {c}]

LEMMA StopEffects ==
  ASSUME Frames, Data, Tables, NEW t \in Thread
  PROVE  /\ Stop(t) => /\ At(t, "stop") /\ CanTake(t, Parent)
                       /\ \/ Replaces(t, {}) /\ sub' = sub
                          \/ /\ ~Stopping /\ ist # "stopped" /\ sub' = FALSE
                             /\ Replaces(t, {KidsFrame})
         /\ StopChild(t) => /\ At(t, "stopkids")
                            /\ \E c \in Top(t).ids \cap Created :
                                  /\ Replaces(t, {LessFrame(t, c), Frame("cstop", c)})
                                  /\ LessFrame(t, c).op = "stopkids"
                                  /\ LessFrame(t, c).ids = Top(t).ids \ {c}
                                  /\ Frame("cstop", c).op = "cstop" /\ Frame("cstop", c).arg = c
         /\ StopSelf(t) => At(t, "stopkids") /\ Top(t).ids = {} /\ Replaces(t, {})
         /\ KidsFrame.op = "stopkids" /\ KidsFrame.ids = {children[i] : i \in Id} \ {None}
<1>1. /\ KidsFrame \in Call
      /\ KidsFrame.op = "stopkids" /\ KidsFrame.ids = {children[i] : i \in Id} \ {None}
  <2> DEFINE kids == {children[i] : i \in Id} \ {None}
             hold == Holding("stopkids", Parent)
  <2>1. kids \subseteq Child
    BY InTables
  <2>2. hold \in Call /\ hold.op = "stopkids"
    BY Calling DEF Labels, Parent
  <2> HIDE DEF kids, hold
  <2>3. [hold EXCEPT !.ids = kids] \in Call /\ [hold EXCEPT !.ids = kids].op = "stopkids"
        /\ [hold EXCEPT !.ids = kids].ids = kids
    BY <2>1, <2>2 DEF Call
  <2> QED
    BY <2>3 DEF KidsFrame, kids, hold
<1>2. ASSUME Stop(t)
      PROVE  /\ At(t, "stop") /\ CanTake(t, Parent)
             /\ \/ Replaces(t, {}) /\ sub' = sub
                \/ /\ ~Stopping /\ ist # "stopped" /\ sub' = FALSE
                   /\ Replaces(t, {KidsFrame})
  <2>1. At(t, "stop") /\ stack[t] # <<>> /\ CanTake(t, Parent)
    BY <1>2, TopFormed DEF Stop
  <2>2. \/ Becomes(t, <<>>) /\ sub' = sub
        \/ ~Stopping /\ ist # "stopped" /\ sub' = FALSE /\ Becomes(t, <<KidsFrame>>)
    BY <1>2 DEF Stop, KidsFrame
  <2> QED
    BY <1>1, <2>1, <2>2, BecomesReplaces
<1>3. ASSUME StopChild(t)
      PROVE  /\ At(t, "stopkids")
             /\ \E c \in Top(t).ids \cap Created :
                   /\ Replaces(t, {LessFrame(t, c), Frame("cstop", c)})
                   /\ LessFrame(t, c).op = "stopkids"
                   /\ LessFrame(t, c).ids = Top(t).ids \ {c}
                   /\ Frame("cstop", c).op = "cstop" /\ Frame("cstop", c).arg = c
  <2>1. At(t, "stopkids") /\ stack[t] # <<>> /\ Top(t).op = "stopkids" /\ Top(t) \in Call
        /\ Top(t).ids \subseteq Created
    BY <1>3, TopFormed DEF StopChild, Formed
  <2>2. PICK c \in Top(t).ids : Becomes(t, <<LessFrame(t, c), Frame("cstop", c)>>)
    BY <1>3 DEF StopChild, LessFrame
  <2>3. LessFrame(t, c) \in Call /\ LessFrame(t, c).op = "stopkids"
        /\ LessFrame(t, c).ids = Top(t).ids \ {c}
    BY <2>1 DEF LessFrame, Call
  <2>4. Frame("cstop", c) \in Call /\ Frame("cstop", c).op = "cstop" /\ Frame("cstop", c).arg = c
    <3>1. c \in Child /\ "cstop" \in Labels
      BY <2>1 DEF Created, Labels
    <3> QED
      BY <3>1, Calling
  <2>5. Replaces(t, {LessFrame(t, c), Frame("cstop", c)})
    BY <2>1, <2>2, <2>3, <2>4, BecomesReplaces
  <2> QED
    BY <2>1, <2>3, <2>4, <2>5
<1>4. ASSUME StopSelf(t)
      PROVE  At(t, "stopkids") /\ Top(t).ids = {} /\ Replaces(t, {})
  BY <1>4, TopFormed, BecomesReplaces DEF StopSelf
<1> QED
  BY <1>1, <1>2, <1>3, <1>4

\* The calls of a pass over the invocations.
PassFrame == [Holding("leave", Parent) EXCEPT !.ids = conf,
                 !.gone = {i \in InvId : invoked[i] # None} \ conf]
LeftFrame(t, i) == [Top(t) EXCEPT !.gone = @ \ {i}, !.changed = TRUE]
ResolvedFrame(t) == [Top(t) EXCEPT !.op = "enter", !.ids = {i \in @ : invoked[i] = None}]
EnteredFrame(t, i) == [Top(t) EXCEPT !.ids = @ \ {i}, !.changed = TRUE]

\* A step that leaves invocation i, and one that enters it with child c.
Leaves(t, i) ==
    /\ invoked[i] # None
    /\ invoked' = [invoked EXCEPT ![i] = None]
    /\ children' = [children EXCEPT ![i] = None]
    /\ Replaces(t, {LeftFrame(t, i), Frame("cstop", invoked[i])})
    /\ LeftFrame(t, i).op = "leave" /\ LeftFrame(t, i).changed
    /\ Frame("cstop", invoked[i]).op = "cstop" /\ Frame("cstop", invoked[i]).arg = invoked[i]

Enters(t, i, c) ==
    /\ Registered(i) = {} /\ Create(c, i)
    /\ invoked' = [invoked EXCEPT ![i] = c]
    /\ listening' = [listening EXCEPT ![c] = TRUE]
    /\ Replaces(t, {EnteredFrame(t, i), Frame("cstart", c)})
    /\ EnteredFrame(t, i).op = "enter" /\ EnteredFrame(t, i).changed
    /\ Frame("cstart", c).op = "cstart" /\ Frame("cstart", c).arg = c

LEMMA PassEffects ==
  ASSUME Frames, Data, Tables, NEW t \in Thread
  PROVE  /\ Sync(t) => /\ At(t, "sync") /\ CanTake(t, Parent)
                       /\ \/ Replaces(t, {}) /\ (Stopping \/ ist # "running" \/ Syncing)
                          \/ Replaces(t, {Holding("recon", Parent)})
         /\ Reconcile(t) => /\ At(t, "recon")
                            /\ \/ Replaces(t, {}) /\ (Stopping \/ ist # "running")
                               \/ Replaces(t, {PassFrame})
         /\ LeaveInvocation(t) =>
               At(t, "leave") /\ \E i \in Top(t).gone \cap InvId : Leaves(t, i)
         /\ Resolve(t) => /\ At(t, "leave") /\ Top(t).gone = {}
                          /\ Replaces(t, {ResolvedFrame(t)})
                          /\ ResolvedFrame(t).op = "enter"
                          /\ ResolvedFrame(t).ids = {i \in Top(t).ids : invoked[i] = None}
                          /\ ResolvedFrame(t).changed = Top(t).changed
         /\ EnterInvocation(t) =>
               At(t, "enter") /\ \E i \in Top(t).ids \cap InvId, c \in Fresh : Enters(t, i, c)
         /\ EndPass(t) => /\ At(t, "enter") /\ Top(t).ids = {}
                          /\ \/ Replaces(t, {}) /\ ~Top(t).changed
                             \/ Replaces(t, {Holding("recon", Parent)})
         /\ PassFrame.op = "leave" /\ PassFrame.ids = conf
         /\ PassFrame.gone = {i \in InvId : invoked[i] # None} \ conf
         /\ Holding("recon", Parent).op = "recon"
<1>0. Holding("recon", Parent) \in Call /\ Holding("recon", Parent).op = "recon"
  BY Calling DEF Labels, Parent
<1>1. /\ PassFrame \in Call /\ PassFrame.op = "leave" /\ PassFrame.ids = conf
      /\ PassFrame.gone = {i \in InvId : invoked[i] # None} \ conf
  <2> DEFINE gone == {i \in InvId : invoked[i] # None} \ conf
             hold == Holding("leave", Parent)
  <2>1. gone \subseteq InvId /\ conf \subseteq InvId
    BY DEF Data
  <2>2. hold \in Call /\ hold.op = "leave"
    BY Calling DEF Labels, Parent
  <2> HIDE DEF gone, hold
  <2>3. /\ [hold EXCEPT !.ids = conf, !.gone = gone] \in Call
        /\ [hold EXCEPT !.ids = conf, !.gone = gone].op = "leave"
        /\ [hold EXCEPT !.ids = conf, !.gone = gone].ids = conf
        /\ [hold EXCEPT !.ids = conf, !.gone = gone].gone = gone
    BY <2>1, <2>2 DEF Call
  <2> QED
    BY <2>3 DEF PassFrame, gone, hold
<1>t. \A op \in {"leave", "enter"} : At(t, op) =>
         /\ stack[t] # <<>> /\ Top(t).op = op /\ Top(t) \in Call
         /\ Top(t).ids \subseteq InvId /\ Top(t).gone \subseteq InvId
  BY TopFormed DEF Formed, Call
<1>2. Sync(t) => /\ At(t, "sync") /\ CanTake(t, Parent)
                 /\ \/ Replaces(t, {}) /\ (Stopping \/ ist # "running" \/ Syncing)
                    \/ Replaces(t, {Holding("recon", Parent)})
  BY <1>0, TopFormed, BecomesReplaces DEF Sync
<1>3. Reconcile(t) => /\ At(t, "recon")
                      /\ \/ Replaces(t, {}) /\ (Stopping \/ ist # "running")
                         \/ Replaces(t, {PassFrame})
  <2>1. Reconcile(t) => \/ Becomes(t, <<>>) /\ (Stopping \/ ist # "running")
                        \/ Becomes(t, <<PassFrame>>)
    BY DEF Reconcile, PassFrame
  <2>2. Reconcile(t) => At(t, "recon") /\ stack[t] # <<>>
    BY TopFormed DEF Reconcile
  <2> QED
    BY <1>1, <2>1, <2>2, BecomesReplaces
<1>4. ASSUME LeaveInvocation(t)
      PROVE  /\ At(t, "leave")
             /\ \E i \in Top(t).gone \cap InvId : Leaves(t, i)
  <2>1. At(t, "leave")
    BY <1>4 DEF LeaveInvocation
  <2>2. PICK i \in Top(t).gone :
           /\ invoked[i] # None
           /\ invoked' = [invoked EXCEPT ![i] = None]
           /\ children' = [children EXCEPT ![i] = None]
           /\ Becomes(t, <<LeftFrame(t, i), Frame("cstop", invoked[i])>>)
    BY <1>4 DEF LeaveInvocation, LeftFrame
  <2>3. /\ LeftFrame(t, i) \in Call
        /\ LeftFrame(t, i).op = "leave" /\ LeftFrame(t, i).changed
    BY <2>1, <1>t DEF LeftFrame, Call
  <2>4. Frame("cstop", invoked[i]) \in Call /\ Frame("cstop", invoked[i]).op = "cstop"
        /\ Frame("cstop", invoked[i]).arg = invoked[i]
    <3>1. i \in InvId /\ "cstop" \in Labels
      BY <2>1, <2>2, <1>t DEF Labels
    <3>2. invoked[i] \in Child
      BY <3>1, <2>2 DEF Data
    <3> QED
      BY <3>1, <3>2, Calling
  <2>5. Replaces(t, {LeftFrame(t, i), Frame("cstop", invoked[i])})
    BY <2>1, <2>2, <2>3, <2>4, <1>t, BecomesReplaces
  <2> QED
    BY <2>1, <2>2, <2>3, <2>4, <2>5, <1>t DEF Leaves
<1>5. ASSUME Resolve(t)
      PROVE  /\ At(t, "leave") /\ Top(t).gone = {}
             /\ Replaces(t, {ResolvedFrame(t)})
             /\ ResolvedFrame(t).op = "enter"
             /\ ResolvedFrame(t).ids = {i \in Top(t).ids : invoked[i] = None}
             /\ ResolvedFrame(t).changed = Top(t).changed
  <2>1. At(t, "leave") /\ Top(t).gone = {} /\ Becomes(t, <<ResolvedFrame(t)>>)
    BY <1>5 DEF Resolve, ResolvedFrame
  <2>2. ResolvedFrame(t) \in Call /\ ResolvedFrame(t).op = "enter"
        /\ ResolvedFrame(t).ids = {i \in Top(t).ids : invoked[i] = None}
        /\ ResolvedFrame(t).changed = Top(t).changed
    BY <2>1, <1>t DEF ResolvedFrame, Call, Labels
  <2> QED
    BY <2>1, <2>2, <1>t, BecomesReplaces
<1>6. ASSUME EnterInvocation(t)
      PROVE  /\ At(t, "enter")
             /\ \E i \in Top(t).ids \cap InvId, c \in Fresh : Enters(t, i, c)
  <2>1. At(t, "enter")
    BY <1>6 DEF EnterInvocation
  <2>2. PICK i \in Top(t).ids, c \in Fresh :
           /\ Registered(i) = {} /\ Create(c, i)
           /\ invoked' = [invoked EXCEPT ![i] = c]
           /\ listening' = [listening EXCEPT ![c] = TRUE]
           /\ Becomes(t, <<EnteredFrame(t, i), Frame("cstart", c)>>)
    BY <1>6 DEF EnterInvocation, EnteredFrame
  <2>3. /\ EnteredFrame(t, i) \in Call
        /\ EnteredFrame(t, i).op = "enter" /\ EnteredFrame(t, i).changed
    BY <2>1, <1>t DEF EnteredFrame, Call
  <2>4. Frame("cstart", c) \in Call /\ Frame("cstart", c).op = "cstart"
        /\ Frame("cstart", c).arg = c
    <3>1. c \in Child /\ "cstart" \in Labels
      BY DEF Labels, Fresh
    <3> QED
      BY <3>1, Calling
  <2>5. Replaces(t, {EnteredFrame(t, i), Frame("cstart", c)})
    BY <2>1, <2>2, <2>3, <2>4, <1>t, BecomesReplaces
  <2> QED
    BY <2>1, <2>2, <2>3, <2>4, <2>5, <1>t DEF Enters
<1>7. EndPass(t) => /\ At(t, "enter") /\ Top(t).ids = {}
                    /\ \/ Replaces(t, {}) /\ ~Top(t).changed
                       \/ Replaces(t, {Holding("recon", Parent)})
  BY <1>0, TopFormed, BecomesReplaces DEF EndPass
<1> QED
  BY <1>0, <1>1, <1>2, <1>3, <1>4, <1>5, <1>6, <1>7

LEMMA Following ==
  ASSUME Frames, Data, Tables, NEW t \in Thread, Work(t)
  PROVE  \E new \in SUBSET Call :
            Replaces(t, new) /\ \A f \in new : <<Top(t).op, f.op>> \in Follows
<1>0. \A op \in Labels, arg \in Child \cup {None} :
         Frame(op, arg).op = op /\ Holding(op, arg).op = op
  BY Calling
<1>1. \A op \in Labels : At(t, op) => Top(t).op = op /\ Top(t).arg \in Child \cup {None}
  BY TopFormed
<1>2. /\ Frame("drain", None).op = "drain" /\ Frame("act", None).op = "act"
      /\ Frame("sync", None).op = "sync" /\ Holding("subscribe", Parent).op = "subscribe"
      /\ Holding("return", Parent).op = "return" /\ Holding("recon", Parent).op = "recon"
  BY <1>0 DEF Labels, Parent
<1>r. ASSUME Replaces(t, {})
      PROVE  \E new \in SUBSET Call :
                Replaces(t, new) /\ \A f \in new : <<Top(t).op, f.op>> \in Follows
  BY <1>r
<1>s. ASSUME NEW f, Replaces(t, {f}), <<Top(t).op, f.op>> \in Follows
      PROVE  \E new \in SUBSET Call :
                Replaces(t, new) /\ \A g \in new : <<Top(t).op, g.op>> \in Follows
  <2>1. {f} \in SUBSET Call
    BY <1>s DEF Replaces
  <2> QED
    BY <1>s, <2>1
<1>p. ASSUME NEW f, NEW g, Replaces(t, {f, g}), <<Top(t).op, f.op>> \in Follows,
             <<Top(t).op, g.op>> \in Follows
      PROVE  \E new \in SUBSET Call :
                Replaces(t, new) /\ \A h \in new : <<Top(t).op, h.op>> \in Follows
  <2>1. {f, g} \in SUBSET Call
    BY <1>p DEF Replaces
  <2> QED
    BY <1>p, <2>1
<1>3. CASE Send(t) \/ InterpreterSend(t) \/ Drain(t)
  <2>1. Send(t) => At(t, "send") /\ (Replaces(t, {}) \/ Replaces(t, {Frame("isend", Top(t).arg)}))
    BY Effects
  <2>2. InterpreterSend(t) => At(t, "isend") /\ (Replaces(t, {}) \/ Replaces(t, {Frame("drain", None)}))
    BY Effects
  <2>3. Drain(t) => At(t, "drain") /\ (Replaces(t, {}) \/ Replaces(t, {Frame("act", None)}))
    BY Effects
  <2>4. At(t, "send") => Frame("isend", Top(t).arg).op = "isend"
    BY <1>0, <1>1 DEF Labels
  <2> QED
    BY <1>1, <1>2, <1>3, <1>r, <1>s, <2>1, <2>2, <2>3, <2>4 DEF Labels, Follows
<1>4. CASE Notify(t) \/ Start(t) \/ Subscribe(t) \/ Return(t)
  <2>1. Notify(t) => At(t, "act") /\ (\/ Replaces(t, {Frame("drain", None)})
                                      \/ Replaces(t, {Frame("drain", None), Frame("sync", None)}))
    BY Effects
  <2>2. Start(t) => At(t, "start") /\ (\/ Replaces(t, {})
                                       \/ Replaces(t, {Holding("subscribe", Parent)})
                                       \/ Replaces(t, {Holding("subscribe", Parent), Frame("act", None)}))
    BY Effects
  <2>3. Subscribe(t) => At(t, "subscribe") /\ (\/ Replaces(t, {Holding("return", Parent)})
                                               \/ Replaces(t, {Holding("return", Parent), Frame("sync", None)}))
    BY Effects
  <2>4. Return(t) => Replaces(t, {})
    BY Effects
  <2> QED
    BY <1>1, <1>2, <1>4, <1>r, <1>s, <1>p, <2>1, <2>2, <2>3, <2>4 DEF Labels, Follows
<1>5. CASE ChildStart(t) \/ ChildStarted(t) \/ ChildNotify(t)
  <2>1. ChildStart(t) => At(t, "cstart") /\ (Replaces(t, {}) \/ Replaces(t, {Holding("run", Top(t).arg)}))
    BY ChildEffects
  <2>2. ChildStarted(t) => At(t, "run") /\ Replaces(t, {Holding("return", Top(t).arg),
                                                        Frame("cnotify", Top(t).arg)})
    BY ChildEffects
  <2>3. ChildNotify(t) => At(t, "cnotify") /\ (Replaces(t, {}) \/ Replaces(t, {Frame("send", Top(t).arg)}))
    BY ChildEffects
  <2>4. Top(t).arg \in Child \cup {None} =>
           /\ Holding("run", Top(t).arg).op = "run" /\ Holding("return", Top(t).arg).op = "return"
           /\ Frame("cnotify", Top(t).arg).op = "cnotify" /\ Frame("send", Top(t).arg).op = "send"
    BY <1>0 DEF Labels
  <2> QED
    BY <1>1, <1>5, <1>r, <1>s, <1>p, <2>1, <2>2, <2>3, <2>4 DEF Labels, Follows
<1>6. CASE ChildStop(t) \/ ChildStopped(t) \/ Unlink(t)
  <2>1. ChildStop(t) => At(t, "cstop") /\ (Replaces(t, {}) \/ Replaces(t, {Holding("cleanup", Top(t).arg)}))
    BY ChildEffects
  <2>2. ChildStopped(t) => At(t, "cleanup") /\ Replaces(t, {Frame("unlink", Top(t).arg)})
    BY ChildEffects
  <2>3. Unlink(t) => Replaces(t, {})
    BY ChildEffects
  <2>4. Top(t).arg \in Child \cup {None} =>
           Holding("cleanup", Top(t).arg).op = "cleanup" /\ Frame("unlink", Top(t).arg).op = "unlink"
    BY <1>0 DEF Labels
  <2> QED
    BY <1>1, <1>6, <1>r, <1>s, <2>1, <2>2, <2>3, <2>4 DEF Labels, Follows
<1>7. CASE Stop(t) \/ StopChild(t) \/ StopSelf(t)
  <2>1. Stop(t) => At(t, "stop") /\ (Replaces(t, {}) \/ Replaces(t, {KidsFrame}))
    BY StopEffects
  <2>2. StopSelf(t) => Replaces(t, {})
    BY StopEffects
  <2>3. StopChild(t) => At(t, "stopkids") /\ \E c \in Top(t).ids :
           /\ Replaces(t, {LessFrame(t, c), Frame("cstop", c)})
           /\ LessFrame(t, c).op = "stopkids" /\ Frame("cstop", c).op = "cstop"
    BY StopEffects
  <2>4. KidsFrame.op = "stopkids"
    BY StopEffects
  <2> QED
    BY <1>1, <1>7, <1>r, <1>s, <1>p, <2>1, <2>2, <2>3, <2>4 DEF Labels, Follows
<1>8. CASE Sync(t) \/ Reconcile(t) \/ Resolve(t) \/ EndPass(t)
  <2>1. Sync(t) => At(t, "sync") /\ (Replaces(t, {}) \/ Replaces(t, {Holding("recon", Parent)}))
    BY PassEffects
  <2>2. Reconcile(t) => At(t, "recon") /\ (Replaces(t, {}) \/ Replaces(t, {PassFrame}))
    BY PassEffects
  <2>3. Resolve(t) => At(t, "leave") /\ Replaces(t, {ResolvedFrame(t)}) /\ ResolvedFrame(t).op = "enter"
    BY PassEffects
  <2>4. EndPass(t) => At(t, "enter") /\ (Replaces(t, {}) \/ Replaces(t, {Holding("recon", Parent)}))
    BY PassEffects
  <2>5. PassFrame.op = "leave"
    BY PassEffects
  <2> QED
    BY <1>1, <1>2, <1>8, <1>r, <1>s, <2>1, <2>2, <2>3, <2>4, <2>5 DEF Labels, Follows
<1>9. CASE LeaveInvocation(t) \/ EnterInvocation(t)
  <2>1. LeaveInvocation(t) => At(t, "leave") /\ \E i \in Top(t).gone \cap InvId : Leaves(t, i)
    BY PassEffects
  <2>2. EnterInvocation(t) => At(t, "enter")
                              /\ \E i \in Top(t).ids \cap InvId, c \in Fresh : Enters(t, i, c)
    BY PassEffects
  <2>3. CASE LeaveInvocation(t)
    <3>1. PICK i \in Top(t).gone \cap InvId : Leaves(t, i)
      BY <2>1, <2>3
    <3> QED
      BY <1>1, <1>p, <2>1, <2>3, <3>1 DEF Labels, Follows, Leaves
  <2>4. CASE EnterInvocation(t)
    <3>1. PICK i \in Top(t).ids \cap InvId, c \in Fresh : Enters(t, i, c)
      BY <2>2, <2>4
    <3> QED
      BY <1>1, <1>p, <2>2, <2>4, <3>1 DEF Labels, Follows, Enters
  <2> QED
    BY <1>9, <2>3, <2>4
<1> QED
  BY <1>3, <1>4, <1>5, <1>6, <1>7, <1>8, <1>9 DEF Work

LEMMA LiveWork ==
  ASSUME Frames, Data, Tables, NEW t \in Thread, Work(t), NEW op
  PROVE  /\ Live(op) \ {Top(t)} \subseteq Live(op)'
         /\ Top(t).op # op => Live(op) \subseteq Live(op)'
         /\ <<Top(t).op, op>> \notin Follows => Live(op)' \subseteq Live(op)
<1>1. PICK new \in SUBSET Call :
         Replaces(t, new) /\ \A f \in new : <<Top(t).op, f.op>> \in Follows
  BY Following
<1>2. /\ Live(op)' \subseteq Live(op) \cup {f \in new : f.op = op}
      /\ (Live(op) \ {Top(t)}) \cup {f \in new : f.op = op} \subseteq Live(op)'
  BY <1>1, LiveChanges DEF Replaces
<1>3. Top(t).op # op => Top(t) \notin Live(op)
  BY DEF Live
<1> QED
  BY <1>1, <1>2, <1>3

\* What user code calls.
UserOps == {"send", "isend", "start", "stop", "cstart", "cstop", "cnotify"}
UserCalls(t) == CallSend(t) \/ CallStart(t) \/ CallStop(t) \/ CallChild(t) \/ ChildChanges(t)

LEMMA LiveCall ==
  ASSUME Frames, NEW t \in Thread, UserCalls(t)
  PROVE  \E op \in UserOps, arg \in Created \cup {None} :
            /\ Frame(op, arg) \in Call /\ Frame(op, arg).op = op /\ Frame(op, arg).arg = arg
            /\ Changes(t, {}, {Frame(op, arg)})
            /\ op \in {"cstart", "cstop"} => id[arg] \in SpawnId /\ arg \in Created
            /\ op \in {"send", "isend"} => arg = None
            /\ op = "cnotify" => arg \in Created
<1>1. ASSUME NEW op \in UserOps, NEW arg \in Created \cup {None}, Pushes(t, Frame(op, arg))
      PROVE  /\ Frame(op, arg) \in Call /\ Frame(op, arg).op = op /\ Frame(op, arg).arg = arg
             /\ Changes(t, {}, {Frame(op, arg)})
  <2>1. op \in Labels /\ arg \in Child \cup {None}
    BY DEF UserOps, Labels, Created
  <2>2. Frame(op, arg) \in Call /\ Frame(op, arg).op = op /\ Frame(op, arg).arg = arg
    BY <2>1, Calling
  <2> QED
    BY <1>1, <2>2, PushesChanges DEF Frames
<1>2. Created \subseteq Child /\ None \notin Created
  BY ActorsAssumption DEF Created
<1>3. CASE CallSend(t)
  <2>1. Pushes(t, Frame("send", None)) \/ Pushes(t, Frame("isend", None))
    BY <1>3 DEF CallSend
  <2> QED
    BY <1>1, <2>1 DEF UserOps
<1>4. CASE CallStart(t) \/ CallStop(t)
  <2>1. Pushes(t, Frame("start", None)) \/ Pushes(t, Frame("stop", None))
    BY <1>4 DEF CallStart, CallStop
  <2> QED
    BY <1>1, <2>1 DEF UserOps
<1>5. CASE CallChild(t)
  <2>1. PICK c \in Created, op \in {"cstart", "cstop"} : id[c] \in SpawnId /\ Pushes(t, Frame(op, c))
    BY <1>5 DEF CallChild
  <2> QED
    BY <1>1, <2>1 DEF UserOps
<1>6. CASE ChildChanges(t)
  <2>1. PICK c \in Created : Pushes(t, Frame("cnotify", c))
    BY <1>6 DEF ChildChanges
  <2> QED
    BY <1>1, <1>6, <2>1 DEF UserOps
<1> QED
  BY <1>3, <1>4, <1>5, <1>6 DEF UserCalls

LEMMA LiveRaise ==
  ASSUME Frames, NEW t \in Thread, Raise(t), NEW op
  PROVE  /\ Live(op)' \subseteq Live(op)
         /\ op \in Passing => Live(op) \subseteq Live(op)'
         /\ op = "stopkids" => Live(op) \subseteq Live(op)'
         /\ op = "cleanup" => \A f \in Live(op) : f \in Live(op)' \/ f.arg \in cut'
         /\ Calls(t)' = {} /\ \A u \in Thread \ {t} : Calls(u)' = Calls(u)
<1>1. /\ Changes(t, Calls(t), {}) /\ Calls(t)' = {}
  BY RaiseChanges DEF Raise, Frames
<1>2. /\ Live(op)' \subseteq Live(op) /\ Live(op) \ Calls(t) \subseteq Live(op)'
  <2>1. /\ Live(op)' \subseteq Live(op) \cup {f \in {} : f.op = op}
        /\ (Live(op) \ Calls(t)) \cup {f \in {} : f.op = op} \subseteq Live(op)'
    BY <1>1, LiveChanges
  <2> QED
    BY <2>1
<1>3. PICK o \in {"act", "run", "leave", "enter"} : At(t, o)
  BY DEF Raise
<1>4. stack[t] # <<>> /\ Top(t).op = o
  BY <1>3, TopFormed
<1>5. ASSUME NEW f \in Calls(t)
      PROVE  f.op \in Resting /\ f.op # "stopkids"
  <2>1. PICK k \in DOMAIN stack[t] : f = stack[t][k]
    BY DEF Calls
  <2>2. CASE k = Len(stack[t])
    BY <1>4, <2>1, <2>2 DEF Top, Resting
  <2>3. CASE k # Len(stack[t])
    <3>1. k \in 1..Len(stack[t]) - 1
      BY <1>4, <2>3, OnTop DEF Frames
    <3>2. f.op \in Resting
      BY <2>1, <2>3 DEF Frames, Order
    <3>3. f.op = "stopkids" => Top(t).op \in Winding
      BY <1>4, <2>1, <3>1, TopUndisturbed
    <3> QED
      BY <3>2, <3>3, <1>4 DEF Winding
  <2> QED
    BY <2>2, <2>3
<1>6. \A f \in Live(op) : f \in Calls(t) => f.op = op
  BY DEF Live
<1>7. op = "cleanup" => \A f \in Live(op) : f \in Calls(t) => f.arg \in cut'
  BY <1>6 DEF Raise
<1> QED
  BY <1>1, <1>2, <1>5, <1>6, <1>7 DEF Passing, Changes

\* A thread with the parent's lock, or that can have it, finds the parent not
\* stopping, unless it is about to stop one of its children.
LEMMA ParentAwake ==
  ASSUME Sound, NEW t \in Thread, Holds(t, Parent) \/ CanTake(t, Parent),
         stack[t] # <<>> => Top(t).op \notin Winding /\ Top(t).op # "stopkids"
  PROVE  ~Stopping
<1> SUFFICES ASSUME Stopping
             PROVE  FALSE
  OBVIOUS
<1>0. PICK u \in Thread : \E k \in DOMAIN stack[u] : stack[u][k].op = "stopkids"
  BY DEF Stopping, Live, Calls
<1>1. PICK k \in DOMAIN stack[u] : stack[u][k].op = "stopkids"
  BY <1>0
<1>2. stack[u][k].lock = Parent
  BY <1>1 DEF Sound, Frames, Formation, Formed
<1>3. Holds(u, Parent)
  BY <1>1, <1>2 DEF Holds, Calls
<1>4. u = t
  BY <1>3 DEF Sound, Exclusive, CanTake
<1>5. stack[t] # <<>>
  BY <1>1, <1>4
<1>6. CASE k = Len(stack[t])
  BY <1>1, <1>4, <1>5, <1>6 DEF Top
<1>7. CASE k # Len(stack[t])
  <2>1. k \in 1..Len(stack[t]) - 1
    BY <1>1, <1>4, <1>5, <1>7, OnTop DEF Sound, Frames
  <2> QED
    BY <1>1, <1>4, <1>5, <2>1, TopUndisturbed DEF Sound
<1> QED
  BY <1>6, <1>7

\* A child that is down stays down.
LEMMA DownStable ==
  ASSUME Sound, NEW t \in Thread, Work(t) \/ User(t), NEW c \in Created, Down(c)
  PROVE  Down(c)'
<1> USE DEF Sound
<1>0. c \in Child
  BY DEF Created
<1>1. CASE cst' = cst /\ cut' = cut /\ Live("cstop") \subseteq Live("cstop")'
           /\ Live("cleanup") \subseteq Live("cleanup")'
  BY <1>1 DEF Down, InStop
<1>2. CASE UserCalls(t)
  <2>1. Live("cstop") \subseteq Live("cstop")' /\ Live("cleanup") \subseteq Live("cleanup")'
    <3>1. PICK f : Changes(t, {}, {f})
      BY <1>2, LiveCall
    <3>2. \A op : Live(op) \subseteq Live(op)'
      BY <3>1, LiveChanges
    <3> QED
      BY <3>2
  <2>2. cst' = cst /\ cut' = cut
    BY <1>2 DEF UserCalls, CallSend, CallStart, CallStop, CallChild, ChildChanges, child, counts
  <2> QED
    BY <2>1, <2>2, <1>1
<1>3. CASE Spawn(t)
  <2>1. PICK i \in SpawnId, d \in Fresh : Create(d, i)
    BY <1>3 DEF Spawn
  <2>3. cst'[c] = cst[c]
    <3>1. i \in Id /\ d # c
      BY DEF Id, Fresh
    <3> QED
      BY <1>0, <2>1, <3>1, Creation
  <2>2. cut' = cut /\ Live("cstop")' = Live("cstop") /\ Live("cleanup")' = Live("cleanup")
    BY <1>3 DEF Spawn, counts, Live, Calls
  <2> QED
    BY <2>2, <2>3 DEF Down, InStop
<1>4. CASE Raise(t)
  <2>1. Live("cstop") \subseteq Live("cstop")'
    BY <1>4, LiveRaise DEF Passing, Labels, Resting
  <2>2. \A f \in Live("cleanup") : f \in Live("cleanup")' \/ f.arg \in cut'
    BY <1>4, LiveRaise
  <2>3. cst' = cst /\ cut \subseteq cut'
    BY <1>4 DEF Raise, child
  <2> QED
    BY <2>1, <2>2, <2>3 DEF Down, InStop
<1>5. CASE ChildStop(t)
  <2>1. cst' = cst /\ cut' = cut /\ At(t, "cstop") /\ Top(t).op = "cstop"
        /\ Top(t).arg \in Child
    BY <1>5, TopChild, TopFormed DEF ChildStop, child, counts, OnChild
  <2>2. Live("cstop") \ {Top(t)} \subseteq Live("cstop")' /\ Live("cleanup") \subseteq Live("cleanup")'
    BY <1>5, <2>1, LiveWork DEF Work
  <2>3. CASE c # Top(t).arg
    BY <2>1, <2>2, <2>3 DEF Down, InStop
  <2>4. CASE c = Top(t).arg
    <3>1. CASE ChildStopping(c) \/ cst[c] = "stopped"
      BY <2>1, <2>2, <3>1 DEF Down, InStop, ChildStopping
    <3>2. CASE Replaces(t, {Holding("cleanup", c)})
      <4>1. Holding("cleanup", c).op = "cleanup" /\ Holding("cleanup", c).arg = c
        BY <1>0, Calling DEF Labels
      <4>2. Holding("cleanup", c) \in Live("cleanup")'
        BY <3>2, <4>1, LiveChanges DEF Replaces
      <4> QED
        BY <4>1, <4>2 DEF Down, InStop
    <3> QED
      BY <1>5, <2>4, <3>1, <3>2, ChildEffects
  <2> QED
    BY <2>3, <2>4
<1>6. CASE ChildStopped(t)
  <2>1. cst' = [cst EXCEPT ![Top(t).arg] = "stopped"] /\ cut' = cut
        /\ At(t, "cleanup") /\ Top(t).op = "cleanup"
    BY <1>6, TopFormed DEF ChildStopped, counts
  <2>2. Live("cstop") \subseteq Live("cstop")' /\ Live("cleanup") \ {Top(t)} \subseteq Live("cleanup")'
    BY <1>6, <2>1, LiveWork DEF Work
  <2>3. cst'[c] = "stopped" \/ (cst'[c] = cst[c] /\ c # Top(t).arg)
    BY <1>0, <2>1 DEF Data
  <2> QED
    BY <2>1, <2>2, <2>3 DEF Down, InStop
<1>7. CASE ChildStart(t) \/ EnterInvocation(t)
  <2>1. cut' = cut
    BY <1>7 DEF ChildStart, EnterInvocation, counts
  <2>2. PICK op \in {"cstart", "enter"} : Top(t).op = op
    BY <1>7, TopFormed DEF ChildStart, EnterInvocation
  <2>3. Live("cstop") \subseteq Live("cstop")' /\ Live("cleanup") \subseteq Live("cleanup")'
    BY <1>7, <2>2, LiveWork DEF Work
  <2>4. cst[c] = "stopped" => cst'[c] = "stopped"
    <3>1. CASE ChildStart(t)
      <4>1. cst' = cst \/ (cst[Top(t).arg] = "not_started" /\ cst' = [cst EXCEPT ![Top(t).arg] = "running"])
        BY <3>1, ChildEffects
      <4> QED
        BY <1>0, <4>1 DEF Data
    <3>2. CASE EnterInvocation(t)
      <4>1. PICK i \in InvId, d \in Fresh : Enters(t, i, d)
        BY <3>2, PassEffects
      <4>2. i \in Id /\ Create(d, i) /\ d # c
        BY <4>1 DEF Enters, Id, Fresh
      <4> QED
        BY <1>0, <4>2, Creation
    <3> QED
      BY <1>7, <3>1, <3>2
  <2> QED
    BY <2>1, <2>3, <2>4 DEF Down, InStop
<1>8. ASSUME Work(t), ~ChildStop(t), ~ChildStopped(t), ~ChildStart(t), ~EnterInvocation(t)
      PROVE  Down(c)'
  <2>1. cst' = cst /\ cut' = cut
    BY <1>8 DEF Work, child, counts, Send, InterpreterSend, Drain, Notify, Start, Subscribe, Return,
           Stop, StopChild, StopSelf, ChildStarted, ChildNotify, Unlink, Sync, Reconcile,
           LeaveInvocation, Resolve, EndPass
  <2>2. Top(t).op \notin {"cstop", "cleanup"}
    <3>1. \A op \in Labels : At(t, op) => Top(t).op = op
      BY DEF At
    <3> QED
      BY <1>8, <3>1 DEF Work, Labels, Send, InterpreterSend, Drain, Notify, Start, Subscribe, Return,
           Stop, StopChild, StopSelf, ChildStarted, ChildNotify, Unlink, Sync, Reconcile,
           LeaveInvocation, Resolve, EndPass
  <2>3. Live("cstop") \subseteq Live("cstop")' /\ Live("cleanup") \subseteq Live("cleanup")'
    BY <1>8, <2>2, LiveWork
  <2> QED
    BY <2>1, <2>3, <1>1
<1> QED
  BY <1>2, <1>3, <1>4, <1>5, <1>6, <1>7, <1>8 DEF User, UserCalls

LEMMA OutStable ==
  ASSUME Sound, NEW t \in Thread, Work(t) \/ User(t), NEW c \in Created, Out(c)
  PROVE  Out(c)'
<1>1. lost \subseteq lost'
  BY DEF Work, User, Send, InterpreterSend, Drain, Notify, Start, Subscribe, Return, Stop, StopChild,
         StopSelf, ChildStart, ChildStarted, ChildNotify, ChildStop, ChildStopped, Unlink, Sync,
         Reconcile, LeaveInvocation, Resolve, EnterInvocation, EndPass, CallSend, CallStart,
         CallStop, CallChild, ChildChanges, Spawn, Raise, counts
<1> QED
  BY <1>1, DownStable DEF Out

-----------------------------------------------------------------------------
(* Every action keeps Tree *)

LEMMA CleanedOnceMove ==
  ASSUME Stacks, CleanedOnce, NEW t \in Thread, NEW n, NEW new, Moves(t, n, new),
         \A i \in 1..Len(new) :
            new[i].op = "cleanup" => Len(new) = 1 /\ ~ChildStopping(new[i].arg)
  PROVE  CleanedOnce'
<1>1. /\ n \in Nat /\ Len(new) \in Nat
      /\ \A k \in DOMAIN stack'[t] :
            \/ k \in 1..n /\ k \in DOMAIN stack[t] /\ stack'[t][k] = stack[t][k]
            \/ \E i \in 1..Len(new) : k = n + i /\ stack'[t][k] = new[i]
  BY Positions
<1>2. \A u \in Thread \ {t} : stack'[u] = stack[u]
  BY DEF Moves
<1>3. \A k \in DOMAIN stack[t] :
         stack[t][k].op = "cleanup" => ChildStopping(stack[t][k].arg)
  BY DEF ChildStopping, Live, Calls
<1> SUFFICES ASSUME NEW u \in Thread, NEW k \in DOMAIN stack'[u], NEW j \in DOMAIN stack'[u],
                    stack'[u][k].op = "cleanup", stack'[u][j].op = "cleanup",
                    stack'[u][k].arg = stack'[u][j].arg
             PROVE  k = j
  BY DEF CleanedOnce
<1>4. CASE u # t
  BY <1>2, <1>4 DEF CleanedOnce
<1>5. CASE u = t
  <2>1. \A h \in {k, j} :
           \/ h \in DOMAIN stack[t] /\ stack'[t][h] = stack[t][h]
           \/ h = n + 1 /\ ~ChildStopping(stack'[t][h].arg)
    <3> SUFFICES ASSUME NEW h \in {k, j}, \E i \in 1..Len(new) : h = n + i /\ stack'[t][h] = new[i]
                 PROVE  h = n + 1 /\ ~ChildStopping(stack'[t][h].arg)
      BY <1>1, <1>5
    <3>1. PICK i \in 1..Len(new) : h = n + i /\ stack'[t][h] = new[i]
      OBVIOUS
    <3>2. new[i].op = "cleanup"
      BY <3>1, <1>5
    <3>3. Len(new) = 1
      BY <3>2
    <3>4. i = 1
      BY <3>3
    <3> QED
      BY <3>1, <3>2, <3>4
  <2> QED
    BY <1>3, <1>5, <2>1 DEF CleanedOnce
<1> QED
  BY <1>4, <1>5

LEMMA CleanedOnceStep ==
  ASSUME Sound, CleanedOnce, NEW t \in Thread, Work(t) \/ User(t)
  PROVE  CleanedOnce'
<1> USE DEF Sound
<1>0. Stacks
  BY DEF Frames
<1>1. ASSUME ChildStop(t)
      PROVE  CleanedOnce'
  <2>1. At(t, "cstop") /\ stack[t] # <<>> /\ Top(t).arg \in Child
    BY <1>1, TopFormed, TopChild DEF ChildStop, OnChild
  <2> DEFINE f == Holding("cleanup", Top(t).arg)
  <2>2. f \in Call /\ f.op = "cleanup" /\ f.arg = Top(t).arg
    BY <2>1, Calling DEF Labels
  <2>3. \/ Becomes(t, <<>>)
        \/ Becomes(t, <<f>>) /\ ~ChildStopping(f.arg)
    BY <1>1, <2>2 DEF ChildStop
  <2> HIDE DEF f
  <2>4. /\ <<>> \in Seq(Call) /\ Len(<<>>) = 0
        /\ <<f>> \in Seq(Call) /\ Len(<<f>>) = 1 /\ <<f>>[1] = f
    BY <2>2
  <2>5. CASE Becomes(t, <<>>)
    <3>1. Moves(t, Len(stack[t]) - 1, <<>>)
      BY <1>0, <2>1, <2>4, <2>5, BecomesMoves
    <3> QED
      BY <1>0, <2>4, <3>1, CleanedOnceMove
  <2>6. CASE Becomes(t, <<f>>) /\ ~ChildStopping(f.arg)
    <3>1. Moves(t, Len(stack[t]) - 1, <<f>>)
      BY <1>0, <2>1, <2>4, <2>6, BecomesMoves
    <3>2. \A i \in 1..Len(<<f>>) : Len(<<f>>) = 1 /\ ~ChildStopping(<<f>>[i].arg)
      BY <2>4, <2>6
    <3> QED
      BY <1>0, <3>1, <3>2, CleanedOnceMove
  <2> QED
    BY <2>3, <2>5, <2>6
<1>2. ASSUME Work(t), ~ChildStop(t)
      PROVE  CleanedOnce'
  <2>1. Top(t).op # "cstop"
    <3>1. \A op \in Labels : At(t, op) => Top(t).op = op
      BY DEF At
    <3> QED
      BY <1>2, <3>1 DEF Work, Labels, Send, InterpreterSend, Drain, Notify, Start, Subscribe, Return,
           Stop, StopChild, StopSelf, ChildStart, ChildStarted, ChildNotify, ChildStopped, Unlink,
           Sync, Reconcile, LeaveInvocation, Resolve, EnterInvocation, EndPass
  <2>2. PICK new \in SUBSET Call :
           Replaces(t, new) /\ \A f \in new : <<Top(t).op, f.op>> \in Follows
    BY <1>2, Following
  <2>3. \A f \in new : f.op # "cleanup"
    BY <2>1, <2>2 DEF Follows
  <2>4. PICK seq \in Seq(Call) :
           Moves(t, Len(stack[t]) - 1, seq) /\ \A i \in 1..Len(seq) : seq[i] \in new
    BY <2>2 DEF Replaces
  <2> QED
    BY <1>0, <2>3, <2>4, CleanedOnceMove
<1>3. ASSUME NEW f \in Call, Pushes(t, f), f.op # "cleanup"
      PROVE  CleanedOnce'
  <2>1. Moves(t, Len(stack[t]), <<f>>)
    BY <1>0, <1>3, PushesMoves
  <2>2. \A i \in 1..Len(<<f>>) : <<f>>[i].op # "cleanup"
    BY <1>3
  <2> QED
    BY <1>0, <2>1, <2>2, CleanedOnceMove
<1>4. CASE UserCalls(t)
  <2>1. \E op \in UserOps, arg \in Created \cup {None} : Pushes(t, Frame(op, arg))
    BY <1>4 DEF UserCalls, UserOps, CallSend, CallStart, CallStop, CallChild, ChildChanges
  <2>2. PICK op \in UserOps, arg \in Created \cup {None} : Pushes(t, Frame(op, arg))
    BY <2>1
  <2>3. op \in Labels /\ arg \in Child \cup {None} /\ op # "cleanup"
    BY DEF UserOps, Labels, Created
  <2> QED
    BY <1>3, <2>2, <2>3, Calling
<1>5. CASE Spawn(t)
  BY <1>5 DEF Spawn, CleanedOnce
<1>6. CASE Raise(t)
  <2>1. Moves(t, 0, <<>>)
    BY <1>0, <1>6, RaiseMoves DEF Raise
  <2> QED
    BY <1>0, <2>1, CleanedOnceMove
<1> QED
  BY <1>1, <1>2, <1>4, <1>5, <1>6 DEF User, UserCalls

LEMMA AsleepStep ==
  ASSUME Sound, Asleep, NEW t \in Thread, Work(t) \/ User(t)
  PROVE  Asleep'
<1> USE DEF Sound
<1> DEFINE asleep == {"drain", "act", "subscribe", "sync", "recon", "leave", "enter"}
<1> SUFFICES ASSUME ist' = "not_started"
             PROVE  /\ \A op \in asleep : Live(op)' = {}
                    /\ ~sub' /\ InTable' = {} /\ \A c \in Child : ~listening'[c]
  BY DEF Asleep
<1>1. ist = "not_started"
  <2>1. ist' = ist \/ ist' = "running" \/ ist' = "stopped"
    BY DEF Work, User, parent, child, counts, Send, InterpreterSend, Drain, Notify, Start, Subscribe,
         Return, Stop, StopChild, StopSelf, ChildStart, ChildStarted, ChildNotify, ChildStop,
         ChildStopped, Unlink, Sync, Reconcile, LeaveInvocation, Resolve, EnterInvocation, EndPass,
         CallSend, CallStart, CallStop, CallChild, ChildChanges, Spawn, Raise
  <2> QED
    BY <2>1
<1>2. /\ \A op \in asleep : Live(op) = {}
      /\ ~sub /\ InTable = {} /\ \A c \in Child : ~listening[c]
  BY <1>1 DEF Asleep
<1>3. \A op \in asleep : ~At(t, op)
  BY <1>2, TopFormed DEF Live, Calls, At, Top, Frames, Stacks
<1>4. ASSUME NEW op \in asleep
      PROVE  Live(op)' = {}
  <2>1. CASE Work(t)
    <3>1. PICK new \in SUBSET Call :
             Replaces(t, new) /\ \A f \in new : <<Top(t).op, f.op>> \in Follows
      BY <2>1, Following
    <3>2. stack[t] # <<>>
      BY <3>1 DEF Replaces
    <3>3. Top(t).op \notin asleep
      BY <1>3, <3>2 DEF At
    <3>4. CASE <<Top(t).op, op>> \notin Follows
      BY <1>2, <2>1, <3>4, LiveWork
    <3>5. CASE <<Top(t).op, op>> \in Follows
      <4>1. At(t, "isend") \/ At(t, "start")
        BY <3>2, <3>3, <3>5 DEF Follows, At
      <4>2. Replaces(t, {})
        <5>1. CASE InterpreterSend(t)
          BY <1>1, <5>1, Effects
        <5>2. CASE Start(t)
          BY <1>1, <5>2, Effects
        <5>3. \A o, p \in Labels : At(t, o) /\ At(t, p) => o = p
          BY DEF At
        <5>4. InterpreterSend(t) \/ Start(t)
          BY <2>1, <4>1, <5>3 DEF Work, Labels, Send, Drain, Notify, Subscribe, Return,
             Stop, StopChild, StopSelf, ChildStart, ChildStarted, ChildNotify, ChildStop,
             ChildStopped, Unlink, Sync, Reconcile, LeaveInvocation, Resolve, EnterInvocation, EndPass
        <5> QED
          BY <5>1, <5>2, <5>4
      <4>3. Live(op)' \subseteq Live(op) \cup {f \in {} : f.op = op}
        BY <4>2, LiveChanges DEF Replaces
      <4> QED
        BY <1>2, <4>3
    <3> QED
      BY <3>4, <3>5
  <2>2. CASE UserCalls(t)
    <3>1. PICK o \in UserOps, arg \in Created \cup {None} :
             Frame(o, arg).op = o /\ Changes(t, {}, {Frame(o, arg)})
      BY <2>2, LiveCall
    <3>2. Live(op)' \subseteq Live(op) \cup {f \in {Frame(o, arg)} : f.op = op}
      BY <3>1, LiveChanges
    <3> QED
      BY <1>2, <3>1, <3>2 DEF UserOps
  <2>3. CASE Spawn(t)
    BY <1>2, <2>3 DEF Spawn, Live, Calls
  <2>4. CASE Raise(t)
    BY <1>2, <2>4, LiveRaise
  <2> QED
    BY <2>1, <2>2, <2>3, <2>4 DEF User, UserCalls
<1>5. \/ (sub' => sub) /\ invoked' = invoked /\ listening' = listening
      \/ ChildStopped(t)
  <2>1. ~Subscribe(t) /\ ~LeaveInvocation(t) /\ ~EnterInvocation(t) /\ ~StopSelf(t)
    BY <1>3 DEF Subscribe, LeaveInvocation, EnterInvocation, StopSelf
  <2>2. Stop(t) => (sub' => sub)
    BY DEF Stop
  <2> QED
    BY <2>1, <2>2 DEF Work, User, parent, tables, child, counts, Send, InterpreterSend, Drain, Notify, Start,
         Return, Stop, StopChild, ChildStart, ChildStarted, ChildNotify, ChildStop,
         Unlink, Sync, Reconcile, Resolve, EndPass,
         CallSend, CallStart, CallStop, CallChild, ChildChanges, Spawn, Raise
<1>6. ~sub' /\ InTable' = {} /\ \A c \in Child : ~listening'[c]
  <2>1. CASE ChildStopped(t)
    <3>1. sub' = sub /\ invoked' = invoked
          /\ listening' = [listening EXCEPT ![Top(t).arg] = FALSE]
      BY <2>1 DEF ChildStopped, parent, tables
    <3> QED
      BY <1>2, <3>1 DEF Data, InTable
  <2>2. CASE (sub' => sub) /\ invoked' = invoked /\ listening' = listening
    BY <1>2, <2>2 DEF InTable
  <2> QED
    BY <1>5, <2>1, <2>2
<1> QED
  BY <1>4, <1>6

\* The children that a stop() has before it are those of the table, or of
\* another one.
Listed(f) == \A c \in f.ids :
    \/ \E g \in Live("stopkids") : c \in g.ids
    \/ \E i \in Id : c = children[i] /\ c # None

\* A step under which nothing enters or leaves the tables.  A child starts or
\* stops; stop() has one child less before it, whose stop is under way, or has
\* them all before it; a child is stopped from stop() or from outside.
Plain(t) ==
    /\ UNCHANGED <<tables, id, lost>>
    /\ \/ ist' = ist
       \/ ist # "stopped" /\ ist' = "running" /\ (ist = "not_started" => InTable = {})
    /\ \A c \in cut' : c \in cut \/ ChildStopping(c)
    /\ \A c \in Child :
          \/ cst'[c] = cst[c]
          \/ cst[c] = "not_started" /\ cst'[c] = "running"
          \/ ChildStopping(c) /\ cst'[c] = "stopped" /\ ~ChildStopping(c)'
    /\ StopQuiet' /\ (Stopping => Stopping')
    /\ \A f \in Live("stopkids")' :
          \/ \E g \in Live("stopkids") : \A c \in g.ids : c \in f.ids \/ InStop(c)'
          \/ ~Closing /\ f.ids = {children[i] : i \in Id} \ {None}
    /\ \A f \in Live("stopkids")' : Listed(f)
    /\ \A f \in Live("cstart") :
          f \in Live("cstart")' \/ cst'[f.arg] # "not_started" \/ ChildStopping(f.arg)
    /\ \A f \in Live("cstop")' :
          \/ f \in Live("cstop") \/ (f.arg \in Created /\ id[f.arg] \in SpawnId)
          \/ Stopping' /\ \E g \in Live("stopkids") : f.arg \in g.ids
    /\ \A f \in Live("cleanup")' :
          \/ f \in Live("cleanup")
          \/ cst[f.arg] # "stopped" /\ \E g \in Live("cstop") : g.arg = f.arg
    /\ \A f \in Live("unlink")' :
          f \in Live("unlink") \/ (ChildStopping(f.arg) /\ cst'[f.arg] = "stopped")

LEMMA OnChildren ==
  ASSUME Sound, NEW op \in OnChild, NEW f \in Live(op)
  PROVE  f.arg \in Created /\ f.arg \in Child
<1>1. PICK t \in Thread : f \in Calls(t)
  BY DEF Live
<1>2. PICK k \in DOMAIN stack[t] : f = stack[t][k]
  BY <1>1 DEF Calls
<1>3. f.op = op
  BY DEF Live
<1> QED
  BY <1>2, <1>3 DEF Sound, Frames, Formation, Formed, Created

LEMMA InKids ==
  ASSUME Sound, NEW f \in Live("stopkids")
  PROVE  f.ids \subseteq Created
<1>1. PICK t \in Thread : f \in Calls(t)
  BY DEF Live
<1>2. PICK k \in DOMAIN stack[t] : f = stack[t][k]
  BY <1>1 DEF Calls
<1>3. f.op = "stopkids"
  BY DEF Live
<1> QED
  BY <1>2, <1>3 DEF Sound, Frames, Formation, Formed

LEMMA EntriesKept ==
  ASSUME Sound, Entries,
         \A c \in Created : c \in Created' /\ id'[c] = id[c],
         \A c \in lost' : c \in lost \/ (c \in Created /\ id[c] \in SpawnId),
         \A i \in InvId : children'[i] \in {children[i], None},
         \A f \in InStops' :
            \/ \E g \in InStops : g.arg = f.arg
            \/ \E g \in Live("stopkids") : f.arg \in g.ids
            \/ f.arg \in Created /\ (id[f.arg] \in SpawnId \/ children[id[f.arg]] = f.arg),
         \A f \in Live("stopkids")' : Listed(f)
  PROVE  Entries'
<1> USE DEF Sound
<1>1. \A c \in lost' : c \in Created' /\ id'[c] \in SpawnId
  BY DEF Entries
<1>2. \A c \in Created : Own(c) => Own(c)'
  BY DEF Own
<1>3. \A c \in Created : id[c] \in SpawnId \/ children[id[c]] = c => Own(c)
  BY ActorsAssumption DEF Own
<1>4. ASSUME NEW f \in InStops'
      PROVE  Own(f.arg)'
  <2>1. CASE \E g \in InStops : g.arg = f.arg
    <3>1. PICK g \in InStops : g.arg = f.arg
      BY <2>1
    <3>2. g.arg \in Created
      BY OnChildren DEF InStops, OnChild
    <3> QED
      BY <1>2, <3>1, <3>2 DEF Entries
  <2>2. CASE \E g \in Live("stopkids") : f.arg \in g.ids
    BY <1>2, <2>2, InKids DEF Entries
  <2>3. CASE f.arg \in Created /\ (id[f.arg] \in SpawnId \/ children[id[f.arg]] = f.arg)
    BY <1>2, <1>3, <2>3
  <2> QED
    BY <1>4, <2>1, <2>2, <2>3
<1>5. ASSUME NEW f \in Live("stopkids")', NEW c \in f.ids
      PROVE  Own(c)'
  <2>1. CASE \E g \in Live("stopkids") : c \in g.ids
    BY <1>2, <2>1, InKids DEF Entries
  <2>2. CASE \E i \in Id : c = children[i] /\ c # None
    <3>1. PICK i \in Id : c = children[i] /\ c # None
      BY <2>2
    <3>2. c \in Created /\ id[c] = i
      BY <3>1, InTables DEF Tables
    <3> QED
      BY <1>2, <1>3, <3>1, <3>2
  <2> QED
    BY <1>5, <2>1, <2>2 DEF Listed
<1> QED
  BY <1>1, <1>4, <1>5 DEF Entries

LEMMA PlainKeeps ==
  ASSUME Sound, Ties, NEW t \in Thread, Work(t) \/ User(t), Plain(t)
  PROVE  Ties'
<1> USE DEF Sound, Ties
<1>0. /\ children' = children /\ invoked' = invoked /\ id' = id /\ Created' = Created
      /\ InvId \cap SpawnId = {}
  BY ActorsAssumption DEF Plain, tables, Created
<1>1. \A c \in Created : Down(c) => Down(c)'
  BY DownStable
<1>o. \A c \in Created : Out(c) => Out(c)'
  BY OutStable
<1>2. Closing => Closing'
  BY DEF Plain, Closing
<1>3. UpInTable'
  BY <1>0, <1>o, <1>2 DEF UpInTable
<1>4. UpInvoked'
  BY <1>0, <1>1 DEF UpInvoked
<1>5. AllDown'
  BY <1>0, <1>o DEF AllDown, Plain
<1>6. UpInStop'
  <2> SUFFICES ASSUME NEW f \in Live("stopkids")', NEW c \in Created, ~Out(c)'
               PROVE  c \in f.ids
    BY <1>0 DEF UpInStop
  <2>0. ~Out(c) /\ ~InStop(c)' /\ c \in Child
    BY <1>o DEF Out, Down, Created
  <2>1. CASE \E g \in Live("stopkids") : \A d \in g.ids : d \in f.ids \/ InStop(d)'
    BY <2>0, <2>1 DEF UpInStop
  <2>2. CASE ~Closing /\ f.ids = {children[i] : i \in Id} \ {None}
    <3>1. children[id[c]] = c
      BY <2>0, <2>2 DEF UpInTable
    <3>2. id[c] \in Id /\ c # None
      BY <2>0, ActorsAssumption DEF Data, Created
    <3> QED
      BY <2>2, <3>1, <3>2
  <2> QED
    BY <2>1, <2>2 DEF Plain
<1>7. Unlinked'
  <2> SUFFICES ASSUME NEW f \in Live("unlink")'
               PROVE  cst'[f.arg] = "stopped"
    BY DEF Unlinked
  <2>1. CASE f \in Live("unlink")
    <3>1. cst[f.arg] = "stopped" /\ f.arg \in Child
      BY <2>1, OnChildren DEF Unlinked, OnChild
    <3> QED
      BY <3>1 DEF Plain
  <2> QED
    BY <2>1 DEF Plain
<1>8. CleanedBefore'
  <2> SUFFICES ASSUME NEW f \in Live("cleanup")'
               PROVE  cst'[f.arg] # "stopped"
    BY DEF CleanedBefore
  <2>1. cst[f.arg] # "stopped" /\ f.arg \in Child
    BY OnChildren DEF CleanedBefore, OnChild, Plain
  <2>2. ChildStopping(f.arg)'
    BY DEF ChildStopping
  <2> QED
    BY <2>1, <2>2 DEF Plain
<1>9. StopsAlone'
  <2> SUFFICES ASSUME NEW f \in Live("cstop")' \cup Live("cleanup")' \cup Live("unlink")',
                      id[f.arg] \in InvId, ~Closing'
               PROVE  invoked[id[f.arg]] = None
    BY <1>0 DEF StopsAlone
  <2>1. \E g \in Live("cstop") \cup Live("cleanup") \cup Live("unlink") : g.arg = f.arg
    BY <1>0 DEF Plain, ChildStopping, Closing
  <2> QED
    BY <1>2, <2>1 DEF StopsAlone
<1>10. InvocationsUp'
  <2> SUFFICES ASSUME ist' = "running", ~Stopping', NEW i \in InvId, invoked[i] # None
               PROVE  LET c == invoked[i] IN
                      /\ children[i] = c
                      /\ c \notin cut'
                      /\ \/ cst'[c] = "running"
                         \/ cst'[c] = "not_started" /\ \E f \in Live("cstart")' : f.arg = c
    BY <1>0 DEF InvocationsUp
  <2> DEFINE c == invoked[i]
  <2>1. c \in Child /\ id[c] = i
    BY DEF Data, Tables
  <2>2. ist = "running" /\ ~Stopping /\ ~Closing
    BY DEF Plain, InTable, Closing, Data
  <2>3. /\ children[i] = c
        /\ c \notin cut
        /\ \/ cst[c] = "running"
           \/ cst[c] = "not_started" /\ \E f \in Live("cstart") : f.arg = c
    BY <2>2 DEF InvocationsUp
  <2>4. ~ChildStopping(c)
    BY <2>1, <2>2 DEF ChildStopping, StopsAlone
  <2>5. c \notin cut'
    BY <2>3, <2>4 DEF Plain
  <2>6. cst'[c] = cst[c] \/ cst'[c] = "running"
    BY <2>1, <2>4 DEF Plain
  <2>7. cst'[c] = "not_started" => \E f \in Live("cstart")' : f.arg = c
    <3> SUFFICES ASSUME cst'[c] = "not_started"
                 PROVE  \E f \in Live("cstart")' : f.arg = c
      OBVIOUS
    <3>1. PICK f \in Live("cstart") : f.arg = c
      BY <2>3, <2>6
    <3> QED
      BY <2>4, <3>1 DEF Plain
  <2> QED
    BY <2>3, <2>5, <2>6, <2>7
<1>11. Entries'
  <2>1. \A c \in Created : c \in Created' /\ id'[c] = id[c]
    BY <1>0
  <2>2. \A f \in InStops' :
           \/ \E g \in InStops : g.arg = f.arg
           \/ \E g \in Live("stopkids") : f.arg \in g.ids
           \/ f.arg \in Created /\ id[f.arg] \in SpawnId
    BY DEF InStops, Plain, ChildStopping
  <2>3. lost' = lost /\ \A f \in Live("stopkids")' : Listed(f)
    BY DEF Plain
  <2> QED
    BY <1>0, <2>1, <2>2, <2>3, EntriesKept
<1> QED
  BY <1>3, <1>4, <1>5, <1>6, <1>7, <1>8, <1>9, <1>10, <1>11 DEF Plain

\* The interpreter, the reconciler between two calls, and the code of a child
\* stop nothing.
Quiet(t) ==
    \/ Send(t) \/ InterpreterSend(t) \/ Drain(t) \/ Notify(t) \/ Start(t) \/ Subscribe(t)
    \/ Return(t) \/ ChildStarted(t) \/ ChildNotify(t)
    \/ Sync(t) \/ Reconcile(t) \/ Resolve(t) \/ EndPass(t)

LEMMA QuietPlain ==
  ASSUME Sound, Ties, Asleep, NEW t \in Thread, Quiet(t)
  PROVE  Plain(t)
<1> USE DEF Sound, Ties
<1>1. UNCHANGED <<tables, id, lost>> /\ cst' = cst /\ cut' = cut
  BY DEF Quiet, tables, child, counts, Send, InterpreterSend, Drain, Notify, Start, Subscribe, Return,
         ChildStarted, ChildNotify, Sync, Reconcile, Resolve, EndPass
<1>2. ASSUME NEW op \in {"stopkids", "cstart", "cstop", "cleanup", "unlink"}
      PROVE  Live(op)' = Live(op)
  <2>1. Work(t)
    BY DEF Quiet, Work
  <2>2. Top(t).op \in {"send", "isend", "drain", "act", "start", "subscribe", "return",
                       "run", "cnotify", "sync", "recon", "leave", "enter"}
        /\ (Top(t).op \in {"leave", "enter"} => Resolve(t) \/ EndPass(t))
    BY TopFormed DEF Quiet, Send, InterpreterSend, Drain, Notify, Start, Subscribe, Return,
         ChildStarted, ChildNotify, Sync, Reconcile, Resolve, EndPass
  <2>3. Live(op) \subseteq Live(op)'
    BY <2>1, <2>2, LiveWork
  <2>4. CASE Top(t).op \notin {"leave", "enter"}
    <3>1. <<Top(t).op, op>> \notin Follows
      BY <2>2, <2>4 DEF Follows
    <3> QED
      BY <2>1, <2>3, <3>1, LiveWork
  <2>5. CASE Resolve(t) \/ EndPass(t)
    <3>1. Replaces(t, {}) \/ \E f : Replaces(t, {f}) /\ f.op \in {"enter", "recon"}
      BY <2>5, PassEffects
    <3>2. PICK new : Replaces(t, new) /\ \A f \in new : f.op \in {"enter", "recon"}
      <4>1. CASE Replaces(t, {})
        BY <4>1
      <4>2. ASSUME NEW f, Replaces(t, {f}), f.op \in {"enter", "recon"}
            PROVE  \E new : Replaces(t, new) /\ \A g \in new : g.op \in {"enter", "recon"}
        <5>1. \A g \in {f} : g.op \in {"enter", "recon"}
          BY <4>2
        <5> QED
          BY <4>2, <5>1
      <4> QED
        BY <3>1, <4>1, <4>2
    <3>3. Live(op)' \subseteq Live(op) \cup {f \in new : f.op = op}
      BY <3>2, LiveChanges DEF Replaces
    <3> QED
      BY <2>3, <3>2, <3>3
  <2> QED
    BY <2>2, <2>4, <2>5
<1>3. \/ ist' = ist
      \/ ist # "stopped" /\ ist' = "running" /\ (ist = "not_started" => InTable = {})
  <2>1. CASE Start(t)
    BY <2>1, Effects DEF Asleep
  <2>2. CASE ~Start(t)
    BY <2>2 DEF Quiet, parent, Send, InterpreterSend, Drain, Notify, Subscribe, Return,
         ChildStarted, ChildNotify, Sync, Reconcile, Resolve, EndPass
  <2> QED
    BY <2>1, <2>2
<1>4. Stopping' = Stopping
  BY <1>2 DEF Stopping
<1>5. StopQuiet'
  <2>1. CASE Subscribe(t)
    <3>1. At(t, "subscribe")
      BY <2>1 DEF Subscribe
    <3>2. Top(t).op = "subscribe" /\ Top(t).lock = Parent /\ Top(t) \in Calls(t)
      BY <3>1, TopFormed, OnTop DEF Formed, Frames, Calls
    <3>3. ~Stopping
      BY <3>2, ParentAwake DEF Holds, Winding
    <3> QED
      BY <1>4, <3>3 DEF StopQuiet
  <2>2. CASE ~Subscribe(t)
    <3>1. sub' = sub
      BY <2>2 DEF Quiet, parent, Send, InterpreterSend, Drain, Notify, Start, Return,
         ChildStarted, ChildNotify, Sync, Reconcile, Resolve, EndPass
    <3> QED
      BY <1>4, <3>1 DEF StopQuiet
  <2> QED
    BY <2>1, <2>2
<1> QED
  BY <1>1, <1>2, <1>3, <1>4, <1>5 DEF Plain, Listed

LEMMA CallsPlain ==
  ASSUME Sound, Ties, NEW t \in Thread, UserCalls(t) \/ Raise(t)
  PROVE  Plain(t)
<1> USE DEF Sound, Ties
<1>1. UNCHANGED <<tables, id, lost>> /\ cst' = cst /\ ist' = ist /\ sub' = sub
  BY DEF UserCalls, tables, child, counts, parent, CallSend, CallStart, CallStop, CallChild,
         ChildChanges, Raise
<1>2. CASE UserCalls(t)
  <2>1. cut' = cut
    BY <1>2 DEF UserCalls, counts, CallSend, CallStart, CallStop, CallChild, ChildChanges
  <2>2. PICK o \in UserOps, arg \in Created \cup {None} :
           /\ Frame(o, arg).op = o /\ Frame(o, arg).arg = arg
           /\ Changes(t, {}, {Frame(o, arg)})
           /\ o \in {"cstart", "cstop"} => id[arg] \in SpawnId /\ arg \in Created
    BY <1>2, LiveCall
  <2>3. /\ \A op : Live(op) \subseteq Live(op)'
        /\ \A op : op # o => Live(op)' = Live(op)
        /\ \A f \in Live("cstop")' :
              f \in Live("cstop") \/ (f.arg \in Created /\ id[f.arg] \in SpawnId)
    <3>1. \A op : /\ Live(op)' \subseteq Live(op) \cup {f \in {Frame(o, arg)} : f.op = op}
                  /\ Live(op) \cup {f \in {Frame(o, arg)} : f.op = op} \subseteq Live(op)'
      BY <2>2, LiveChanges
    <3> QED
      BY <2>2, <3>1
  <2>4. Live("stopkids")' = Live("stopkids") /\ Live("cleanup")' = Live("cleanup")
        /\ Live("unlink")' = Live("unlink") /\ Live("cstart") \subseteq Live("cstart")'
    BY <2>3 DEF UserOps
  <2>5. StopQuiet' /\ Stopping' = Stopping
    BY <1>1, <2>4 DEF StopQuiet, Stopping
  <2> QED
    BY <1>1, <2>1, <2>3, <2>4, <2>5 DEF Plain, Listed
<1>3. CASE Raise(t)
  <2>1. \A c \in cut' : c \in cut \/ ChildStopping(c)
    BY <1>3 DEF Raise, ChildStopping, Live
  <2>2. /\ \A op : Live(op)' \subseteq Live(op)
        /\ Live("stopkids") \subseteq Live("stopkids")'
        /\ Live("cstart") \subseteq Live("cstart")'
    BY <1>3, LiveRaise DEF Passing, Labels, Resting
  <2>3. Live("stopkids")' = Live("stopkids")
    BY <2>2
  <2>4. StopQuiet' /\ Stopping' = Stopping
    BY <1>1, <2>3 DEF StopQuiet, Stopping
  <2> QED
    BY <1>1, <2>1, <2>2, <2>3, <2>4 DEF Plain, Listed
<1> QED
  BY <1>2, <1>3

\* The calls that start or stop children.
Stops == {"stopkids", "cstart", "cstop", "cleanup", "unlink"}

LEMMA LiveStops ==
  ASSUME Frames, Data, Tables, NEW t \in Thread, Work(t)
  PROVE  \A op \in Stops :
            /\ Live(op) \ {Top(t)} \subseteq Live(op)'
            /\ Top(t).op # op => Live(op) \subseteq Live(op)'
            /\ \/ Live(op)' \subseteq Live(op)
               \/ Top(t).op = "stop" /\ op = "stopkids"
               \/ Top(t).op = "stopkids" /\ op \in {"stopkids", "cstop"}
               \/ Top(t).op = "cstop" /\ op = "cleanup"
               \/ Top(t).op = "cleanup" /\ op = "unlink"
               \/ Top(t).op = "leave" /\ op = "cstop"
               \/ Top(t).op = "enter" /\ op = "cstart"
<1> SUFFICES ASSUME NEW op \in Stops
             PROVE  /\ Live(op) \ {Top(t)} \subseteq Live(op)'
                    /\ Top(t).op # op => Live(op) \subseteq Live(op)'
                    /\ \/ Live(op)' \subseteq Live(op)
                       \/ Top(t).op = "stop" /\ op = "stopkids"
                       \/ Top(t).op = "stopkids" /\ op \in {"stopkids", "cstop"}
                       \/ Top(t).op = "cstop" /\ op = "cleanup"
                       \/ Top(t).op = "cleanup" /\ op = "unlink"
                       \/ Top(t).op = "leave" /\ op = "cstop"
                       \/ Top(t).op = "enter" /\ op = "cstart"
  OBVIOUS
<1>1. /\ Live(op) \ {Top(t)} \subseteq Live(op)'
      /\ Top(t).op # op => Live(op) \subseteq Live(op)'
      /\ <<Top(t).op, op>> \notin Follows => Live(op)' \subseteq Live(op)
  BY LiveWork
<1>2. <<Top(t).op, op>> \in Follows =>
         \/ Top(t).op = "stop" /\ op = "stopkids"
         \/ Top(t).op = "stopkids" /\ op \in {"stopkids", "cstop"}
         \/ Top(t).op = "cstop" /\ op = "cleanup"
         \/ Top(t).op = "cleanup" /\ op = "unlink"
         \/ Top(t).op = "leave" /\ op = "cstop"
         \/ Top(t).op = "enter" /\ op = "cstart"
  BY DEF Follows, Stops
<1> QED
  BY <1>1, <1>2

LEMMA StopPlain ==
  ASSUME Sound, Ties, NEW t \in Thread, Stop(t) \/ StopChild(t)
  PROVE  Plain(t)
<1> USE DEF Sound, Ties
<1>1. UNCHANGED <<tables, id, lost>> /\ cst' = cst /\ ist' = ist /\ cut' = cut /\ Work(t)
  BY DEF tables, child, counts, parent, Stop, StopChild, Work
<1>2. CASE Stop(t)
  <2>1. Top(t).op = "stop"
    BY <1>2, StopEffects, TopFormed
  <2>2. /\ Live("cstart") \subseteq Live("cstart")' /\ Live("cstop")' = Live("cstop")
        /\ Live("cleanup")' = Live("cleanup") /\ Live("unlink")' = Live("unlink")
        /\ Live("stopkids") \subseteq Live("stopkids")'
    BY <1>1, <2>1, LiveStops DEF Stops
  <2>3. CASE Replaces(t, {}) /\ sub' = sub
    <3>1. Live("stopkids")' \subseteq Live("stopkids") \cup {f \in {} : f.op = "stopkids"}
      BY <2>3, LiveChanges DEF Replaces
    <3>2. Live("stopkids")' = Live("stopkids")
      BY <2>2, <3>1
    <3>3. StopQuiet' /\ Stopping' = Stopping
      BY <2>3, <3>2 DEF StopQuiet, Stopping
    <3> QED
      BY <1>1, <2>2, <3>2, <3>3 DEF Plain, Listed
  <2>4. CASE ~Stopping /\ ist # "stopped" /\ sub' = FALSE /\ Replaces(t, {KidsFrame})
    <3>1. Live("stopkids")' \subseteq {KidsFrame}
      <4>1. Live("stopkids")' \subseteq Live("stopkids") \cup {f \in {KidsFrame} : f.op = "stopkids"}
        BY <2>4, LiveChanges DEF Replaces
      <4> QED
        BY <2>4, <4>1 DEF Stopping
    <3>2. StopQuiet' /\ ~Stopping /\ ~Closing
      BY <2>4 DEF StopQuiet, Closing
    <3>3. KidsFrame.ids = {children[i] : i \in Id} \ {None}
      BY StopEffects
    <3>4. Listed(KidsFrame)
      BY <3>3 DEF Listed
    <3> QED
      BY <1>1, <2>2, <3>1, <3>2, <3>3, <3>4 DEF Plain
  <2> QED
    BY <1>2, <2>3, <2>4, StopEffects
<1>3. CASE StopChild(t)
  <2>1. Top(t).op = "stopkids" /\ Top(t) \in Live("stopkids") /\ sub' = sub
    BY <1>3, StopEffects, TopFormed, OnTop DEF Live, Calls, StopChild, parent, Frames
  <2>2. /\ Live("cstart") \subseteq Live("cstart")'
        /\ Live("cleanup")' = Live("cleanup") /\ Live("unlink")' = Live("unlink")
    BY <1>1, <2>1, LiveStops DEF Stops
  <2>3. PICK c \in Top(t).ids \cap Created :
           /\ Replaces(t, {LessFrame(t, c), Frame("cstop", c)})
           /\ LessFrame(t, c).op = "stopkids"
           /\ LessFrame(t, c).ids = Top(t).ids \ {c}
           /\ Frame("cstop", c).op = "cstop" /\ Frame("cstop", c).arg = c
    BY <1>3, StopEffects
  <2> DEFINE less == LessFrame(t, c)
             stop == Frame("cstop", c)
  <2> HIDE DEF less, stop
  <2>4. /\ Replaces(t, {less, stop}) /\ less.op = "stopkids" /\ less.ids = Top(t).ids \ {c}
        /\ stop.op = "cstop" /\ stop.arg = c
    BY <2>3 DEF less, stop
  <2>5. /\ Live("stopkids")' \subseteq Live("stopkids") \cup {f \in {less, stop} : f.op = "stopkids"}
        /\ {f \in {less, stop} : f.op = "stopkids"} \subseteq Live("stopkids")'
        /\ {f \in {less, stop} : f.op = "cstop"} \subseteq Live("cstop")'
    BY <2>4, LiveChanges DEF Replaces
  <2>6. less \in Live("stopkids")' /\ InStop(c)'
    BY <2>4, <2>5 DEF InStop
  <2>7. \A f \in Live("stopkids")' :
           \E g \in Live("stopkids") : \A d \in g.ids : d \in f.ids \/ InStop(d)'
    <3> SUFFICES ASSUME NEW f \in Live("stopkids")'
                 PROVE  \E g \in Live("stopkids") : \A d \in g.ids : d \in f.ids \/ InStop(d)'
      OBVIOUS
    <3>1. CASE f = less
      BY <2>1, <2>4, <2>6, <3>1
    <3>2. CASE f \in Live("stopkids")
      BY <3>2
    <3> QED
      BY <2>4, <2>5, <3>1, <3>2
  <2>a. \A f \in Live("stopkids")' : Listed(f)
    <3> SUFFICES ASSUME NEW f \in Live("stopkids")'
                 PROVE  \E g \in Live("stopkids") : f.ids \subseteq g.ids
      BY DEF Listed
    <3> QED
      BY <2>1, <2>4, <2>5
  <2>b. \A f \in Live("cstop")' : f \in Live("cstop") \/ f.arg \in Top(t).ids
    <3>1. Live("cstop")' \subseteq Live("cstop") \cup {f \in {less, stop} : f.op = "cstop"}
      BY <2>4, LiveChanges DEF Replaces
    <3> QED
      BY <2>4, <3>1
  <2>8. Stopping' /\ Stopping
    BY <2>1, <2>6 DEF Stopping
  <2>9. StopQuiet'
    BY <2>1, <2>8 DEF StopQuiet
  <2> QED
    BY <1>1, <2>1, <2>2, <2>7, <2>8, <2>9, <2>a, <2>b DEF Plain
<1> QED
  BY <1>2, <1>3

LEMMA ChildPlain ==
  ASSUME Sound, Ties, CleanedOnce, NEW t \in Thread,
         ChildStart(t) \/ ChildStop(t) \/ ChildStopped(t)
  PROVE  Plain(t)
<1> USE DEF Sound, Ties
<1>1. UNCHANGED <<tables, id, lost>> /\ sub' = sub /\ ist' = ist /\ cut' = cut /\ Work(t)
  BY DEF tables, child, counts, parent, ChildStart, ChildStop, ChildStopped, Work
<1>2. PICK op \in {"cstart", "cstop", "cleanup"} :
         At(t, op) /\ (op = "cstart" <=> ChildStart(t)) /\ (op = "cstop" <=> ChildStop(t))
                   /\ (op = "cleanup" <=> ChildStopped(t))
  BY DEF ChildStart, ChildStop, ChildStopped, At
<1>c. PICK c : c = Top(t).arg
  OBVIOUS
<1>3. Top(t).op = op /\ c \in Child /\ Top(t) \in Live(op) /\ stack[t] # <<>>
  BY <1>2, <1>c, TopFormed, TopChild, OnTop DEF Live, Calls, OnChild, Frames
<1>4. Live("stopkids")' = Live("stopkids")
  BY <1>1, <1>3, LiveStops DEF Stops
<1>5. StopQuiet' /\ Stopping' = Stopping
  BY <1>1, <1>4 DEF StopQuiet, Stopping
<1>6. Live("cstop")' \subseteq Live("cstop")
  BY <1>1, <1>3, LiveStops DEF Stops
<1>7. CASE ChildStart(t)
  <2>1. op = "cstart"
    BY <1>2, <1>7
  <2>2. /\ Live("cleanup")' = Live("cleanup") /\ Live("unlink")' = Live("unlink")
        /\ Live("cstart") \ {Top(t)} \subseteq Live("cstart")'
    BY <1>1, <1>3, <2>1, LiveStops DEF Stops
  <2>3. \/ cst' = cst /\ (cst[c] # "not_started" \/ ChildStopping(c))
        \/ cst[c] = "not_started" /\ cst' = [cst EXCEPT ![c] = "running"]
    BY <1>7, <1>c, ChildEffects
  <2>s. cst \in [Child -> {"not_started", "running", "stopped"}] /\ c \in Child
    BY <1>3 DEF Data
  <2>4. \A d \in Child : \/ cst'[d] = cst[d]
                         \/ cst[d] = "not_started" /\ cst'[d] = "running"
    BY <2>s, <2>3
  <2>5. cst'[c] # "not_started" \/ ChildStopping(c)
    BY <2>s, <2>3
  <2>6. \A f \in Live("cstart") :
           f \in Live("cstart")' \/ cst'[f.arg] # "not_started" \/ ChildStopping(f.arg)
    BY <1>c, <2>2, <2>5
  <2> QED
    BY <1>1, <1>4, <1>5, <1>6, <2>2, <2>4, <2>6 DEF Plain, Listed
<1>8. CASE ChildStop(t)
  <2>1. op = "cstop"
    BY <1>2, <1>8
  <2>2. /\ Live("cstart")' = Live("cstart") /\ Live("unlink")' = Live("unlink")
    BY <1>1, <1>3, <2>1, LiveStops DEF Stops
  <2>3. cst' = cst
    BY <1>8 DEF ChildStop, child
  <2>4. \A f \in Live("cleanup")' :
           \/ f \in Live("cleanup")
           \/ cst[f.arg] # "stopped" /\ \E g \in Live("cstop") : g.arg = f.arg
    <3>1. CASE Replaces(t, {})
      <4>1. Live("cleanup")' \subseteq Live("cleanup") \cup {f \in {} : f.op = "cleanup"}
        BY <3>1, LiveChanges DEF Replaces
      <4> QED
        BY <4>1
    <3>2. CASE Replaces(t, {Holding("cleanup", c)}) /\ cst[c] # "stopped"
      <4>1. Live("cleanup")' \subseteq Live("cleanup")
                                        \cup {f \in {Holding("cleanup", c)} : f.op = "cleanup"}
        BY <3>2, LiveChanges DEF Replaces
      <4>2. Holding("cleanup", c).arg = c
        BY <1>3, Calling DEF Labels
      <4> QED
        BY <1>3, <1>c, <2>1, <3>2, <4>1, <4>2
    <3> QED
      BY <1>8, <1>c, <3>1, <3>2, ChildEffects
  <2> QED
    BY <1>1, <1>4, <1>5, <1>6, <2>2, <2>3, <2>4 DEF Plain, Listed
<1>9. CASE ChildStopped(t)
  <2>1. op = "cleanup"
    BY <1>2, <1>9
  <2>2. /\ Live("cstart")' = Live("cstart") /\ Live("cleanup")' \subseteq Live("cleanup")
    BY <1>1, <1>3, <2>1, LiveStops DEF Stops
  <2>3. cst' = [cst EXCEPT ![c] = "stopped"] /\ Replaces(t, {Frame("unlink", c)})
    BY <1>9, <1>c, ChildEffects DEF ChildStopped
  <2>4. Frame("unlink", c).arg = c /\ Frame("unlink", c).op = "unlink"
    BY <1>3, Calling DEF Labels
  <2>5. ChildStopping(c) /\ cst'[c] = "stopped"
    BY <1>3, <1>c, <2>1, <2>3 DEF ChildStopping, Data
  <2>6. ~ChildStopping(c)'
    <3>0. CASE ~\E u \in Thread : \E f \in Calls(u)' : f.op = "cleanup" /\ f.arg = c
      BY <3>0 DEF ChildStopping, Live
    <3> SUFFICES ASSUME NEW u \in Thread, NEW f \in Calls(u)', f.op = "cleanup", f.arg = c
                 PROVE  FALSE
      BY <3>0
    <3>1. PICK seq \in Seq(Call) :
             Moves(t, Len(stack[t]) - 1, seq) /\ \A i \in 1..Len(seq) : seq[i] = Frame("unlink", c)
      BY <2>3 DEF Replaces
    <3>2. CASE u = t
      <4>1. PICK k \in DOMAIN stack'[t] : f = stack'[t][k]
        BY <3>2 DEF Calls
      <4>2. k \in 1..Len(stack[t]) - 1 /\ k \in DOMAIN stack[t] /\ stack'[t][k] = stack[t][k]
        <5> DEFINE n == Len(stack[t]) - 1
        <5>1. Moves(t, n, seq)
          BY <3>1
        <5> HIDE DEF n
        <5>2. \/ k \in 1..n /\ k \in DOMAIN stack[t] /\ stack'[t][k] = stack[t][k]
              \/ \E i \in 1..Len(seq) : k = n + i /\ stack'[t][k] = seq[i]
          BY <5>1, Positions DEF Frames
        <5>3. f.op # "unlink"
          BY <3>2
        <5> QED
          BY <2>4, <3>1, <4>1, <5>2, <5>3 DEF n
      <4>3. Len(stack[t]) \in DOMAIN stack[t] /\ Top(t) = stack[t][Len(stack[t])]
            /\ Len(stack[t]) \in Nat
        BY <1>3, OnTop DEF Frames
      <4>4. k = Len(stack[t])
        BY <1>3, <1>c, <2>1, <3>2, <4>1, <4>2, <4>3 DEF CleanedOnce
      <4> QED
        BY <4>2, <4>3, <4>4
    <3>3. CASE u # t
      <4>1. f \in Calls(u)
        BY <3>1, <3>3 DEF Calls, Moves
      <4>2. f.lock = c /\ Top(t).lock = c /\ Top(t) \in Calls(t)
        <5>1. PICK k \in DOMAIN stack[u] : f = stack[u][k]
          BY <4>1 DEF Calls
        <5>2. Formed(f, Created)
          BY <5>1 DEF Frames, Formation
        <5>3. f.lock = c
          BY <5>2 DEF Formed
        <5>4. Formed(Top(t), Created) /\ Top(t).op = "cleanup"
          BY <1>2, <2>1, TopFormed
        <5>5. Top(t) \in Calls(t)
          BY <1>3, OnTop DEF Frames, Calls
        <5> QED
          BY <1>c, <5>3, <5>4, <5>5 DEF Formed
      <4>3. Holds(u, c) /\ Holds(t, c)
        BY <4>1, <4>2 DEF Holds
      <4> QED
        BY <1>3, <3>3, <4>3 DEF Exclusive
    <3> QED
      BY <3>2, <3>3
  <2>7. \A d \in Child : \/ cst'[d] = cst[d]
                         \/ ChildStopping(d) /\ cst'[d] = "stopped" /\ ~ChildStopping(d)'
    <3>1. cst \in [Child -> {"not_started", "running", "stopped"}] /\ c \in Child
      BY <1>3 DEF Data
    <3> QED
      BY <2>3, <2>5, <2>6, <3>1
  <2>8. \A f \in Live("unlink")' :
           f \in Live("unlink") \/ (ChildStopping(f.arg) /\ cst'[f.arg] = "stopped")
    <3>1. Live("unlink")' \subseteq Live("unlink") \cup {f \in {Frame("unlink", c)} : f.op = "unlink"}
      BY <2>3, LiveChanges DEF Replaces
    <3> QED
      BY <2>4, <2>5, <3>1
  <2> QED
    BY <1>1, <1>4, <1>5, <1>6, <2>2, <2>7, <2>8 DEF Plain, Listed
<1> QED
  BY <1>7, <1>8, <1>9

LEMMA TopLive ==
  ASSUME Sound, NEW t \in Thread, NEW op, At(t, op)
  PROVE  Top(t).op = op /\ Top(t) \in Calls(t) /\ Top(t) \in Live(op) /\ stack[t] # <<>>
<1>1. Top(t).op = op /\ stack[t] # <<>>
  BY TopFormed DEF Sound
<1>2. Top(t) \in Calls(t)
  BY <1>1, OnTop DEF Calls, Sound, Frames
<1> QED
  BY <1>1, <1>2 DEF Live

LEMMA StopSelfKeeps ==
  ASSUME Sound, Ties, NEW t \in Thread, StopSelf(t)
  PROVE  Ties'
<1> USE DEF Sound, Ties
<1>1. /\ Work(t) /\ At(t, "stopkids") /\ Top(t).ids = {} /\ ist' = "stopped"
      /\ sub' = sub /\ id' = id /\ cst' = cst /\ invoked' = [i \in InvId |-> None]
      /\ Created' = Created
  BY DEF StopSelf, Work, child, Created
<1>2. Top(t).op = "stopkids" /\ Top(t) \in Live("stopkids") /\ Replaces(t, {})
  <2>1. Replaces(t, {})
    BY StopEffects
  <2> QED
    BY <1>1, <2>1, TopLive
<1>3. \A c \in Created : Out(c)'
  <2>1. \A c \in Created : Out(c)
    BY <1>1, <1>2 DEF UpInStop
  <2> QED
    BY <1>1, <2>1, OutStable
<1>4. UpInTable' /\ UpInvoked' /\ AllDown' /\ UpInStop'
  <2>1. lost' = lost /\ InvId \cap SpawnId = {}
    BY ActorsAssumption DEF StopSelf, counts
  <2>2. \A c \in Created : id[c] \in InvId => Down(c)'
    BY <1>3, <2>1 DEF Out, Entries
  <2> QED
    BY <1>1, <1>3, <2>2 DEF UpInTable, UpInvoked, AllDown, UpInStop
<1>5. \A op : Live(op)' \subseteq Live(op)
  <2>1. \A op : Live(op)' \subseteq Live(op) \cup {f \in {} : f.op = op}
    BY <1>2, LiveChanges DEF Replaces
  <2> QED
    BY <2>1
<1>6. Unlinked' /\ CleanedBefore'
  BY <1>1, <1>5 DEF Unlinked, CleanedBefore
<1>7. StopsAlone' /\ InvocationsUp'
  BY <1>1 DEF StopsAlone, InvocationsUp, Closing
<1>8. StopQuiet'
  BY <1>1, <1>2 DEF StopQuiet, Stopping
<1>9. Entries'
  <2>1. lost' = lost /\ \A i \in InvId : children'[i] \in {children[i], None}
    BY DEF StopSelf, counts, Id
  <2>2. \A f \in InStops' : f \in InStops
    BY <1>5 DEF InStops
  <2>3. \A f \in Live("stopkids")' : Listed(f)
    BY <1>5 DEF Listed
  <2>4. \A c \in Created : c \in Created' /\ id'[c] = id[c]
    BY <1>1
  <2> QED
    BY <2>1, <2>2, <2>3, <2>4, EntriesKept
<1> QED
  BY <1>4, <1>6, <1>7, <1>8, <1>9

LEMMA UnlinkKeeps ==
  ASSUME Sound, Ties, NEW t \in Thread, Unlink(t)
  PROVE  Ties'
<1> USE DEF Sound, Ties
<1>1. /\ Work(t) /\ At(t, "unlink") /\ ist' = ist /\ sub' = sub /\ id' = id /\ cst' = cst
      /\ invoked' = invoked /\ cut' = cut /\ Created' = Created
  BY DEF Unlink, Work, parent, child, counts, Created
<1>2. PICK c : c = Top(t).arg
  OBVIOUS
<1>3. Top(t).op = "unlink" /\ Top(t) \in Live("unlink") /\ c \in Child /\ c \in Created
      /\ id[c] \in Id
  <2>1. c \in Child /\ c \in Created
    BY <1>1, <1>2, TopChild DEF OnChild
  <2>2. id[c] \in Id
    BY <2>1 DEF Data, Created
  <2> QED
    BY <1>1, <2>1, <2>2, TopLive
<1>4. /\ children' = [children EXCEPT ![id[c]] = None] /\ cst[c] = "stopped"
      /\ lost' = lost \cup ({children[id[c]]} \ {c, None})
  BY <1>2, <1>3 DEF Unlink, Unlinked
<1>5. /\ \A op \in Stops : op # "unlink" => Live(op)' = Live(op)
      /\ Live("unlink")' \subseteq Live("unlink")
  BY <1>1, <1>3, LiveStops DEF Stops
<1>6. Stopping' = Stopping /\ Closing' = Closing
  BY <1>1, <1>5 DEF Stopping, Closing, Stops
<1>7. \A d \in Created : Down(d) => Down(d)'
  BY <1>1, DownStable
<1>o. /\ \A d \in Created : Out(d) => Out(d)'
      /\ \A d \in Created : ~Out(d)' => d \notin {children[id[c]]} \ {c, None}
  BY <1>1, <1>4, OutStable DEF Out
<1>8. id[c] \in InvId => invoked[id[c]] = None \/ Closing
  BY <1>2, <1>3 DEF StopsAlone
<1>9. UpInTable'
  <2> SUFFICES ASSUME NEW d \in Created, ~Out(d)', ~Closing
               PROVE  children'[id[d]] = d
    BY <1>1, <1>6 DEF UpInTable
  <2>1. children[id[d]] = d /\ ~Out(d) /\ d \in Child /\ d # None
    BY <1>o, ActorsAssumption DEF UpInTable, Created
  <2>2. id[d] # id[c]
    <3> SUFFICES ASSUME id[d] = id[c]
                 PROVE  FALSE
      OBVIOUS
    <3>1. d = c
      BY <1>o, <2>1
    <3> QED
      BY <1>4, <2>1, <3>1 DEF Out, Down
  <2>3. id[d] \in Id
    BY <2>1 DEF Data, Created
  <2> QED
    BY <1>3, <1>4, <2>1, <2>2, <2>3 DEF Data
<1>10. UpInvoked' /\ AllDown'
  BY <1>1, <1>7, <1>o DEF UpInvoked, AllDown
<1>11. UpInStop'
  BY <1>1, <1>5, <1>o DEF UpInStop, Stops
<1>12. Unlinked' /\ CleanedBefore'
  BY <1>1, <1>5 DEF Unlinked, CleanedBefore, Stops
<1>13. StopsAlone'
  BY <1>1, <1>5, <1>6 DEF StopsAlone, Stops
<1>14. StopQuiet'
  BY <1>1, <1>6 DEF StopQuiet
<1>15. InvocationsUp'
  <2> SUFFICES ASSUME ist = "running", ~Stopping, NEW i \in InvId, invoked[i] # None
               PROVE  children'[i] = children[i]
    BY <1>1, <1>5, <1>6 DEF InvocationsUp, Stops
  <2>1. i # id[c]
    BY <1>8 DEF Closing
  <2>2. i \in Id
    BY DEF Id
  <2> QED
    BY <1>3, <1>4, <2>1, <2>2 DEF Data
<1>16. Entries'
  <2>1. ASSUME NEW d \in lost', d \notin lost
        PROVE  d \in Created /\ id[d] \in SpawnId
    <3>1. d = children[id[c]] /\ d # c /\ d # None
      BY <1>4, <2>1
    <3>2. d \in Created /\ id[d] = id[c]
      BY <1>3, <3>1, InTables DEF Tables
    <3>3. Own(c)
      BY <1>2, <1>3 DEF Entries, InStops
    <3> QED
      BY <1>3, <3>1, <3>2, <3>3 DEF Own, Id
  <2>2. \A i \in InvId : children'[i] \in {children[i], None}
    BY <1>3, <1>4 DEF Data, Id
  <2>3. \A f \in InStops' : f \in InStops
    BY <1>5 DEF InStops, Stops
  <2>4. \A f \in Live("stopkids")' : Listed(f)
    BY <1>5 DEF Listed, Stops
  <2>5. \A d \in Created : d \in Created' /\ id'[d] = id[d]
    BY <1>1
  <2> QED
    BY <2>1, <2>2, <2>3, <2>4, <2>5, EntriesKept
<1> QED
  BY <1>9, <1>10, <1>11, <1>12, <1>13, <1>14, <1>15, <1>16

\* A thread in a pass, or in user code that can have the parent's lock.
LEMMA PassAwake ==
  ASSUME Sound, NEW t \in Thread, NEW op \in {"recon", "leave", "enter"}, At(t, op)
  PROVE  ~Stopping /\ Holds(t, Parent) /\ Top(t).op = op
<1>1. Top(t).op = op /\ Top(t).lock = Parent /\ Top(t) \in Calls(t)
  BY TopFormed, OnTop DEF Sound, Frames, Formed, Calls
<1> QED
  BY <1>1, ParentAwake DEF Holds, Winding

LEMMA LeaveKeeps ==
  ASSUME Sound, Ties, NEW t \in Thread, LeaveInvocation(t)
  PROVE  Ties'
<1> USE DEF Sound, Ties
<1>1. /\ Work(t) /\ At(t, "leave") /\ ist' = ist /\ sub' = sub /\ id' = id /\ cst' = cst
      /\ cut' = cut /\ Created' = Created
  BY DEF LeaveInvocation, Work, parent, child, counts, Created
<1>2. PICK i \in InvId : Leaves(t, i)
  BY PassEffects
<1>3. PICK c : c = invoked[i]
  OBVIOUS
<1>4. c # None /\ c \in Child /\ c \in Created /\ id[c] = i /\ i \in Id
  BY <1>2, <1>3, InTables DEF Leaves, Data, Tables, Id
<1>5. ~Stopping /\ Top(t).op = "leave"
  BY <1>1, PassAwake
<1>6. /\ invoked' = [invoked EXCEPT ![i] = None] /\ children' = [children EXCEPT ![i] = None]
      /\ Replaces(t, {LeftFrame(t, i), Frame("cstop", c)})
      /\ LeftFrame(t, i).op = "leave" /\ Frame("cstop", c).op = "cstop" /\ Frame("cstop", c).arg = c
  BY <1>2, <1>3 DEF Leaves
<1>7. /\ \A op \in Stops : op # "cstop" => Live(op)' = Live(op)
      /\ \A f \in Live("cstop")' : f \in Live("cstop") \/ f.arg = c
      /\ InStop(c)'
  <2> DEFINE left == LeftFrame(t, i)
             stop == Frame("cstop", c)
  <2>1. Replaces(t, {left, stop}) /\ left.op = "leave" /\ stop.op = "cstop" /\ stop.arg = c
    BY <1>6
  <2> HIDE DEF left, stop
  <2>2. /\ Live("cstop")' \subseteq Live("cstop") \cup {f \in {left, stop} : f.op = "cstop"}
        /\ {f \in {left, stop} : f.op = "cstop"} \subseteq Live("cstop")'
    BY <2>1, LiveChanges DEF Replaces
  <2>3. \A op \in Stops : op # "cstop" => Live(op)' = Live(op)
    BY <1>1, <1>5, LiveStops DEF Stops
  <2> QED
    BY <2>1, <2>2, <2>3 DEF InStop
<1>8. Live("stopkids")' = {} /\ Live("stopkids") = {} /\ ~Stopping'
  BY <1>5, <1>7 DEF Stopping, Stops
<1>9. \A d \in Created : (Down(d) => Down(d)') /\ (Out(d) => Out(d)')
  BY <1>1, DownStable, OutStable
<1>10. \A d \in Created : id[d] = i => Down(d)'
  BY <1>3, <1>4, <1>7, <1>9 DEF UpInvoked, Down
<1>11. /\ \A j \in InvId : j # i => invoked'[j] = invoked[j]
       /\ \A j \in Id : j # i => children'[j] = children[j]
       /\ invoked'[i] = None
  BY <1>2, <1>6 DEF Data
<1>12. UpInTable'
  <2> SUFFICES ASSUME NEW d \in Created, ~Out(d)', ist # "stopped"
               PROVE  children'[id[d]] = d
    BY <1>1 DEF UpInTable, Closing
  <2>1. id[d] # i /\ id[d] \in Id
    BY <1>10 DEF Data, Created, Out
  <2> QED
    BY <1>5, <1>9, <1>11, <2>1 DEF UpInTable, Closing
<1>13. UpInvoked'
  BY <1>1, <1>9, <1>10, <1>11 DEF UpInvoked
<1>14. AllDown'
  BY <1>1, <1>9 DEF AllDown
<1>15. UpInStop' /\ StopQuiet'
  BY <1>8 DEF UpInStop, StopQuiet
<1>16. Unlinked' /\ CleanedBefore'
  BY <1>1, <1>7 DEF Unlinked, CleanedBefore, Stops
<1>17. StopsAlone'
  <2> SUFFICES ASSUME NEW f \in Live("cstop")' \cup Live("cleanup")' \cup Live("unlink")',
                      id[f.arg] \in InvId, ist # "stopped"
               PROVE  invoked'[id[f.arg]] = None
    BY <1>1 DEF StopsAlone, Closing
  <2>1. f \in Live("cstop") \cup Live("cleanup") \cup Live("unlink") \/ id[f.arg] = i
    BY <1>4, <1>7 DEF Stops
  <2> QED
    BY <1>5, <1>11, <2>1 DEF StopsAlone, Closing
<1>18. InvocationsUp'
  <2> SUFFICES ASSUME ist = "running", NEW j \in InvId, invoked'[j] # None
               PROVE  /\ j # i /\ j \in Id /\ invoked'[j] = invoked[j] /\ children'[j] = children[j]
                      /\ Live("cstart")' = Live("cstart")
    BY <1>1, <1>5 DEF InvocationsUp
  <2> QED
    BY <1>7, <1>11 DEF Stops, Id
<1>19. Entries'
  <2>1. lost' = lost /\ \A j \in InvId : children'[j] \in {children[j], None}
    BY <1>6 DEF LeaveInvocation, counts, Data, Id
  <2>2. \A f \in InStops' : f \in InStops \/ f.arg = c
    BY <1>7 DEF InStops, Stops
  <2>3. \A f \in Live("stopkids")' : Listed(f)
    BY <1>8
  <2>4. \A d \in Created : d \in Created' /\ id'[d] = id[d]
    BY <1>1
  <2>5. \A d \in Created : Own(d) => Own(d)'
    BY <2>1, <2>4 DEF Own
  <2>6. \A f \in InStops : f.arg \in Created
    BY OnChildren DEF InStops, OnChild
  <2>7. Own(c)'
    BY <1>1, <1>4, <1>6 DEF Own, Data
  <2>8. \A d \in lost' : d \in Created' /\ id'[d] \in SpawnId
    BY <2>1, <2>4 DEF Entries
  <2> QED
    BY <1>8, <2>2, <2>5, <2>6, <2>7, <2>8 DEF Entries
<1> QED
  BY <1>12, <1>13, <1>14, <1>15, <1>16, <1>17, <1>18, <1>19

LEMMA EnterKeeps ==
  ASSUME Sound, Ties, NEW t \in Thread, EnterInvocation(t)
  PROVE  Ties'
<1> USE DEF Sound, Ties
<1>1. /\ Work(t) /\ At(t, "enter") /\ ist' = ist /\ sub' = sub /\ cut' = cut
  BY DEF EnterInvocation, Work, parent, counts
<1>2. PICK i \in InvId, c \in Fresh : Enters(t, i, c)
  BY PassEffects
<1>3. /\ Registered(i) = {} /\ Create(c, i) /\ invoked' = [invoked EXCEPT ![i] = c]
      /\ Replaces(t, {EnteredFrame(t, i), Frame("cstart", c)})
      /\ Frame("cstart", c).op = "cstart" /\ Frame("cstart", c).arg = c
  BY <1>2 DEF Enters
<1>4. ~Stopping /\ Top(t).op = "enter" /\ Holds(t, Parent)
  BY <1>1, PassAwake
<1>5. /\ c \in Child /\ c \notin Created /\ id'[c] = i /\ i # None /\ i \in Id
      /\ \A d \in Child : d # c => id'[d] = id[d] /\ cst'[d] = cst[d]
      /\ \A j \in Id : j # i => children'[j] = children[j]
      /\ \/ ist = "stopped" /\ children' = children /\ cst'[c] = "stopped"
         \/ ist # "stopped" /\ children'[i] = c /\ cst'[c] = cst[c]
      /\ Created' = Created \cup {c} /\ Created \subseteq Child
  <2>1. i \in Id
    BY DEF Id
  <2>2. Created \subseteq Child
    BY DEF Created
  <2> QED
    BY <1>3, <1>4, <2>1, <2>2, Creation
<1>6. /\ \A op \in Stops : op # "cstart" => Live(op)' = Live(op)
      /\ Live("cstart") \subseteq Live("cstart")'
      /\ Frame("cstart", c) \in Live("cstart")'
  <2>1. \A op \in Stops : op # "cstart" => Live(op)' = Live(op)
    BY <1>1, <1>4, LiveStops DEF Stops
  <2>2. Live("cstart") \subseteq Live("cstart")'
    BY <1>1, <1>4, LiveStops DEF Stops
  <2> DEFINE start == Frame("cstart", c)
             entered == EnteredFrame(t, i)
  <2>3. Replaces(t, {entered, start}) /\ start.op = "cstart"
    BY <1>3
  <2> HIDE DEF start, entered
  <2>4. {f \in {entered, start} : f.op = "cstart"} \subseteq Live("cstart")'
    BY <2>3, LiveChanges DEF Replaces
  <2>5. start \in Live("cstart")'
    BY <2>3, <2>4
  <2> QED
    BY <2>1, <2>2, <2>5 DEF start
<1>7. /\ Live("stopkids")' = {} /\ ~Stopping' /\ (Closing' <=> ist = "stopped")
      /\ (Closing <=> ist = "stopped")
  BY <1>1, <1>4, <1>6 DEF Stopping, Stops, Closing
<1>8. \A d \in Created : (Down(d) => Down(d)') /\ (Out(d) => Out(d)') /\ d # c
  BY <1>1, <1>5, DownStable, OutStable
<1>9. /\ \A j \in InvId : j # i => invoked'[j] = invoked[j]
      /\ invoked'[i] = c
  BY <1>3 DEF Data
<1>10. ist = "stopped" => Out(c)'
  BY <1>5 DEF Down, Out
<1>11. \A d \in Created : id[d] = i => cst[d] = "stopped" /\ Down(d)' /\ Out(d)'
  BY <1>3, <1>8 DEF Registered, Down, Out
<1>12. \A op \in {"cstop", "cleanup", "unlink"} : \A f \in Live(op) :
          f.arg \in Created /\ id'[f.arg] = id[f.arg] /\ cst'[f.arg] = cst[f.arg]
  <2> TAKE op \in {"cstop", "cleanup", "unlink"}
  <2> TAKE f \in Live(op)
  <2>1. f.arg \in Created /\ f.arg \in Child
    BY OnChildren DEF OnChild
  <2> QED
    BY <1>5, <2>1
<1>13. \A op \in {"cstop", "cleanup", "unlink"} : \A f \in Live(op) : id[f.arg] # i
  <2> SUFFICES ASSUME NEW op \in {"cstop", "cleanup", "unlink"}, NEW f \in Live(op), id[f.arg] = i
               PROVE  FALSE
    OBVIOUS
  <2>1. PICK u \in Thread : f \in Calls(u)
    BY DEF Live
  <2>2. PICK k \in DOMAIN stack[u] : f = stack[u][k]
    BY <2>1 DEF Calls
  <2>3. f.op = op /\ f.arg \in Created /\ f.arg \in Child
    BY <1>5, <1>12 DEF Live
  <2>4. Guarded(u, k)
    BY <2>2, <2>3 DEF Frames, InvokedUnderParent, Owning
  <2>5. Holds(u, Parent)
    <3>1. PICK j \in 1..k - 1 : stack[u][j].lock = Parent
      BY <2>4 DEF Guarded
    <3>2. j \in DOMAIN stack[u]
      BY <2>2, <3>1 DEF Frames, Stacks
    <3> QED
      BY <3>1, <3>2 DEF Holds, Calls
  <2>6. u = t
    BY <1>4, <2>5 DEF Exclusive
  <2>7. k # Len(stack[t])
    BY <1>4, <2>2, <2>3, <2>6 DEF Top
  <2>8. f.op \in Resting
    BY <2>2, <2>6, <2>7 DEF Frames, Order
  <2>9. op = "cleanup"
    BY <2>3, <2>8 DEF Resting
  <2> QED
    BY <1>11, <2>3, <2>9 DEF CleanedBefore
<1>14. UpInTable'
  <2> SUFFICES ASSUME NEW d \in Created \cup {c}, ~Out(d)', ist # "stopped"
               PROVE  children'[id'[d]] = d
    BY <1>5, <1>7 DEF UpInTable
  <2>1. CASE d = c
    BY <1>5, <2>1
  <2>2. CASE d \in Created
    <3>1. ~Out(d) /\ id'[d] = id[d] /\ id[d] # i /\ id[d] \in Id
      BY <1>5, <1>8, <1>11, <2>2 DEF Data, Created
    <3> QED
      BY <1>5, <1>7, <2>2, <3>1 DEF UpInTable
  <2> QED
    BY <2>1, <2>2
<1>15. UpInvoked'
  <2> SUFFICES ASSUME NEW d \in Created \cup {c}, ~Down(d)', id'[d] \in InvId
               PROVE  invoked'[id'[d]] = d
    BY <1>5 DEF UpInvoked
  <2>1. CASE d = c
    BY <1>5, <1>9, <2>1
  <2>2. CASE d \in Created
    <3>1. ~Down(d) /\ id'[d] = id[d] /\ id[d] # i
      BY <1>5, <1>8, <1>11, <2>2
    <3> QED
      BY <1>9, <2>2, <3>1 DEF UpInvoked
  <2> QED
    BY <2>1, <2>2
<1>16. AllDown'
  BY <1>1, <1>5, <1>8, <1>10 DEF AllDown
<1>17. UpInStop' /\ StopQuiet'
  BY <1>7 DEF UpInStop, StopQuiet
<1>18. Unlinked' /\ CleanedBefore'
  BY <1>6, <1>12 DEF Unlinked, CleanedBefore, Stops
<1>19. StopsAlone'
  <2> SUFFICES ASSUME NEW op \in {"cstop", "cleanup", "unlink"}, NEW f \in Live(op)',
                      id'[f.arg] \in InvId, ist # "stopped"
               PROVE  invoked'[id'[f.arg]] = None
    BY <1>7 DEF StopsAlone
  <2>1. f \in Live(op) /\ id'[f.arg] = id[f.arg] /\ id[f.arg] # i
    BY <1>6, <1>12, <1>13 DEF Stops
  <2>2. invoked[id[f.arg]] = None
    BY <1>7, <2>1 DEF StopsAlone
  <2> QED
    BY <1>9, <2>1, <2>2
<1>20. InvocationsUp'
  <2> SUFFICES ASSUME ist = "running", NEW j \in InvId, invoked'[j] # None,
                      NEW d, d = invoked'[j]
               PROVE  /\ children'[j] = d
                      /\ d \notin cut
                      /\ \/ cst'[d] = "running"
                         \/ cst'[d] = "not_started" /\ \E f \in Live("cstart")' : f.arg = d
    BY <1>1, <1>7 DEF InvocationsUp
  <2>1. CASE j = i
    <3>1. d = c /\ cst[c] = "not_started" /\ c \notin cut
      BY <1>5, <1>9, <2>1 DEF Untouched, Created
    <3> QED
      BY <1>3, <1>5, <1>6, <2>1, <3>1
  <2>2. CASE j # i
    <3>1. d = invoked[j] /\ d \in Created /\ j \in Id
      BY <1>9, <2>2, InTables
    <3>2. /\ children[j] = d /\ d \notin cut
          /\ \/ cst[d] = "running"
             \/ cst[d] = "not_started" /\ \E f \in Live("cstart") : f.arg = d
      BY <1>4, <3>1 DEF InvocationsUp
    <3>3. cst'[d] = cst[d] /\ children'[j] = children[j]
      BY <1>5, <2>2, <3>1
    <3> QED
      BY <1>6, <3>2, <3>3
  <2> QED
    BY <2>1, <2>2
<1>21. Entries'
  <2>1. ASSUME NEW d \in lost'
        PROVE  d \in Created' /\ id'[d] \in SpawnId
    <3>1. d \in Created /\ id[d] \in SpawnId
      BY <2>1 DEF Entries, EnterInvocation, counts
    <3> QED
      BY <1>5, <1>8, <3>1
  <2>2. ASSUME NEW op \in {"cstop", "cleanup", "unlink"}, NEW f \in Live(op)'
        PROVE  Own(f.arg)'
    <3>1. f \in Live(op) /\ id'[f.arg] = id[f.arg] /\ id[f.arg] # i
      BY <1>6, <1>12, <1>13, <2>2 DEF Stops
    <3>2. Own(f.arg)
      BY <2>2, <3>1 DEF Entries, InStops
    <3>3. \A j \in InvId : j # i => children'[j] = children[j]
      BY <1>5 DEF Id
    <3> QED
      BY <3>1, <3>2, <3>3 DEF Own
  <2> QED
    BY <1>7, <2>1, <2>2 DEF Entries, InStops
<1> QED
  BY <1>14, <1>15, <1>16, <1>17, <1>18, <1>19, <1>20, <1>21

LEMMA SpawnKeeps ==
  ASSUME Sound, Ties, NEW t \in Thread, Spawn(t)
  PROVE  Ties'
<1> USE DEF Sound, Ties
<1>1. /\ User(t) /\ UserCode(t) /\ CanTake(t, Parent) /\ invoked' = invoked
      /\ ist' = ist /\ sub' = sub /\ cut' = cut /\ stack' = stack
  BY DEF Spawn, User, parent, counts
<1>2. ~Stopping
  BY <1>1, ParentAwake DEF UserCode, At, Winding
<1>3. PICK i \in SpawnId, c \in Fresh : Registered(i) = {} /\ Create(c, i)
  BY DEF Spawn
<1>4. /\ c \in Child /\ c \notin Created /\ id'[c] = i /\ i # None /\ i \in Id /\ i \notin InvId
      /\ \A d \in Child : d # c => id'[d] = id[d] /\ cst'[d] = cst[d]
      /\ \A j \in Id : j # i => children'[j] = children[j]
      /\ \/ ist = "stopped" /\ children' = children /\ cst'[c] = "stopped"
         \/ ist # "stopped" /\ children'[i] = c /\ cst'[c] = cst[c]
      /\ Created' = Created \cup {c} /\ Created \subseteq Child
  <2>1. i \in Id /\ i \notin InvId
    BY ActorsAssumption DEF Id
  <2>2. Created \subseteq Child
    BY DEF Created
  <2> QED
    BY <1>2, <1>3, <2>1, <2>2, Creation
<1>5. \A op : Live(op)' = Live(op)
  BY <1>1 DEF Live, Calls
<1>6. /\ Live("stopkids")' = {} /\ ~Stopping' /\ (Closing' <=> ist = "stopped")
      /\ (Closing <=> ist = "stopped")
  BY <1>1, <1>2, <1>5 DEF Stopping, Closing
<1>7. /\ \A d \in Created : (Down(d) => Down(d)') /\ (Out(d) => Out(d)') /\ d # c
      /\ \A d \in Created : id[d] = i => Out(d)
  <2>1. \A d \in Created : id[d] = i => Out(d)
    BY <1>3 DEF Registered, Out, Down
  <2> QED
    BY <1>1, <1>4, <2>1, DownStable, OutStable
<1>8. \A op \in {"cstop", "cleanup", "unlink"} : \A f \in Live(op) :
         f.arg \in Created /\ id'[f.arg] = id[f.arg] /\ cst'[f.arg] = cst[f.arg]
  <2> TAKE op \in {"cstop", "cleanup", "unlink"}
  <2> TAKE f \in Live(op)
  <2>1. f.arg \in Created /\ f.arg \in Child
    BY OnChildren DEF OnChild
  <2> QED
    BY <1>4, <2>1
<1>9. UpInTable'
  <2> SUFFICES ASSUME NEW d \in Created \cup {c}, ~Out(d)', ist # "stopped"
               PROVE  children'[id'[d]] = d
    BY <1>4, <1>6 DEF UpInTable
  <2>1. CASE d = c
    BY <1>4, <2>1
  <2>2. CASE d \in Created
    <3>1. ~Out(d) /\ id'[d] = id[d] /\ id[d] # i /\ id[d] \in Id
      BY <1>4, <1>7, <2>2 DEF Data, Created
    <3> QED
      BY <1>4, <1>6, <2>2, <3>1 DEF UpInTable
  <2> QED
    BY <2>1, <2>2
<1>10. UpInvoked'
  <2> SUFFICES ASSUME NEW d \in Created \cup {c}, ~Down(d)', id'[d] \in InvId
               PROVE  invoked[id'[d]] = d
    BY <1>1, <1>4 DEF UpInvoked
  <2>1. d \in Created
    BY <1>4
  <2> QED
    BY <1>4, <1>7, <2>1 DEF UpInvoked
<1>11. AllDown'
  <2>1. ist = "stopped" => Out(c)'
    BY <1>4 DEF Down, Out
  <2> QED
    BY <1>1, <1>4, <1>7, <2>1 DEF AllDown
<1>12. UpInStop' /\ StopQuiet'
  BY <1>6 DEF UpInStop, StopQuiet
<1>13. Unlinked' /\ CleanedBefore'
  BY <1>5, <1>8 DEF Unlinked, CleanedBefore
<1>14. StopsAlone'
  <2> SUFFICES ASSUME NEW op \in {"cstop", "cleanup", "unlink"}, NEW f \in Live(op),
                      id'[f.arg] \in InvId, ist # "stopped"
               PROVE  invoked[id'[f.arg]] = None
    BY <1>1, <1>5, <1>6 DEF StopsAlone
  <2> QED
    BY <1>6, <1>8 DEF StopsAlone
<1>15. InvocationsUp'
  <2> SUFFICES ASSUME ist = "running", NEW j \in InvId, invoked[j] # None, NEW d, d = invoked[j]
               PROVE  /\ children'[j] = d
                      /\ d \notin cut
                      /\ \/ cst'[d] = "running"
                         \/ cst'[d] = "not_started" /\ \E f \in Live("cstart") : f.arg = d
    BY <1>1, <1>5, <1>6 DEF InvocationsUp
  <2>1. d \in Created /\ j \in Id /\ j # i
    BY <1>4, InTables
  <2>2. /\ children[j] = d /\ d \notin cut
        /\ \/ cst[d] = "running"
           \/ cst[d] = "not_started" /\ \E f \in Live("cstart") : f.arg = d
    BY <1>2 DEF InvocationsUp
  <2>3. cst'[d] = cst[d] /\ children'[j] = children[j]
    BY <1>4, <2>1
  <2> QED
    BY <2>2, <2>3
<1>16. Entries'
  <2>1. \A d \in Created : d \in Created' /\ id'[d] = id[d]
    BY <1>4, <1>7
  <2>2. lost' = lost /\ \A j \in InvId : children'[j] = children[j]
    BY <1>4 DEF Spawn, counts, Id
  <2>3. InStops' = InStops
    BY <1>5 DEF InStops
  <2> QED
    BY <1>6, <2>1, <2>2, <2>3, EntriesKept
<1> QED
  BY <1>9, <1>10, <1>11, <1>12, <1>13, <1>14, <1>15, <1>16

LEMMA TreeInit == Init => Tree
<1> SUFFICES ASSUME Init
             PROVE  Tree
  OBVIOUS
<1>1. \A op : Live(op) = {}
  BY DEF Init, Live, Calls
<1>2. Created = {} /\ InTable = {} /\ ist = "not_started" /\ ~sub
  BY DEF Init, Created, InTable
<1>3. Ties
  BY <1>1, <1>2 DEF Ties, UpInTable, UpInvoked, AllDown, UpInStop, Unlinked, CleanedBefore,
                    StopsAlone, Entries, InStops, StopQuiet, InvocationsUp, Init
<1>4. CleanedOnce
  BY DEF Init, CleanedOnce
<1>5. Asleep
  BY <1>1, <1>2 DEF Asleep, Init
<1> QED
  BY <1>3, <1>4, <1>5 DEF Tree

\* What a step is, for Tree.
LEMMA StepKinds ==
  ASSUME Sound, Tree, NEW t \in Thread, Work(t) \/ User(t)
  PROVE  \/ Plain(t)
         \/ StopSelf(t) \/ Unlink(t) \/ LeaveInvocation(t) \/ EnterInvocation(t) \/ Spawn(t)
<1>1. CASE Quiet(t) \/ UserCalls(t) \/ Raise(t) \/ Stop(t) \/ StopChild(t)
           \/ ChildStart(t) \/ ChildStop(t) \/ ChildStopped(t)
  BY <1>1, QuietPlain, CallsPlain, StopPlain, ChildPlain DEF Tree
<1> QED
  BY <1>1 DEF Work, User, Quiet, UserCalls

LEMMA TreeStep ==
  ASSUME Sound, Tree, [Next]_vars
  PROVE  Tree'
<1> USE DEF Tree
<1>1. CASE UNCHANGED vars
  BY <1>1 DEF vars, parent, tables, child, counts, Ties, UpInTable, UpInvoked, AllDown, UpInStop,
     Unlinked, CleanedBefore, StopsAlone, Entries, InStops, Own, StopQuiet, InvocationsUp,
     CleanedOnce, Asleep, InTable, Closing, Stopping, Out, Down, InStop, Created, Live, Calls
<1>2. ASSUME NEW t \in Thread, Work(t) \/ User(t)
      PROVE  Tree'
  <2>1. CASE Plain(t)
    BY <1>2, <2>1, PlainKeeps, CleanedOnceStep, AsleepStep
  <2>2. CASE StopSelf(t) \/ Unlink(t) \/ LeaveInvocation(t) \/ EnterInvocation(t) \/ Spawn(t)
    BY <1>2, <2>2, StopSelfKeeps, UnlinkKeeps, LeaveKeeps, EnterKeeps, SpawnKeeps,
       CleanedOnceStep, AsleepStep
  <2> QED
    BY <1>2, <2>1, <2>2, StepKinds
<1> QED
  BY <1>1, <1>2 DEF Next

LEMMA TreeAlways == Spec => [](Sound /\ Tree)
BY SoundInit, SoundStep, TreeInit, TreeStep, PTL DEF Spec

\* A parent that has stopped has no child that still runs: each one has
\* stopped, or a thread is in its stop(), or an exception of its cleanup has
\* cut that short, or it was spawned under the id of a child whose stop() had
\* yet to take that id out of the table, and did.  That holds of children that
\* are created meanwhile too, whichever threads stop the parent, stop a child
\* or spawn one; an invoked child is never lost in that way.
THEOREM ParentStopsTree == Spec => []StoppedTree
<1>1. Tree => StoppedTree
  BY DEF Tree, Ties, AllDown, Entries, StoppedTree, Out, Down, InStop
<1> QED
  BY <1>1, TreeAlways, PTL

-----------------------------------------------------------------------------
(* The invocations follow the configuration *)

LEMMA DueKeeps ==
  ASSUME ReconciliationDue, conf' = conf, invoked' = invoked,
         ist' = "running" /\ sub' => ist = "running" /\ sub, torn' = torn,
         \A op \in {"act", "sync", "recon", "leave", "enter"} : Live(op) \subseteq Live(op)'
  PROVE  ReconciliationDue'
<1> SUFFICES ASSUME ist' = "running", sub', ~torn', InTable # conf
             PROVE  Due'
  BY DEF ReconciliationDue, InTable
<1>1. Due
  BY DEF ReconciliationDue
<1>2. InTable' = InTable
  BY DEF InTable
<1> QED
  BY <1>1, <1>2 DEF Due

LEMMA ReconciliationDueWork ==
  ASSUME Sound, Tree, ReconciliationDue, NEW t \in Thread, Work(t)
  PROVE  ReconciliationDue'
<1> USE DEF Sound, Tree, Ties
<1> DEFINE passing == {"act", "sync", "recon", "leave", "enter"}
<1>0. /\ \A op : Live(op) \ {Top(t)} \subseteq Live(op)'
      /\ \A op : Top(t).op # op => Live(op) \subseteq Live(op)'
  BY LiveWork
<1>1. ASSUME NEW f, NEW new, Replaces(t, new), f \in new
      PROVE  f \in Live(f.op)'
  <2>1. {g \in new : g.op = f.op} \subseteq Live(f.op)'
    BY <1>1, LiveChanges DEF Replaces
  <2> QED
    BY <1>1, <2>1
<1>2. ASSUME Live("act")' # {} \/ Live("sync")' # {} \/ Live("recon")' # {}
             \/ \E f \in Live("leave")' \cup Live("enter")' : f.changed
      PROVE  ReconciliationDue'
  BY <1>2 DEF ReconciliationDue, Due
<1>3. ASSUME ~(ist' = "running" /\ sub' /\ ~torn')
      PROVE  ReconciliationDue'
  BY <1>3 DEF ReconciliationDue
<1>4. CASE Send(t) \/ InterpreterSend(t) \/ Return(t) \/ Stop(t) \/ StopChild(t) \/ ChildStart(t)
           \/ ChildStarted(t) \/ ChildNotify(t) \/ ChildStop(t) \/ ChildStopped(t) \/ Unlink(t)
  <2>1. Top(t).op \notin passing
    BY <1>4, TopFormed DEF Send, InterpreterSend, Return, Stop, StopChild, ChildStart,
           ChildStarted, ChildNotify, ChildStop, ChildStopped, Unlink
  <2>2. conf' = conf /\ invoked' = invoked /\ ist' = ist /\ torn' = torn /\ (sub' => sub)
    BY <1>4 DEF Send, InterpreterSend, Return, Stop, StopChild, ChildStart,
           ChildStarted, ChildNotify, ChildStop, ChildStopped, Unlink, parent, tables, counts
  <2> QED
    BY <1>0, <2>1, <2>2, DueKeeps
<1>5. CASE Drain(t)
  <2>1. invoked' = invoked /\ ist' = ist /\ torn' = torn /\ sub' = sub /\ Top(t).op = "drain"
    BY <1>5, TopFormed DEF Drain, tables
  <2>2. CASE Replaces(t, {Frame("act", None)})
    <3>1. Frame("act", None).op = "act"
      BY Calling DEF Labels
    <3>2. Frame("act", None) \in Live("act")'
      BY <1>1, <2>2, <3>1
    <3> QED
      BY <1>2, <3>2
  <2>3. CASE conf' = conf
    BY <1>0, <2>1, <2>3, DueKeeps
  <2> QED
    BY <1>5, <2>2, <2>3, Effects
<1>6. CASE Notify(t)
  <2>1. ist' = ist /\ sub' = sub
    BY <1>6 DEF Notify, parent
  <2>2. CASE Replaces(t, {Frame("drain", None), Frame("sync", None)})
    <3>1. Frame("sync", None).op = "sync"
      BY Calling DEF Labels
    <3>2. Frame("sync", None) \in Live("sync")'
      BY <1>1, <2>2, <3>1
    <3> QED
      BY <1>2, <3>2
  <2>3. CASE ~(ist = "running" /\ sub)
    BY <1>3, <2>1, <2>3
  <2> QED
    BY <1>6, <2>2, <2>3, Effects
<1>7. CASE Start(t)
  <2>1. conf' = conf /\ invoked' = invoked /\ torn' = torn /\ sub' = sub /\ Top(t).op = "start"
    BY <1>7, TopFormed DEF Start, tables, counts
  <2>2. CASE ist' = ist
    BY <1>0, <2>1, <2>2, DueKeeps
  <2>3. CASE ~sub
    BY <1>3, <2>1, <2>3
  <2> QED
    BY <1>7, <2>2, <2>3, Effects
<1>8. CASE Subscribe(t)
  <2>1. ist' = ist
    BY <1>8 DEF Subscribe
  <2>2. CASE Replaces(t, {Holding("return", Parent), Frame("sync", None)})
    <3>1. Frame("sync", None).op = "sync"
      BY Calling DEF Labels
    <3>2. Frame("sync", None) \in Live("sync")'
      BY <1>1, <2>2, <3>1
    <3> QED
      BY <1>2, <3>2
  <2>3. CASE ist # "running"
    BY <1>3, <2>1, <2>3
  <2> QED
    BY <1>8, <2>2, <2>3, Effects
<1>9. CASE StopSelf(t)
  BY <1>3, <1>9 DEF StopSelf
<1>10. CASE Sync(t)
  <2>1. ist' = ist /\ sub' = sub /\ At(t, "sync") /\ CanTake(t, Parent)
    BY <1>10 DEF Sync, parent
  <2>2. CASE Replaces(t, {Holding("recon", Parent)})
    <3>1. Holding("recon", Parent).op = "recon"
      BY PassEffects
    <3>2. Holding("recon", Parent) \in Live("recon")'
      BY <1>1, <2>2, <3>1
    <3> QED
      BY <1>2, <3>2
  <2>3. CASE Stopping \/ ist # "running"
    BY <1>3, <2>1, <2>3 DEF StopQuiet
  <2>4. CASE Syncing
    <3>0. PICK op \in {"recon", "leave", "enter"} : Live(op) # {}
      BY <2>4 DEF Syncing
    <3>1. PICK f : f \in Live(op)
      BY <3>0
    <3>2. PICK u \in Thread : f \in Calls(u) /\ f.op = op
      BY <3>1 DEF Live
    <3>3. PICK k \in DOMAIN stack[u] : f = stack[u][k]
      BY <3>2 DEF Calls
    <3>4. f.lock = Parent
      BY <3>2, <3>3 DEF Frames, Formation, Formed
    <3>5. u = t
      BY <2>1, <3>2, <3>4 DEF CanTake, Holds
    <3>6. k # Len(stack[t])
      BY <2>1, <3>2, <3>3, <3>5 DEF At, Top
    <3>7. op # "recon"
      BY <3>2, <3>3, <3>5, <3>6 DEF Frames, Order, Resting
    <3>8. f.changed
      BY <3>2, <3>3, <3>5, <3>6, <3>7 DEF Frames, PassRecords
    <3>9. f \in Live(op)'
      BY <1>0, <2>1, <3>1, TopLive
    <3> QED
      BY <1>2, <3>7, <3>8, <3>9
  <2> QED
    BY <1>10, <2>2, <2>3, <2>4, PassEffects
<1>11. CASE Reconcile(t)
  <2>1. ist' = ist /\ sub' = sub /\ conf' = conf /\ InTable' = InTable
    BY <1>11 DEF Reconcile, parent, tables, InTable
  <2>2. CASE Stopping \/ ist # "running"
    BY <1>3, <2>1, <2>2 DEF StopQuiet
  <2>3. CASE Replaces(t, {PassFrame})
    <3>1. PassFrame.op = "leave" /\ PassFrame.ids = conf /\ PassFrame.gone = InTable \ conf
      BY PassEffects DEF InTable
    <3>2. PICK f : f = PassFrame
      OBVIOUS
    <3>3. f \in Live("leave")'
      BY <1>1, <2>3, <3>1, <3>2
    <3>4. f.ids = conf' /\ f.gone = InTable' \ conf'
      BY <2>1, <3>1, <3>2
    <3> QED
      BY <3>3, <3>4 DEF ReconciliationDue, Due
  <2> QED
    BY <1>11, <2>2, <2>3, PassEffects
<1>12. CASE LeaveInvocation(t)
  <2>1. PICK i \in InvId : Leaves(t, i)
    BY <1>12, PassEffects
  <2>2. PICK f : f = LeftFrame(t, i)
    OBVIOUS
  <2>3. f \in Live("leave")' /\ f.changed
    BY <1>1, <2>1, <2>2 DEF Leaves
  <2> QED
    BY <1>2, <2>3
<1>13. CASE EnterInvocation(t)
  <2>1. PICK i \in InvId, c \in Fresh : Enters(t, i, c)
    BY <1>13, PassEffects
  <2>2. PICK f : f = EnteredFrame(t, i)
    OBVIOUS
  <2>3. f \in Live("enter")' /\ f.changed
    BY <1>1, <2>1, <2>2 DEF Enters
  <2> QED
    BY <1>2, <2>3
<1>14. CASE Resolve(t) \/ EndPass(t)
  <2>1. /\ ist' = ist /\ sub' = sub /\ conf' = conf /\ InTable' = InTable /\ torn' = torn
    BY <1>14 DEF Resolve, EndPass, parent, tables, counts, InTable
  <2>2. PICK op \in {"leave", "enter"} : Top(t).op = op
    BY <1>14, TopFormed DEF Resolve, EndPass
  <2>3. /\ Live("act") \subseteq Live("act")' /\ Live("sync") \subseteq Live("sync")'
        /\ Live("recon") \subseteq Live("recon")'
        /\ \A f \in Live("leave") : f \in Live("leave")' \/ f = Top(t)
        /\ \A f \in Live("enter") : f \in Live("enter")' \/ f = Top(t)
    BY <1>0, <2>2
  <2>4. \A f \in Live("leave") \cup Live("enter") : f = Top(t) => f \in Live(op)
    BY <2>2 DEF Live
  <2> SUFFICES ASSUME ist = "running", sub, ~torn, InTable # conf
               PROVE  Due'
    BY <2>1 DEF ReconciliationDue
  <2>5. Due
    BY DEF ReconciliationDue
  <2>6. CASE Resolve(t)
    <3>1. PICK f : f = ResolvedFrame(t)
      OBVIOUS
    <3>2. /\ Top(t).gone = {} /\ Replaces(t, {f}) /\ f.op = "enter"
          /\ f.ids = {i \in Top(t).ids : invoked[i] = None} /\ f.changed = Top(t).changed
          /\ Top(t).op = "leave"
      BY <2>6, <3>1, PassEffects, TopFormed
    <3>3. f \in Live("enter")'
      BY <1>1, <3>2
    <3>4. Top(t) \notin Live("enter")
      BY <3>2 DEF Live
    <3>5. CASE Top(t).changed
      BY <3>2, <3>3, <3>5 DEF Due
    <3>6. CASE Top(t).ids = conf /\ Top(t).gone = InTable \ conf
      <4>1. f.ids = conf' \ InTable' /\ InTable' \subseteq conf'
        <5>1. conf \subseteq InvId
          BY DEF Data
        <5> QED
          BY <2>1, <3>2, <3>6, <5>1 DEF InTable
      <4> QED
        BY <3>3, <4>1 DEF Due
    <3>7. CASE ~Top(t).changed /\ ~(Top(t).ids = conf /\ Top(t).gone = InTable \ conf)
      BY <2>1, <2>3, <2>5, <3>4, <3>7 DEF Due
    <3> QED
      BY <3>5, <3>6, <3>7
  <2>7. CASE EndPass(t)
    <3>1. Top(t).op = "enter" /\ Top(t).ids = {}
      BY <2>7, PassEffects, TopFormed
    <3>2. CASE Replaces(t, {Holding("recon", Parent)})
      <4>1. Holding("recon", Parent).op = "recon"
        BY PassEffects
      <4>2. Holding("recon", Parent) \in Live("recon")'
        BY <1>1, <3>2, <4>1
      <4> QED
        BY <4>2 DEF Due
    <3>3. CASE ~Top(t).changed
      <4>1. ~(Top(t).ids = conf \ InTable /\ InTable \subseteq conf)
        BY <3>1
      <4>2. Top(t) \notin Live("leave")
        BY <3>1 DEF Live
      <4> QED
        BY <2>1, <2>3, <2>5, <3>3, <4>1, <4>2 DEF Due
    <3> QED
      BY <2>7, <3>2, <3>3, PassEffects
  <2> QED
    BY <1>14, <2>6, <2>7
<1> QED
  BY <1>4, <1>5, <1>6, <1>7, <1>8, <1>9, <1>10, <1>11, <1>12, <1>13, <1>14 DEF Work

LEMMA ReconciliationDueStep ==
  ASSUME Sound, Tree, ReconciliationDue, [Next]_vars
  PROVE  ReconciliationDue'
<1>1. CASE UNCHANGED vars
  BY <1>1 DEF vars, parent, tables, counts, ReconciliationDue, Due, InTable, Live, Calls
<1>2. ASSUME NEW t \in Thread, UserCalls(t) \/ Spawn(t)
      PROVE  ReconciliationDue'
  <2>1. \A op : Live(op) \subseteq Live(op)'
    <3>1. CASE Spawn(t)
      BY <3>1 DEF Spawn, Live, Calls
    <3>2. CASE UserCalls(t)
      <4>1. PICK f : Changes(t, {}, {f})
        BY <3>2, LiveCall DEF Sound
      <4> QED
        BY <4>1, LiveChanges
    <3> QED
      BY <1>2, <3>1, <3>2
  <2>2. conf' = conf /\ invoked' = invoked /\ ist' = ist /\ sub' = sub /\ torn' = torn
    BY <1>2 DEF UserCalls, CallSend, CallStart, CallStop, CallChild, ChildChanges, Spawn,
       parent, tables, counts
  <2> QED
    BY <2>1, <2>2, DueKeeps
<1>3. ASSUME NEW t \in Thread, Raise(t)
      PROVE  ReconciliationDue'
  BY <1>3 DEF Raise, ReconciliationDue
<1> QED
  BY <1>1, <1>2, <1>3, ReconciliationDueWork DEF Next, User, UserCalls

LEMMA ReconciliationDueAlways == Spec => []ReconciliationDue
<1>1. Init => ReconciliationDue
  BY DEF Init, ReconciliationDue
<1>2. Sound /\ Tree /\ ReconciliationDue /\ [Next]_vars => ReconciliationDue'
  BY ReconciliationDueStep
<1> QED
  BY <1>1, <1>2, TreeAlways, PTL DEF Spec

\* When every call has returned, the running children that states have invoked
\* are those of the configuration, each under its id in both tables; unless
\* user code has raised and no pass has been made since.
THEOREM InvocationsFollow == Spec => []InvocationsFollowConfiguration
<1>1. Tree /\ ReconciliationDue => InvocationsFollowConfiguration
  <2> SUFFICES ASSUME Tree, ReconciliationDue, Idle, ist = "running", sub, ~torn
               PROVE  /\ \A i \in InvId : invoked[i] # None <=> i \in conf
                      /\ \A i \in conf : children[i] = invoked[i]
                      /\ \A c \in Created : id[c] \in InvId =>
                            (cst[c] = "running" /\ c \notin cut <=> invoked[id[c]] = c)
    BY DEF InvocationsFollowConfiguration
  <2> USE DEF Tree, Ties
  <2>1. \A op : Live(op) = {}
    BY DEF Idle, Live, Calls
  <2>2. InTable = conf
    BY <2>1 DEF ReconciliationDue, Due
  <2>3. \A i \in InvId : invoked[i] # None =>
           children[i] = invoked[i] /\ cst[invoked[i]] = "running" /\ invoked[i] \notin cut
    BY <2>1 DEF InvocationsUp, Stopping
  <2>4. ASSUME NEW c \in Created, id[c] \in InvId
        PROVE  cst[c] = "running" /\ c \notin cut <=> invoked[id[c]] = c
    <3>1. c # None
      BY ActorsAssumption DEF Created
    <3>2. cst[c] = "running" /\ c \notin cut => invoked[id[c]] = c
      BY <2>1, <2>4 DEF UpInvoked, Down, InStop
    <3> QED
      BY <2>3, <2>4, <3>1, <3>2
  <2>5. \A i \in conf : children[i] = invoked[i]
    BY <2>2, <2>3 DEF InTable
  <2>6. \A i \in InvId : invoked[i] # None <=> i \in conf
    BY <2>2 DEF InTable
  <2> QED
    BY <2>4, <2>5, <2>6
<1> QED
  BY <1>1, TreeAlways, ReconciliationDueAlways, PTL

-----------------------------------------------------------------------------
(* A completion reaches the parent once *)

\* A completion is carried by the call on top.
LEMMA CarriesOnTop ==
  ASSUME Sound, NEW t \in Thread, NEW f \in Calls(t), f.op \in {"send", "isend"}
  PROVE  stack[t] # <<>> /\ f = Top(t) /\ At(t, f.op)
<1> USE DEF Sound, Frames
<1>1. PICK k \in DOMAIN stack[t] : f = stack[t][k]
  BY DEF Calls
<1>2. k = Len(stack[t])
  BY <1>1 DEF Order, Resting
<1>3. stack[t] # <<>>
  BY <1>1
<1> QED
  BY <1>1, <1>2, <1>3 DEF Top, At

\* A call on t's stack comes to carry a completion only where the listener
\* has been told for the first time.
LEMMA Carrying ==
  ASSUME Sound, NEW t \in Thread, Work(t) \/ User(t),
         NEW u \in Thread, NEW c \in Child, Carries(u, c)'
  PROVE  \/ Carries(u, c) /\ ~(InterpreterSend(t) /\ u = t)
         \/ /\ u = t /\ ChildNotify(t) /\ ~told[c]
            /\ told' = [told EXCEPT ![c] = TRUE]
<1> USE DEF Sound
<1>0. c # None
  BY ActorsAssumption
<1>1. PICK f \in Calls(u)' : f.op \in {"send", "isend"} /\ f.arg = c
  BY DEF Carries
<1>2. CASE f \in Calls(u)
  <2>1. Carries(u, c) /\ f = Top(u) /\ f.op \in {"send", "isend"}
    BY <1>1, <1>2, CarriesOnTop DEF Carries
  <2>2. CASE InterpreterSend(t) /\ u = t
    <3>1. Frame("drain", None).op = "drain"
      BY Calling DEF Labels
    <3>2. Calls(t)' \subseteq {g \in Calls(t) : g.op \in Resting} \cup {Frame("drain", None)}
      BY <2>2, Effects DEF Replaces
    <3> QED
      BY <1>1, <2>2, <3>1, <3>2 DEF Resting
  <2> QED
    BY <2>1, <2>2
<1>3. CASE f \notin Calls(u)
  <2>1. CASE Work(t)
    <3>1. PICK new \in SUBSET Call :
             Replaces(t, new) /\ \A g \in new : <<Top(t).op, g.op>> \in Follows
      BY <2>1, Following
    <3>2. u = t
      BY <1>3, <3>1 DEF Replaces, Changes
    <3>3. f \in new
      BY <1>1, <1>3, <3>1, <3>2 DEF Replaces
    <3>4. <<Top(t).op, f.op>> \in Follows
      BY <3>1, <3>3
    <3>5. (Top(t).op = "cnotify" /\ f.op = "send") \/ (Top(t).op = "send" /\ f.op = "isend")
      BY <1>1, <3>4 DEF Follows
    <3>6. stack[t] # <<>>
      BY <3>1 DEF Replaces
    <3>7. At(t, Top(t).op)
      BY <3>6 DEF At
    <3>8. \A o, p \in Labels : At(t, o) /\ At(t, p) => o = p
      BY DEF At
    <3>9. (Top(t).op = "cnotify" => ChildNotify(t)) /\ (Top(t).op = "send" => Send(t))
      BY <2>1, <3>7, <3>8 DEF Work, Labels, Send, InterpreterSend, Drain, Notify, Start, Subscribe,
         Return, Stop, StopChild, StopSelf, ChildStart, ChildStarted, ChildNotify, ChildStop,
         ChildStopped, Unlink, Sync, Reconcile, LeaveInvocation, Resolve, EnterInvocation, EndPass
    <3>10. CASE Top(t).op = "send"
      <4>1. \/ Calls(t)' \subseteq {g \in Calls(t) : g.op \in Resting} \cup {}
            \/ Calls(t)' \subseteq {g \in Calls(t) : g.op \in Resting} \cup {Frame("isend", Top(t).arg)}
        BY <3>9, <3>10, Effects DEF Replaces
      <4>2. f = Frame("isend", Top(t).arg)
        BY <1>1, <1>3, <3>2, <4>1
      <4>3. Top(t).arg \in Child \cup {None} /\ Top(t) \in Calls(t)
        BY <3>7, <3>10, TopFormed, TopLive
      <4>4. Top(t).arg = c
        BY <1>1, <4>2, <4>3, Calling DEF Labels
      <4>5. ~InterpreterSend(t)
        BY <3>7, <3>8, <3>10 DEF InterpreterSend, Labels
      <4> QED
        BY <3>2, <3>10, <4>3, <4>4, <4>5 DEF Carries
    <3>11. CASE Top(t).op = "cnotify"
      <4>1. Top(t).arg \in Child
        BY <3>7, <3>11, TopChild DEF OnChild
      <4>2. \/ Calls(t)' \subseteq {g \in Calls(t) : g.op \in Resting} \cup {}
            \/ /\ Calls(t)' \subseteq {g \in Calls(t) : g.op \in Resting} \cup {Frame("send", Top(t).arg)}
               /\ ~told[Top(t).arg] /\ told' = [told EXCEPT ![Top(t).arg] = TRUE]
        BY <3>9, <3>11, ChildEffects DEF Replaces
      <4>3. f = Frame("send", Top(t).arg) /\ ~told[Top(t).arg]
            /\ told' = [told EXCEPT ![Top(t).arg] = TRUE]
        BY <1>1, <1>3, <3>2, <4>2
      <4>4. Top(t).arg = c
        BY <1>1, <4>1, <4>3, Calling DEF Labels
      <4> QED
        BY <3>2, <3>9, <3>11, <4>3, <4>4
    <3> QED
      BY <3>5, <3>10, <3>11
  <2>2. CASE UserCalls(t)
    <3>1. PICK op \in UserOps, arg \in Created \cup {None} :
             /\ Frame(op, arg).op = op /\ Frame(op, arg).arg = arg
             /\ Changes(t, {}, {Frame(op, arg)})
             /\ op \in {"send", "isend"} => arg = None
      BY <2>2, LiveCall
    <3>2. f = Frame(op, arg)
      BY <1>3, <3>1 DEF Changes
    <3> QED
      BY <1>0, <1>1, <3>1, <3>2
  <2>3. CASE Spawn(t)
    BY <1>3, <2>3 DEF Spawn, Calls
  <2>4. CASE Raise(t)
    <3>1. Calls(t)' = {} /\ \A v \in Thread \ {t} : Calls(v)' = Calls(v)
      BY <2>4, LiveRaise
    <3> QED
      BY <1>3, <3>1
  <2> QED
    BY <2>1, <2>2, <2>3, <2>4 DEF User, UserCalls
<1> QED
  BY <1>2, <1>3

\* What a step does to the history of the completions.
LEMMA Telling ==
  ASSUME Sound, NEW t \in Thread, Work(t) \/ User(t)
  PROVE  /\ told' = told \/ ChildNotify(t)
         /\ \A c \in Child : told[c] => told'[c]
         /\ \/ delivered' = delivered
            \/ /\ InterpreterSend(t) /\ At(t, "isend") /\ ist = "running"
               /\ delivered' = [c \in Child |-> delivered[c] + IF Top(t).arg = c THEN 1 ELSE 0]
<1> USE DEF Sound
<1>1. told' = told \/ ChildNotify(t)
  BY DEF Work, User, parent, tables, child, counts, Send, InterpreterSend, Drain, Notify, Start, Subscribe,
         Return, Stop, StopChild, StopSelf, ChildStart, ChildStarted, ChildStop,
         ChildStopped, Unlink, Sync, Reconcile, LeaveInvocation, Resolve, EnterInvocation, EndPass,
         CallSend, CallStart, CallStop, CallChild, ChildChanges, Spawn, Raise
<1>2. ChildNotify(t) => told' = told \/ told' = [told EXCEPT ![Top(t).arg] = TRUE]
  BY DEF ChildNotify
<1>3. \A c \in Child : told[c] => told'[c]
  BY <1>1, <1>2 DEF Data
<1>4. \/ delivered' = delivered
      \/ /\ InterpreterSend(t) /\ At(t, "isend") /\ ist = "running"
         /\ delivered' = [c \in Child |-> delivered[c] + IF Top(t).arg = c THEN 1 ELSE 0]
  <2>1. delivered' = delivered \/ InterpreterSend(t)
    BY DEF Work, User, parent, tables, child, counts, Send, Drain, Notify, Start, Subscribe,
         Return, Stop, StopChild, StopSelf, ChildStart, ChildStarted, ChildStop, ChildNotify,
         ChildStopped, Unlink, Sync, Reconcile, LeaveInvocation, Resolve, EnterInvocation, EndPass,
         CallSend, CallStart, CallStop, CallChild, ChildChanges, Spawn, Raise
  <2>2. InterpreterSend(t) =>
           \/ delivered' = delivered
           \/ /\ At(t, "isend") /\ ist = "running"
              /\ delivered' = [c \in Child |-> delivered[c] + IF Top(t).arg = c THEN 1 ELSE 0]
    BY DEF InterpreterSend
  <2> QED
    BY <2>1, <2>2
<1> QED
  BY <1>1, <1>3, <1>4

LEMMA ToldOnceStep ==
  ASSUME Sound, ToldOnce, [Next]_vars
  PROVE  ToldOnce'
<1> USE DEF Sound
<1>1. CASE UNCHANGED vars
  BY <1>1 DEF vars, child, counts, ToldOnce, Carries, Calls
<1>2. ASSUME NEW t \in Thread, Work(t) \/ User(t)
      PROVE  ToldOnce'
  <2> SUFFICES ASSUME NEW c \in Child
               PROVE  /\ delivered'[c] <= 1
                      /\ \A u \in Thread : Carries(u, c)' => told'[c] /\ delivered'[c] = 0
                      /\ ~told'[c] => delivered'[c] = 0
                      /\ \A u, v \in Thread : Carries(u, c)' /\ Carries(v, c)' => u = v
    BY DEF ToldOnce
  <2>1. /\ delivered[c] <= 1 /\ delivered[c] \in Nat
        /\ \A u \in Thread : Carries(u, c) => told[c] /\ delivered[c] = 0
        /\ ~told[c] => delivered[c] = 0
        /\ \A u, v \in Thread : Carries(u, c) /\ Carries(v, c) => u = v
    BY DEF ToldOnce, Data
  <2>2. \/ delivered'[c] = delivered[c]
        \/ InterpreterSend(t) /\ Carries(t, c) /\ delivered'[c] = delivered[c] + 1
    <3>1. CASE delivered' = delivered
      BY <3>1
    <3>2. CASE /\ InterpreterSend(t) /\ At(t, "isend")
               /\ delivered' = [d \in Child |-> delivered[d] + IF Top(t).arg = d THEN 1 ELSE 0]
      <4>1. delivered'[c] = delivered[c] + IF Top(t).arg = c THEN 1 ELSE 0
        BY <3>2
      <4>2. CASE Top(t).arg = c
        <5>1. Carries(t, c)
          BY <3>2, <4>2, TopLive DEF Carries
        <5> QED
          BY <3>2, <4>1, <4>2, <5>1
      <4>3. CASE Top(t).arg # c
        BY <2>1, <4>1, <4>3
      <4> QED
        BY <4>2, <4>3
    <3> QED
      BY <1>2, <3>1, <3>2, Telling
  <2>3. \A u \in Thread : Carries(u, c)' =>
           \/ Carries(u, c) /\ ~(InterpreterSend(t) /\ u = t)
           \/ u = t /\ ChildNotify(t) /\ ~told[c] /\ told' = [told EXCEPT ![c] = TRUE]
    BY <1>2, Carrying
  <2>4. told[c] => told'[c]
    BY <1>2, Telling
  <2>5. delivered'[c] <= 1
    BY <2>1, <2>2
  <2>6. ~told'[c] => delivered'[c] = 0
    BY <2>1, <2>2, <2>4
  <2>7. ASSUME NEW u \in Thread, Carries(u, c)'
        PROVE  told'[c] /\ delivered'[c] = 0
    <3>1. CASE Carries(u, c) /\ ~(InterpreterSend(t) /\ u = t)
      BY <2>1, <2>2, <2>4, <3>1
    <3>2. CASE u = t /\ ChildNotify(t) /\ ~told[c] /\ told' = [told EXCEPT ![c] = TRUE]
      <4>1. told'[c]
        BY <3>2 DEF Data
      <4>2. delivered'[c] = delivered[c]
        BY <2>1, <2>2, <3>2
      <4> QED
        BY <2>1, <3>2, <4>1, <4>2
    <3> QED
      BY <2>3, <2>7, <3>1, <3>2
  <2>8. \A u, v \in Thread : Carries(u, c)' /\ Carries(v, c)' => u = v
    BY <2>1, <2>3
  <2> QED
    BY <2>5, <2>6, <2>7, <2>8
<1> QED
  BY <1>1, <1>2 DEF Next

LEMMA ClosingStable ==
  ASSUME Sound, Tree, NEW t \in Thread, Work(t) \/ User(t), Closing
  PROVE  Closing'
<1> USE DEF Sound
<1>1. CASE Plain(t)
  BY <1>1 DEF Plain, Closing
<1>2. CASE StopSelf(t)
  BY <1>2 DEF StopSelf, Closing
<1>3. CASE Spawn(t)
  BY <1>3 DEF Spawn, parent, Closing, Stopping, Live, Calls
<1>4. CASE Unlink(t) \/ LeaveInvocation(t) \/ EnterInvocation(t)
  <2>0. At(t, "unlink") \/ At(t, "leave") \/ At(t, "enter")
    BY <1>4 DEF Unlink, LeaveInvocation, EnterInvocation
  <2>1. Work(t) /\ Top(t).op # "stopkids" /\ ist' = ist
    <3>1. Top(t).op # "stopkids"
      BY <2>0 DEF At
    <3>2. ist' = ist
      BY <1>4 DEF Unlink, LeaveInvocation, EnterInvocation, parent
    <3> QED
      BY <1>4, <3>1, <3>2 DEF Work
  <2>2. Live("stopkids") \subseteq Live("stopkids")'
    BY <2>1, LiveWork
  <2> QED
    BY <2>1, <2>2 DEF Closing, Stopping
<1> QED
  BY <1>1, <1>2, <1>3, <1>4, StepKinds

\* A listener that hears a child now heard it before, or the child is new.
LEMMA Hearing ==
  ASSUME Sound, NEW t \in Thread, Work(t) \/ User(t), NEW c \in Child, listening'[c]
  PROVE  \/ listening[c]
         \/ snap'[c] = "active" /\ ~told'[c]
<1> USE DEF Sound
<1>1. CASE c \in Created
  BY <1>1, Keeps
<1>2. CASE c \notin Created
  <2>1. snap[c] = "active" /\ ~told[c] /\ ~listening[c]
    BY <1>2 DEF Untouched, Created
  <2>2. EnterInvocation(t) => snap' = snap /\ told' = told
    BY DEF EnterInvocation
  <2>3. EnterInvocation(t) \/ ChildStopped(t) \/ listening' = listening
    BY DEF Work, User, parent, tables, child, counts, Send, InterpreterSend, Drain, Notify, Start,
         Subscribe, Return, Stop, StopChild, StopSelf, ChildStart, ChildStarted, ChildStop,
         ChildNotify, Unlink, Sync, Reconcile, LeaveInvocation, Resolve, EndPass,
         CallSend, CallStart, CallStop, CallChild, ChildChanges, Spawn, Raise
  <2>4. ChildStopped(t) => listening' = [listening EXCEPT ![Top(t).arg] = FALSE]
    BY DEF ChildStopped
  <2>5. ~ChildStopped(t)
    BY <2>1, <2>4 DEF Data
  <2> QED
    BY <2>1, <2>2, <2>3, <2>5
<1> QED
  BY <1>1, <1>2

\* A child that settles is about to notify.
LEMMA Notifying ==
  ASSUME Sound, NEW t \in Thread, Work(t) \/ User(t), NEW c \in Child
  PROVE  \/ snap'[c] = snap[c]
         \/ \E f \in Live("cnotify")' : f.arg = c
<1> USE DEF Sound
<1>1. CASE snap' = snap
  BY <1>1
<1>2. CASE ChildStarted(t)
  <2>1. PICK d : d = Top(t).arg
    OBVIOUS
  <2>2. d \in Child /\ (snap' = [snap EXCEPT ![d] = "settled"] \/ snap' = snap)
    BY <1>2, <2>1, TopChild DEF ChildStarted, OnChild, Resolves, StaysActive
  <2> DEFINE back == Holding("return", d)
             notify == Frame("cnotify", d)
  <2>3. Replaces(t, {back, notify}) /\ notify.op = "cnotify" /\ notify.arg = d
    <3>1. Replaces(t, {back, notify})
      BY <1>2, <2>1, ChildEffects
    <3>2. notify.op = "cnotify" /\ notify.arg = d
      BY <2>2, Calling DEF Labels
    <3> QED
      BY <3>1, <3>2
  <2> HIDE DEF back, notify
  <2>4. {f \in {back, notify} : f.op = "cnotify"} \subseteq Live("cnotify")'
    BY <2>3, LiveChanges DEF Replaces
  <2> QED
    BY <2>2, <2>3, <2>4 DEF Data
<1>3. CASE ChildChanges(t)
  <2>1. PICK d \in Created :
           (Settles(d) \/ snap' = snap) /\ Pushes(t, Frame("cnotify", d))
    BY <1>3 DEF ChildChanges, Emits
  <2>2. Frame("cnotify", d) \in Call /\ Frame("cnotify", d).op = "cnotify"
        /\ Frame("cnotify", d).arg = d
    BY Calling DEF Labels, Created
  <2>3. Changes(t, {}, {Frame("cnotify", d)})
    BY <2>1, <2>2, PushesChanges DEF Frames
  <2>4. {f \in {Frame("cnotify", d)} : f.op = "cnotify"} \subseteq Live("cnotify")'
    BY <2>3, LiveChanges
  <2> QED
    BY <2>1, <2>2, <2>4 DEF Data, Settles
<1> QED
  BY <1>1, <1>2, <1>3 DEF Work, User, parent, tables, child, counts, Send, InterpreterSend, Drain,
         Notify, Start, Subscribe, Return, Stop, StopChild, StopSelf, ChildStart, ChildStop,
         ChildNotify, ChildStopped, Unlink, Sync, Reconcile, LeaveInvocation, Resolve, EndPass,
         EnterInvocation, CallSend, CallStart, CallStop, CallChild, Spawn, Raise

LEMMA NotifyPersists ==
  ASSUME Sound, NEW t \in Thread, Work(t) \/ User(t), NEW f \in Live("cnotify")
  PROVE  f \in Live("cnotify")' \/ (ChildNotify(t) /\ f = Top(t))
<1> USE DEF Sound
<1>1. CASE Work(t)
  <2>1. Live("cnotify") \ {Top(t)} \subseteq Live("cnotify")'
        /\ (Top(t).op # "cnotify" => Live("cnotify") \subseteq Live("cnotify")')
    BY <1>1, LiveWork
  <2>2. Top(t).op = "cnotify" => ChildNotify(t)
    <3>1. PICK new : Replaces(t, new)
      BY <1>1, Following
    <3>2. At(t, Top(t).op)
      BY <3>1 DEF Replaces, At
    <3>3. \A o, p \in Labels : At(t, o) /\ At(t, p) => o = p
      BY DEF At
    <3> QED
      BY <1>1, <3>2, <3>3 DEF Work, Labels, Send, InterpreterSend, Drain, Notify, Start, Subscribe,
         Return, Stop, StopChild, StopSelf, ChildStart, ChildStarted, ChildNotify, ChildStop,
         ChildStopped, Unlink, Sync, Reconcile, LeaveInvocation, Resolve, EnterInvocation, EndPass
  <2> QED
    BY <2>1, <2>2
<1>2. CASE UserCalls(t)
  <2>1. PICK g : Changes(t, {}, {g})
    BY <1>2, LiveCall
  <2> QED
    BY <2>1, LiveChanges
<1>3. CASE Spawn(t)
  BY <1>3 DEF Spawn, Live, Calls
<1>4. CASE Raise(t)
  BY <1>4, LiveRaise DEF Passing, Labels, Resting
<1> QED
  BY <1>1, <1>2, <1>3, <1>4 DEF User, UserCalls

\* A call that carries a completion goes on with it, delivers it, or finds the
\* parent stopped.
LEMMA CarriesOn ==
  ASSUME Sound, Tree, ToldOnce, NEW t \in Thread, Work(t) \/ User(t),
         NEW u \in Thread, NEW c \in Child, listening[c], Carries(u, c)
  PROVE  Carries(u, c)' \/ delivered'[c] = 1 \/ Closing
<1> USE DEF Sound, Tree
<1>1. PICK f \in Calls(u) : f.op \in {"send", "isend"} /\ f.arg = c
  BY DEF Carries
<1>2. stack[u] # <<>> /\ f = Top(u) /\ At(u, f.op)
  BY <1>1, CarriesOnTop
<1>3. CASE f \in Calls(u)'
  BY <1>1, <1>3 DEF Carries
<1>4. CASE f \notin Calls(u)'
  <2>1. Work(t) /\ u = t
    <3>1. CASE UserCalls(t)
      <4>1. PICK g : Changes(t, {}, {g})
        BY <3>1, LiveCall
      <4> QED
        BY <1>4, <4>1 DEF Changes
    <3>2. CASE Spawn(t)
      BY <1>4, <3>2 DEF Spawn, Calls
    <3>3. CASE Raise(t)
      <4>1. \A v \in Thread \ {t} : Calls(v)' = Calls(v)
        BY <3>3, LiveRaise
      <4>2. u # t
        BY <1>1, <1>2, <3>3 DEF Raise, At
      <4> QED
        BY <1>4, <4>1, <4>2
    <3>4. CASE Work(t)
      <4>1. PICK new : Replaces(t, new)
        BY <3>4, Following
      <4> QED
        BY <1>4, <3>4, <4>1 DEF Replaces, Changes
    <3> QED
      BY <3>1, <3>2, <3>3, <3>4 DEF User, UserCalls
  <2>2. \A o, p \in Labels : At(t, o) /\ At(t, p) => o = p
    BY DEF At
  <2>3. Send(t) \/ InterpreterSend(t)
    BY <1>1, <1>2, <2>1, <2>2 DEF Work, Labels, Send, InterpreterSend, Drain, Notify, Start, Subscribe,
         Return, Stop, StopChild, StopSelf, ChildStart, ChildStarted, ChildNotify, ChildStop,
         ChildStopped, Unlink, Sync, Reconcile, LeaveInvocation, Resolve, EnterInvocation, EndPass
  <2>4. CASE Send(t)
    <3>1. CASE Stopping \/ ist = "stopped"
      BY <3>1 DEF Closing
    <3>2. CASE Replaces(t, {Frame("isend", Top(t).arg)})
      <4>1. Frame("isend", c).op = "isend" /\ Frame("isend", c).arg = c
        BY Calling DEF Labels
      <4>2. Frame("isend", c) \in Calls(t)'
        BY <1>1, <1>2, <2>1, <3>2 DEF Replaces, Changes
      <4> QED
        BY <2>1, <4>1, <4>2 DEF Carries
    <3> QED
      BY <2>4, <3>1, <3>2, Effects
  <2>5. CASE InterpreterSend(t)
    <3>1. CASE ist = "running"
      <4>1. delivered' = [d \in Child |-> delivered[d] + IF Top(t).arg = d THEN 1 ELSE 0]
        BY <2>5, <3>1 DEF InterpreterSend
      <4>2. delivered[c] = 0 /\ Top(t).arg = c
        BY <1>1, <1>2, <2>1 DEF ToldOnce
      <4> QED
        BY <4>1, <4>2
    <3>2. CASE ist = "not_started"
      BY <3>2 DEF Asleep
    <3> QED
      BY <3>1, <3>2 DEF Closing, Data
  <2> QED
    BY <2>3, <2>4, <2>5
<1> QED
  BY <1>3, <1>4

LEMMA ToldAtLeastStep ==
  ASSUME Sound, Tree, ToldOnce, ToldAtLeast, [Next]_vars
  PROVE  ToldAtLeast'
<1> USE DEF Sound
<1>1. CASE UNCHANGED vars
  BY <1>1 DEF vars, parent, child, counts, ToldAtLeast, Carries, Calls, Stopping, Live
<1>2. ASSUME NEW t \in Thread, Work(t) \/ User(t)
      PROVE  ToldAtLeast'
  <2>0. ToldOnce'
    BY <1>2, ToldOnceStep DEF Next
  <2> SUFFICES ASSUME NEW c \in Child, listening'[c]
               PROVE  /\ snap'[c] = "settled" => told'[c] \/ \E f \in Live("cnotify")' : f.arg = c
                      /\ told'[c] => \/ delivered'[c] = 1 \/ Closing'
                                     \/ \E u \in Thread : Carries(u, c)'
    BY DEF ToldAtLeast, Closing
  <2>1. CASE snap'[c] = "active" /\ ~told'[c]
    BY <2>1
  <2>2. CASE listening[c]
    <3>1. /\ snap[c] = "settled" => told[c] \/ \E f \in Live("cnotify") : f.arg = c
          /\ told[c] => \/ delivered[c] = 1 \/ Closing
                        \/ \E u \in Thread : Carries(u, c)
      BY <2>2 DEF ToldAtLeast, Closing
    <3>2. told' = told \/ ChildNotify(t)
      BY <1>2, Telling
    <3>3. told[c] => told'[c]
      BY <1>2, Telling
    <3>4. ChildNotify(t) /\ Top(t).arg = c =>
             \/ ~told[c] /\ snap[c] = "settled" /\ told'[c] /\ Carries(t, c)'
             \/ told' = told /\ (told[c] \/ snap[c] # "settled")
      <4> SUFFICES ASSUME ChildNotify(t), Top(t).arg = c
                   PROVE  \/ ~told[c] /\ snap[c] = "settled" /\ told'[c] /\ Carries(t, c)'
                          \/ told' = told /\ (told[c] \/ snap[c] # "settled")
        OBVIOUS
      <4>1. CASE ~told[c] /\ snap[c] = "settled" /\ told' = [told EXCEPT ![c] = TRUE]
                 /\ Replaces(t, {Frame("send", c)})
        <5>1. Frame("send", c).op = "send" /\ Frame("send", c).arg = c
          BY Calling DEF Labels
        <5>2. Frame("send", c) \in Calls(t)'
          BY <4>1 DEF Replaces, Changes
        <5>3. Carries(t, c)'
          BY <5>1, <5>2 DEF Carries
        <5>4. told'[c]
          BY <4>1 DEF Data
        <5> QED
          BY <4>1, <5>3, <5>4
      <4>2. CASE told' = told /\ (told[c] \/ snap[c] # "settled")
        BY <4>2
      <4> QED
        BY <2>2, <4>1, <4>2, ChildEffects
    <3>5. ChildNotify(t) => snap' = snap
      BY DEF ChildNotify
    <3>6. ChildNotify(t) /\ Top(t).arg # c => (told'[c] => told[c])
      BY DEF ChildNotify, Data
    <3>7. snap'[c] = "settled" => told'[c] \/ \E f \in Live("cnotify")' : f.arg = c
      <4> SUFFICES ASSUME snap'[c] = snap[c], snap[c] = "settled", ~told[c]
                   PROVE  told'[c] \/ \E f \in Live("cnotify")' : f.arg = c
        BY <1>2, <3>3, Notifying
      <4>1. PICK f \in Live("cnotify") : f.arg = c
        BY <3>1
      <4>2. CASE f \in Live("cnotify")'
        BY <4>1, <4>2
      <4>3. CASE ChildNotify(t) /\ f = Top(t)
        BY <3>4, <4>1, <4>3
      <4> QED
        BY <1>2, <4>2, <4>3, NotifyPersists
    <3>8. ASSUME told'[c]
          PROVE  delivered'[c] = 1 \/ Closing' \/ \E u \in Thread : Carries(u, c)'
      <4>1. CASE ~told[c]
        BY <3>2, <3>4, <3>6, <3>8, <4>1
      <4>2. CASE delivered[c] = 1
        <5>1. delivered'[c] <= 1 /\ (delivered'[c] = 1 \/ delivered'[c] = 2)
          <6>1. delivered'[c] <= 1
            BY <2>0 DEF ToldOnce
          <6>2. \/ delivered' = delivered
                \/ delivered' = [d \in Child |-> delivered[d] + IF Top(t).arg = d THEN 1 ELSE 0]
            BY <1>2, Telling
          <6> QED
            BY <4>2, <6>1, <6>2
        <5> QED
          BY <5>1
      <4>3. CASE Closing
        BY <1>2, <4>3, ClosingStable
      <4>4. CASE \E u \in Thread : Carries(u, c)
        BY <1>2, <2>2, <4>3, <4>4, CarriesOn
      <4> QED
        BY <3>1, <4>1, <4>2, <4>3, <4>4
    <3> QED
      BY <3>7, <3>8
  <2> QED
    BY <1>2, <2>1, <2>2, Hearing
<1> QED
  BY <1>1, <1>2 DEF Next

LEMMA MailAlways == Spec => [](ToldOnce /\ ToldAtLeast)
<1>1. Init => ToldOnce /\ ToldAtLeast
  BY DEF Init, ToldOnce, ToldAtLeast, Carries, Calls
<1>2. Sound /\ Tree /\ ToldOnce /\ ToldAtLeast /\ [Next]_vars => ToldOnce' /\ ToldAtLeast'
  BY ToldOnceStep, ToldAtLeastStep
<1> QED
  BY <1>1, <1>2, TreeAlways, PTL DEF Spec

\* The completion of an invoked child reaches the parent's queue at most once;
\* and when every call has returned it has, unless one of the two was stopped
\* first: whatever thread the child settles on, under its start() or after it,
\* and however often it notifies.
THEOREM CompletionsOnce == Spec => []CompletionsDelivered
<1>1. ToldOnce /\ ToldAtLeast => CompletionsDelivered
  <2> SUFFICES ASSUME ToldOnce, ToldAtLeast, NEW c \in Child
               PROVE  /\ delivered[c] <= 1
                      /\ Idle /\ ist = "running" /\ listening[c] /\ snap[c] = "settled" =>
                            delivered[c] = 1
    BY DEF CompletionsDelivered
  <2>1. Idle => (\A op : Live(op) = {}) /\ (\A t \in Thread : ~Carries(t, c))
    BY DEF Idle, Live, Calls, Carries
  <2> QED
    BY <2>1 DEF ToldOnce, ToldAtLeast, Stopping
<1> QED
  BY <1>1, MailAlways, PTL

=============================================================================
