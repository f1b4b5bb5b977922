------------------------------ MODULE EventBus ------------------------------
(***************************************************************************)
(* nexus.kernel.EventBus under several threads.  publish is one critical   *)
(* section of a re-entrant lock: it logs the event and runs every matching *)
(* handler before it returns, and a handler may call the bus again.  A     *)
(* thread is the stack of the publish calls it is in; it holds the lock    *)
(* while that stack is not empty.  A topic stands for all topics the same  *)
(* patterns match.                                                         *)
(***************************************************************************)
EXTENDS Integers, Sequences, SequencesExt, FiniteSets

CONSTANTS
    Threads,
    Subs,       \* subscriptions, each made once
    Topics,     \* what programs publish
    Matches,    \* subscription -> the topics its pattern matches
    Acts,       \* subscription -> what its handler may do besides returning
    MaxEvents   \* bound: events published by programs and handlers

BusError == "bus.error"

ASSUME BusAssumption ==
    /\ BusError \notin Topics
    /\ Matches \in [Subs -> SUBSET (Topics \cup {BusError})]
    /\ Acts \in [Subs -> SUBSET {"raise", "exit", "publish", "subscribe",
                                "unsubscribe"}]
    /\ MaxEvents \in Nat

VARIABLES
    subs,     \* _subscriptions, in list order
    order,    \* subscription -> the order it was given
    counter,  \* _sub_order
    log,      \* _log: what was published, in which handling, to whom
    frames,   \* thread -> its publish calls, the innermost last
    call,     \* thread -> the call it is about to make
    got,      \* history: the deliveries <<subscription, event>>, in order
    after,    \* history: subscription -> those made before its call began
    cut       \* history: events whose publishing was cut short

vars == <<subs, order, counter, log, frames, call, got, after, cut>>

Init ==
    /\ subs = <<>> /\ counter = 0 /\ log = <<>> /\ got = <<>> /\ cut = {}
    /\ order = [s \in Subs |-> -1]
    /\ after = [s \in Subs |-> {}]
    /\ frames = [t \in Threads |-> <<>>]
    /\ call = [t \in Threads |-> <<"none">>]

-----------------------------------------------------------------------------
(* The lock. *)

(* Fault: every publish has a lock of its own. *)
Unlocked(t) == TRUE

(* Fault: the lock is not re-entrant. *)
MayEnterOnce(t) == \A u \in Threads : frames[u] = <<>>

MayEnter(t) == \A u \in Threads \ {t} : frames[u] = <<>>

Top(t) == Last(frames[t])
InPhase(t, phase) == frames[t] # <<>> /\ Top(t).phase = phase
SetTop(t, phase, todo) ==
    frames' = [frames EXCEPT ![t][Len(frames[t])] =
                  [@ EXCEPT !.phase = phase, !.todo = todo]]

-----------------------------------------------------------------------------
(* publish. *)

Matching(topic) == {s \in ToSet(subs) : topic \in Matches[s]}

Place(s) == CHOOSE i \in DOMAIN subs : subs[i] = s

(* sorted() is stable: equal orders stay in list order.                     *)
Before(s, u) == order[s] < order[u] \/ (order[s] = order[u] /\ Place(s) < Place(u))

Listings(topic) == [1..Cardinality(Matching(topic)) -> Matching(topic)]

(* Fault: who subscribed last is served first. *)
NewestFirst(topic) ==
    CHOOSE seq \in Listings(topic) :
        \A i, j \in DOMAIN seq : i < j => Before(seq[j], seq[i])

Audience(topic) ==
    CHOOSE seq \in Listings(topic) :
        \A i, j \in DOMAIN seq : i < j => Before(seq[i], seq[j])

Publish(t, topic, held) ==
    /\ MayEnter(t)
    /\ log' = Append(log, [topic |-> topic, within |-> {held[i].event : i \in DOMAIN held},
                           due |-> Audience(topic)])
    /\ frames' = [frames EXCEPT ![t] =
          Append(held, [event |-> Len(log) + 1, todo |-> Audience(topic), phase |-> "next"])]

Room == Cardinality({i \in DOMAIN log : log[i].topic # BusError}) < MaxEvents

CallPublish(t) ==
    /\ frames[t] = <<>> /\ call[t] = <<"none">> /\ Room
    /\ \E topic \in Topics : call' = [call EXCEPT ![t] = <<"publish", topic>>]
    /\ UNCHANGED <<subs, order, counter, log, frames, got, after, cut>>

EnterPublish(t) ==
    /\ frames[t] = <<>> /\ call[t][1] = "publish"
    /\ Publish(t, call[t][2], <<>>)
    /\ UNCHANGED <<subs, order, counter, call, got, after, cut>>

Deliver(t) ==
    /\ InPhase(t, "next") /\ Top(t).todo # <<>>
    /\ got' = Append(got, <<Head(Top(t).todo), Top(t).event>>)
    /\ SetTop(t, "handler", Top(t).todo)
    /\ UNCHANGED <<subs, order, counter, log, call, after, cut>>

Leave(t) ==
    /\ InPhase(t, "next") /\ Top(t).todo = <<>>
    /\ frames' = [frames EXCEPT ![t] = Front(@)]
    /\ call' = IF Len(frames[t]) = 1 THEN [call EXCEPT ![t] = <<"none">>] ELSE call
    /\ UNCHANGED <<subs, order, counter, log, got, after, cut>>

-----------------------------------------------------------------------------
(* What a handler does. *)

Handler(t) == Head(Top(t).todo)

(* Fault: the loop looks at the list of subscriptions as it is by then. *)
StillSubscribed(todo) == SelectSeq(Tail(todo), LAMBDA s : s \in ToSet(subs))

Others(todo) == Tail(todo)

HandlerReturns(t) ==
    /\ InPhase(t, "handler")
    /\ SetTop(t, "next", Others(Top(t).todo))
    /\ UNCHANGED <<subs, order, counter, log, call, got, after, cut>>

(* What is not an Exception is not caught: it leaves every call the thread  *)
(* is in, and gives the lock back.                                          *)
HandlerExits(t) ==
    /\ InPhase(t, "handler") /\ "exit" \in Acts[Handler(t)]
    /\ cut' = cut \cup {frames[t][i].event : i \in DOMAIN frames[t]}
    /\ frames' = [frames EXCEPT ![t] = <<>>]
    /\ call' = [call EXCEPT ![t] = <<"none">>]
    /\ UNCHANGED <<subs, order, counter, log, got, after>>

(* An exception is reported, but not one in the handling of a report.       *)
HandlerRaises(t) ==
    /\ InPhase(t, "handler") /\ "raise" \in Acts[Handler(t)]
    /\ SetTop(t, IF log[Top(t).event].topic = BusError THEN "next" ELSE "report",
                 Others(Top(t).todo))
    /\ UNCHANGED <<subs, order, counter, log, call, got, after, cut>>

Report(t) ==
    /\ InPhase(t, "report")
    /\ Publish(t, BusError, [frames[t] EXCEPT ![Len(frames[t])].phase = "next"])
    /\ UNCHANGED <<subs, order, counter, call, got, after, cut>>

HandlerPublishes(t) ==
    /\ InPhase(t, "handler") /\ "publish" \in Acts[Handler(t)] /\ Room
    /\ \E topic \in Topics : Publish(t, topic, frames[t])
    /\ UNCHANGED <<subs, order, counter, call, got, after, cut>>

-----------------------------------------------------------------------------
(* subscribe and unsubscribe. *)

Made == {s \in Subs : order[s] >= 0}
Returned == Made \ {call[t][2] : t \in {u \in Threads : call[u][1] = "subscribe"}}

(* The order is read before the lock is taken.                              *)
CallSubscribe(t) ==
    /\ frames[t] = <<>> /\ call[t] = <<"none">>
    /\ \E s \in Subs \ Made :
          /\ order' = [order EXCEPT ![s] = counter]
          /\ after' = [after EXCEPT ![s] = Returned]
          /\ call' = [call EXCEPT ![t] = <<"subscribe", s>>]
    /\ UNCHANGED <<subs, counter, log, frames, got, cut>>

EnterSubscribe(t) ==
    /\ frames[t] = <<>> /\ call[t][1] = "subscribe" /\ MayEnter(t)
    /\ counter' = counter + 1
    /\ subs' = Append(subs, call[t][2])
    /\ call' = [call EXCEPT ![t] = <<"none">>]
    /\ UNCHANGED <<order, log, frames, got, after, cut>>

(* A thread that holds the lock is alone between the two.                   *)
HandlerSubscribes(t) ==
    /\ InPhase(t, "handler") /\ "subscribe" \in Acts[Handler(t)] /\ MayEnter(t)
    /\ \E s \in Subs \ Made :
          /\ order' = [order EXCEPT ![s] = counter]
          /\ after' = [after EXCEPT ![s] = Returned]
          /\ subs' = Append(subs, s)
    /\ counter' = counter + 1
    /\ UNCHANGED <<log, frames, call, got, cut>>

Unsubscribe(t) ==
    /\ \/ frames[t] = <<>> /\ call[t] = <<"none">>
       \/ InPhase(t, "handler") /\ "unsubscribe" \in Acts[Handler(t)]
    /\ MayEnter(t)
    /\ \E i \in DOMAIN subs : subs' = RemoveAt(subs, i)
    /\ UNCHANGED <<order, counter, log, frames, call, got, after, cut>>

-----------------------------------------------------------------------------

Continue(t) ==
    \/ EnterPublish(t) \/ Deliver(t) \/ Leave(t) \/ Report(t)
    \/ HandlerReturns(t) \/ HandlerRaises(t) \/ HandlerExits(t) \/ EnterSubscribe(t)

Next ==
    \E t \in Threads :
        \/ CallPublish(t) \/ CallSubscribe(t) \/ Continue(t)
        \/ HandlerPublishes(t) \/ HandlerSubscribes(t) \/ Unsubscribe(t)

(* A thread that can go on does, and every handler ends.  Nobody has to     *)
(* call the bus.                                                            *)
Fairness == \A t \in Threads : WF_vars(Continue(t))

Spec == Init /\ [][Next]_vars /\ Fairness

-----------------------------------------------------------------------------
(* Properties. *)

(* The first n subscriptions due for e were given it, one after the other,  *)
(* each once, and nobody else was: place says at which delivery.            *)
Served(e, n) ==
    \E place \in [1..n -> DOMAIN got] :
        /\ \A i, j \in 1..n : i < j => place[i] < place[j]
        /\ \A i \in 1..n : got[place[i]] = <<log[e].due[i], e>>
        /\ \A k \in DOMAIN got : got[k][2] = e => \E i \in 1..n : place[i] = k

(* Whatever its handlers do to the bus, an event that is no longer being    *)
(* published was delivered exactly once to each subscription that matched   *)
(* when it was logged, in their order, and to no other; or to the first of  *)
(* them, when what a handler raised cut it short (events.py:81-96).         *)
DeliveredOnce ==
    \A e \in DOMAIN log :
        (\A t \in Threads : \A i \in DOMAIN frames[t] : frames[t][i].event # e) =>
            \E n \in 0..Len(log[e].due) :
                Served(e, n) /\ (e \in cut \/ n = Len(log[e].due))

(* A subscriber sees events in log order, whichever threads published them, *)
(* with one exception: an event published while another was being delivered *)
(* can reach it before that one (events.py:48-52, 81-86).                   *)
LaterFirstOnlyWithin ==
    \A i, j \in DOMAIN got :
        i < j /\ got[i][1] = got[j][1] /\ got[i][2] > got[j][2]
            => got[j][2] \in log[got[i][2]].within

(* Delivery follows the order of subscription: one whose call had returned  *)
(* when another's began is served first, although the order is read outside *)
(* the lock, and whatever was unsubscribed in between (events.py:59-67, 81).*)
EarlierServedFirst ==
    \A e \in DOMAIN log : \A i, j \in DOMAIN log[e].due :
        i < j => log[e].due[j] \notin after[log[e].due[i]]

(* Every call of the bus returns, also when handlers raise, publish and     *)
(* unsubscribe (events.py:48-49, 84-95).                                    *)
EveryCallReturns == \A t \in Threads : call[t] # <<"none">> ~> call[t] = <<"none">>
=============================================================================
