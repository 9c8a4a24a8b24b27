---------------------------- MODULE RouterProofs ----------------------------
(***************************************************************************)
(* Proofs about Router for any set of indications, any periods, durations  *)
(* and gaps, and any bounds.                                               *)
(*                                                                         *)
(* An action goes from the result of the fiber that created it (or from    *)
(* the radio) to the event list, perhaps to the queue, and to a fiber.  It *)
(* is in one of these places at a time, and it never comes back, because a *)
(* result can only be taken while it is the object's future.               *)
(***************************************************************************)
EXTENDS Router, TLAPS

\* Where an action can be.
Starting == { a \in Actions : \E h \in handlers : h.kind = "start" /\ h.action = a }
Waiting == { mDelayedQueue[i] : i \in DOMAIN mDelayedQueue }
Coming == { a \in Actions : mFuture # None /\ \E i \in DOMAIN result[mFuture] : result[mFuture][i] = a }
Launched == { a \in Actions : fiber[a] # "none" }

\* Actions that were created or sent.
Existing == { a \in Created : a <= created } \cup { a \in Indications : mStartTime[a] # 0 }

\* An action is in one place at a time, and in none before it exists.
OnePlace ==
    /\ Starting \cap Waiting = {}
    /\ (Starting \cup Waiting) \cap Coming = {}
    /\ Launched \cap (Starting \cup Waiting \cup Coming) = {}
    /\ Starting \cup Waiting \cup Coming \cup Launched \subseteq Existing

\* It is there once.
Once ==
    /\ \A g, h \in handlers :
        g.kind = "start" /\ h.kind = "start" /\ g.action = h.action => g = h
    /\ \A i, j \in DOMAIN mDelayedQueue : mDelayedQueue[i] = mDelayedQueue[j] => i = j
    /\ mFuture # None =>
        \A i, j \in DOMAIN result[mFuture] : result[mFuture][i] = result[mFuture][j] => i = j

\* A fiber that is not done has no result.
NoResultYet == \A a \in Actions : fiber[a] # "done" => result[a] = <<>>

HandlerSet == [time : Nat, id : Nat, kind : {"start", "end"}, action : Actions]

\* The types one by one.
Typed ==
    /\ mCurrentActionTime \in Nat /\ mCurrentActionId \in Nat
    /\ created \in Nat /\ nextEvent \in Nat
    /\ handlers \subseteq HandlerSet
    /\ type \in [Actions -> Types]
    /\ mStartTime \in [Actions -> Nat]
    /\ mActiveAction \in Actions \cup {None} /\ mFuture \in Actions \cup {None}
    /\ mNextStart \in Actions \cup {None} /\ mNextEnd \in Actions \cup {None}
    /\ mDelayedQueue \in Seq(Actions)
    /\ fiber \in [Actions -> {"none", "running", "done"}]
    /\ result \in [Actions -> Seq(Created)]
    /\ taking \in handlers \cup {None}
    /\ mInitDone \in BOOLEAN /\ thrown \in BOOLEAN

RouterInv ==
    /\ Typed
    /\ TrackerTogether
    /\ OnePlace
    /\ Once
    /\ NoResultYet

-----------------------------------------------------------------------------
(* What the proofs of several actions use.                                 *)

\* Together they are the type invariant.
LEMMA TypesOneByOne == TypeOK <=> Typed
<1>1. \A a, b, c, d, S : {a, b, c, d} \subseteq S <=> a \in S /\ b \in S /\ c \in S /\ d \in S
  BY Zenon
<1>2. {mInitDone, thrown} \subseteq BOOLEAN <=> mInitDone \in BOOLEAN /\ thrown \in BOOLEAN
  BY Zenon
<1> QED
  BY <1>1, <1>2, Zenon DEF TypeOK, Typed, HandlerSet

\* The router's own actions are numbers, indications are not.
LEMMA ActionKinds ==
    /\ Created \subseteq Nat /\ Created \cap Indications = {} /\ 1 \in Created
    /\ None \notin Actions /\ None \notin Nat
    /\ CaPeriod \in Nat /\ SelfDuration \in Nat \ {0} /\ Gaps \subseteq Nat
BY RouterAssumption DEF Created, Actions

\* A handler made of the right values is one.
LEMMA HandlerType ==
    ASSUME NEW t \in Nat, NEW i \in Nat, NEW k \in {"start", "end"}, NEW a \in Actions
    PROVE  /\ Handler(t, i, k, a) \in HandlerSet
           /\ Handler(t, i, k, a).kind = k /\ Handler(t, i, k, a).action = a
BY DEF Handler, HandlerSet

\* The elements of a sequence.
HeldIn(s) == { s[i] : i \in DOMAIN s }

\* A sequence with one more element at its end.
LEMMA Appended ==
    ASSUME NEW S, NEW s \in Seq(S), NEW x \in S, NEW c, c = Append(s, x)
    PROVE  /\ c \in Seq(S)
           /\ { c[i] : i \in DOMAIN c } = { s[i] : i \in DOMAIN s } \cup {x}
           /\ (\A i, j \in DOMAIN s : s[i] = s[j] => i = j) /\ x \notin { s[i] : i \in DOMAIN s }
                => \A i, j \in DOMAIN c : c[i] = c[j] => i = j
<1>1. PICK n : n = Len(s)
  OBVIOUS
<1>3. n \in Nat /\ DOMAIN s = 1..n /\ c \in Seq(S) /\ DOMAIN c = 1..(n + 1)
  BY <1>1
<1>4. c[n + 1] = x /\ \A i \in 1..n : c[i] = s[i]
  BY <1>1
<1>5. \A i : i \in 1..(n + 1) <=> i \in 1..n \/ i = n + 1
  BY <1>3
<1>6. { c[i] : i \in DOMAIN c } = { s[i] : i \in DOMAIN s } \cup {x}
  BY <1>3, <1>4, <1>5
<1>7. (\A i, j \in DOMAIN s : s[i] = s[j] => i = j) /\ x \notin { s[i] : i \in DOMAIN s }
        => \A i, j \in DOMAIN c : c[i] = c[j] => i = j
  BY <1>3, <1>4, <1>5
<1> QED
  BY <1>3, <1>6, <1>7

\* A sequence without its first element.
LEMMA Shortened ==
    ASSUME NEW S, NEW s \in Seq(S), s # <<>>, NEW t, t = Tail(s)
    PROVE  /\ Head(s) \in S /\ t \in Seq(S)
           /\ HeldIn(s) = HeldIn(t) \cup {Head(s)}
           /\ (\A i, j \in DOMAIN s : s[i] = s[j] => i = j)
                => /\ \A i, j \in DOMAIN t : t[i] = t[j] => i = j
                   /\ Head(s) \notin { t[i] : i \in DOMAIN t }
<1>1. PICK n : n = Len(s)
  OBVIOUS
<1>2. n \in Nat /\ n # 0 /\ DOMAIN s = 1..n
  BY <1>1
<1>4. t \in Seq(S) /\ DOMAIN t = 1..(n - 1) /\ \A i \in 1..(n - 1) : t[i] = s[i + 1]
  BY <1>1, <1>2
<1>5. Head(s) = s[1] /\ s[1] \in S /\ 1 \in 1..n
  BY <1>1, <1>2
<1>6. \A i \in 1..n : i # 1 => i - 1 \in 1..(n - 1) /\ (i - 1) + 1 = i
  BY <1>2
<1>7. \A i \in 1..n : i # 1 => i - 1 \in DOMAIN t /\ s[i] = t[i - 1]
  BY <1>4, <1>6
<1>8. \A i \in 1..(n - 1) : i + 1 \in 1..n /\ i + 1 # 1
  BY <1>2
<1>9. { s[i] : i \in DOMAIN s } = { t[i] : i \in DOMAIN t } \cup {s[1]}
  <2>1. ASSUME NEW i \in 1..n PROVE s[i] \in { t[j] : j \in DOMAIN t } \cup {s[1]}
    BY <1>7
  <2>2. ASSUME NEW i \in 1..(n - 1) PROVE t[i] \in { s[j] : j \in DOMAIN s }
    BY <1>2, <1>4, <1>8
  <2>3. s[1] \in { s[j] : j \in DOMAIN s }
    BY <1>2, <1>5
  <2> QED
    BY <2>1, <2>2, <2>3, <1>2, <1>4
<1>10. ASSUME \A i, j \in DOMAIN s : s[i] = s[j] => i = j
       PROVE  /\ \A i, j \in DOMAIN t : t[i] = t[j] => i = j
              /\ s[1] \notin { t[i] : i \in DOMAIN t }
  <2>1. ASSUME NEW i \in 1..(n - 1), NEW j \in 1..(n - 1), t[i] = t[j] PROVE i = j
    <3>1. s[i + 1] = s[j + 1]
      BY <2>1, <1>4
    <3>2. i + 1 = j + 1
      BY <3>1, <1>2, <1>8, <1>10
    <3> QED
      BY <3>2, <1>2
  <2>2. ASSUME NEW i \in 1..(n - 1) PROVE t[i] # s[1]
    BY <1>2, <1>4, <1>5, <1>8, <1>10
  <2> QED
    BY <2>1, <2>2, <1>4
<1> QED
  BY <1>4, <1>5, <1>9, <1>10 DEF HeldIn

\* A function on 1..n is a sequence.
LEMMA MakeSeq == ASSUME NEW S, NEW n \in Nat, NEW d \in [1..n -> S] PROVE d \in Seq(S)
OBVIOUS

\* What a sequence holds.
LEMMA EachInSeq ==
    ASSUME NEW S, NEW s \in Seq(S)
    PROVE  Len(s) \in Nat /\ \A i \in DOMAIN s : s[i] \in S /\ i \in Nat
<1>1. DOMAIN s = 1..Len(s) /\ Len(s) \in Nat
  OBVIOUS
<1>2. \A i \in 1..Len(s) : s[i] \in S
  OBVIOUS
<1> QED
  BY <1>1, <1>2

-----------------------------------------------------------------------------
(* One lemma for each action.                                              *)

\* initObject has scheduled initRouter and nothing else is anywhere.
LEMMA InitRouterInv == Init => RouterInv
<1> SUFFICES ASSUME Init PROVE RouterInv
  OBVIOUS
<1> USE DEF Init
<1>1. DOMAIN <<>> = {} /\ <<>> \in Seq(Actions) /\ <<>> \in Seq(Created)
  OBVIOUS
<1>2. 1 \in Actions /\ 1 \in Created /\ Handler(2, 1, "start", 1) \in HandlerSet
        /\ Handler(2, 1, "start", 1).kind = "start" /\ Handler(2, 1, "start", 1).action = 1
  BY ActionKinds, HandlerType DEF Actions
<1>3. Typed
  <2>1. type \in [Actions -> Types] /\ fiber \in [Actions -> {"none", "running", "done"}]
    BY DEF Types
  <2>2. mStartTime \in [Actions -> Nat] /\ result \in [Actions -> Seq(Created)]
    BY <1>1
  <2>3. handlers \subseteq HandlerSet
    BY <1>2
  <2>4. mInitDone \in BOOLEAN /\ thrown \in BOOLEAN
    OBVIOUS
  <2> QED
    BY <2>1, <2>2, <2>3, <2>4, <1>1 DEF Typed
<1>4. Starting = {1} /\ Waiting = {} /\ Coming = {} /\ Launched = {}
  BY <1>1, <1>2 DEF Starting, Waiting, Coming, Launched
<1>5. 1 \in Existing
  BY <1>2 DEF Existing
<1>6. OnePlace
  BY <1>4, <1>5 DEF OnePlace
<1>7. Once
  BY <1>1 DEF Once
<1>8. NoResultYet /\ TrackerTogether
  BY DEF NoResultYet, TrackerTogether
<1> QED
  BY <1>3, <1>6, <1>7, <1>8 DEF RouterInv

\* An idle object starts an action: it leaves the event list for a fiber, or
\* is forgotten if the tracker does not know it.
LEMMA StartNowStep ==
    ASSUME RouterInv, NEW h \in handlers, StartNow(h) PROVE RouterInv'
<1> USE DEF RouterInv
<1>1. PICK a : a = h.action
  OBVIOUS
<1>2. PICK e : e = Handler(EndTime(a), mCurrentActionId + 1, "end", a)
  OBVIOUS
<1>3. /\ h.kind = "start" /\ taking = None
      /\ mCurrentActionTime' = h.time
      /\ mActiveAction' = a
      /\ mCurrentActionId' = mCurrentActionId + 1
      /\ handlers' = (handlers \ {h}) \cup {e}
      /\ StartExecution(a)
      /\ UNCHANGED <<actionVars, mDelayedQueue, result, taking, trackerVars,
                     mInitDone, nextEvent, thrown>>
  BY <1>1, <1>2 DEF StartNow, Due
<1>4. a \in Actions /\ a # None /\ h.time \in Nat
  BY <1>1, ActionKinds DEF Typed, HandlerSet
<1>5. e \in HandlerSet /\ e.kind = "end"
  <2>1. EndTime(a) \in Nat /\ mCurrentActionId + 1 \in Nat
    BY <1>4, ActionKinds DEF EndTime, Typed
  <2> QED
    BY <2>1, <1>2, <1>4, HandlerType
<1>6. a \in Starting /\ a \notin Launched /\ a \notin Waiting /\ a \notin Coming /\ a \in Existing
  BY <1>1, <1>3, <1>4 DEF Starting, OnePlace
<1>7. fiber[a] = "none" /\ result[a] = <<>>
  BY <1>4, <1>6 DEF Launched, NoResultYet
<1>8. \/ mFuture' = a /\ fiber' = [fiber EXCEPT ![a] = "running"]
      \/ UNCHANGED <<mFuture, fiber>>
  BY <1>3 DEF StartExecution
<1>9. Starting' = Starting \ {a}
  <2>1. \A g \in handlers : g.kind = "start" /\ g.action = a => g = h
    BY <1>1, <1>3 DEF Once
  <2> QED
    BY <2>1, <1>1, <1>3, <1>5 DEF Starting
<1>10. Waiting' = Waiting
  BY <1>3 DEF Waiting
<1>11. Coming' \subseteq Coming
  <2>1. DOMAIN <<>> = {}
    OBVIOUS
  <2> QED
    BY <2>1, <1>3, <1>7, <1>8 DEF Coming
<1>12. Launched' \subseteq Launched \cup {a}
  BY <1>4, <1>8 DEF Launched, Typed
<1>13. Existing' = Existing
  BY <1>3 DEF Existing, actionVars
<1>14. OnePlace'
  BY <1>6, <1>9, <1>10, <1>11, <1>12, <1>13 DEF OnePlace
<1>15. Once'
  <2>1. DOMAIN <<>> = {}
    OBVIOUS
  <2>2. mFuture' # None =>
          \A i, j \in DOMAIN result[mFuture'] : result[mFuture'][i] = result[mFuture'][j] => i = j
    BY <2>1, <1>7, <1>8 DEF Once
  <2>3. \A g, k \in handlers' :
          g.kind = "start" /\ k.kind = "start" /\ g.action = k.action => g = k
    BY <1>3, <1>5 DEF Once
  <2> QED
    BY <2>2, <2>3, <1>3 DEF Once
<1>16. Typed'
  <2>1. mFuture' \in Actions \cup {None} /\ fiber' \in [Actions -> {"none", "running", "done"}]
    BY <1>4, <1>8 DEF Typed
  <2>2. handlers' \subseteq HandlerSet /\ taking' \in handlers' \cup {None}
    BY <1>3, <1>5 DEF Typed
  <2>3. mCurrentActionId' \in Nat /\ mCurrentActionTime' \in Nat
    BY <1>3, <1>4 DEF Typed
  <2> QED
    BY <2>1, <2>2, <2>3, <1>3, <1>4 DEF Typed, actionVars, trackerVars
<1>17. NoResultYet'
  BY <1>3, <1>4, <1>7, <1>8 DEF NoResultYet, Typed
<1>18. TrackerTogether'
  BY <1>3 DEF TrackerTogether, trackerVars
<1> QED
  BY <1>14, <1>15, <1>16, <1>17, <1>18

\* A busy object delays it.
LEMMA StartLaterStep ==
    ASSUME RouterInv, NEW h \in handlers, StartLater(h) PROVE RouterInv'
<1> USE DEF RouterInv
<1>1. PICK a : a = h.action
  OBVIOUS
<1>2. /\ h.kind = "start" /\ taking = None
      /\ mCurrentActionTime' = h.time
      /\ handlers' = handlers \ {h}
      /\ mDelayedQueue' = Append(mDelayedQueue, a)
      /\ UNCHANGED <<mCurrentActionId, actionVars, mActiveAction, mFuture, fiberVars,
                     taking, trackerVars, mInitDone, nextEvent, thrown>>
  BY <1>1 DEF StartLater, Due
<1>3. a \in Actions /\ h.time \in Nat /\ mDelayedQueue \in Seq(Actions)
  BY <1>1 DEF Typed, HandlerSet
<1>4. a \in Starting /\ a \notin Launched /\ a \notin Waiting /\ a \notin Coming /\ a \in Existing
  BY <1>1, <1>2, <1>3 DEF Starting, OnePlace
<1>5. /\ mDelayedQueue' \in Seq(Actions)
      /\ { mDelayedQueue'[i] : i \in DOMAIN mDelayedQueue' } = Waiting \cup {a}
      /\ \A i, j \in DOMAIN mDelayedQueue' : mDelayedQueue'[i] = mDelayedQueue'[j] => i = j
  <2>1. PICK c : c = Append(mDelayedQueue, a)
    OBVIOUS
  <2>2. c \in Seq(Actions)
    BY <2>1, <1>3
  <2>3. { c[i] : i \in DOMAIN c } = Waiting \cup {a}
    BY <2>1, <1>3, Appended DEF Waiting
  <2>4. \A i, j \in DOMAIN mDelayedQueue : mDelayedQueue[i] = mDelayedQueue[j] => i = j
    BY DEF Once
  <2>5. \A i, j \in DOMAIN c : c[i] = c[j] => i = j
    BY <2>1, <2>4, <1>3, <1>4, Appended DEF Waiting
  <2> QED
    BY <2>1, <2>2, <2>3, <2>5, <1>2
<1>6. Waiting' = Waiting \cup {a}
  BY <1>5 DEF Waiting
<1>7. Starting' = Starting \ {a}
  <2>1. \A g \in handlers : g.kind = "start" /\ g.action = a => g = h
    BY <1>1, <1>2 DEF Once
  <2> QED
    BY <2>1, <1>1, <1>2 DEF Starting
<1>8. Coming' = Coming /\ Launched' = Launched /\ Existing' = Existing
  BY <1>2 DEF Coming, Launched, Existing, fiberVars, actionVars
<1>9. OnePlace'
  BY <1>4, <1>6, <1>7, <1>8 DEF OnePlace
<1>10. Once'
  BY <1>2, <1>5 DEF Once, fiberVars
<1>11. Typed'
  BY <1>2, <1>3, <1>5 DEF Typed, actionVars, fiberVars, trackerVars
<1>12. NoResultYet' /\ TrackerTogether'
  BY <1>2 DEF NoResultYet, TrackerTogether, fiberVars, trackerVars
<1> QED
  BY <1>9, <1>10, <1>11, <1>12

\* What an end handler leaves that had the handlers hs and the future f.
Activated(hs, f) ==
    /\ mActiveAction' \in Actions \cup {None} /\ mFuture' \in Actions \cup {None}
    /\ mDelayedQueue' \in Seq(Actions) /\ mCurrentActionId' \in Nat
    /\ mStartTime' \in [Actions -> Nat]
    /\ fiber' \in [Actions -> {"none", "running", "done"}]
    /\ handlers' \subseteq HandlerSet
    /\ \A g : g \in handlers' /\ g.kind = "start" <=> g \in hs /\ g.kind = "start"
    /\ Waiting' \subseteq Waiting
    /\ \A i, j \in DOMAIN mDelayedQueue' : mDelayedQueue'[i] = mDelayedQueue'[j] => i = j
    /\ Existing \subseteq Existing'
    /\ \A b \in Actions : fiber[b] = "done" => fiber'[b] = "done"
    /\ Launched' \subseteq Launched \cup (Waiting \ Waiting')
    /\ NoResultYet'
    /\ mFuture' = f \/ (mFuture' \in Actions /\ result[mFuture'] = <<>>)

\* What endExecutionBase does after endExecution: the first action that waits
\* leaves the queue for a fiber, or is forgotten.
LEMMA ActivateFacts ==
    ASSUME RouterInv, NEW a \in Actions, NEW hs, hs \subseteq HandlerSet, NEW id \in Nat,
           NEW f \in Actions \cup {None}, EndAndActivate(a, hs, id), mFuture' = FutureAfter(f),
           UNCHANGED <<created, result>>
    PROVE  Activated(hs, f)
<1> USE DEF RouterInv
<1>1. Typed /\ mDelayedQueue \in Seq(Actions)
  BY DEF Typed
<1>2. \A i, j \in DOMAIN mDelayedQueue : mDelayedQueue[i] = mDelayedQueue[j] => i = j
  BY DEF Once
<1>3. CASE mDelayedQueue = <<>>
  <2>1. /\ mActiveAction' = None
        /\ handlers' = hs
        /\ mCurrentActionId' = id
        /\ UNCHANGED <<mStartTime, mDelayedQueue, fiber>>
        /\ mFuture' = f
    BY <1>3 DEF EndAndActivate, FutureAfter
  <2>2. Waiting' = Waiting /\ Launched' = Launched /\ Existing' = Existing
    BY <2>1 DEF Waiting, Launched, Existing
  <2>3. NoResultYet'
    BY <2>1 DEF NoResultYet
  <2> QED
    BY <2>1, <2>2, <2>3, <1>1, <1>2 DEF Typed, Activated
<1>4. CASE mDelayedQueue # <<>>
  <2>1. PICK u : u = Head(mDelayedQueue)
    OBVIOUS
  <2>2. PICK q : q = Tail(mDelayedQueue)
    OBVIOUS
  <2>3. PICK e : e = Handler(EndTime(a), id + 1, "end", a)
    OBVIOUS
  <2>4. /\ mActiveAction' = u
        /\ mDelayedQueue' = q
        /\ mStartTime' = [mStartTime EXCEPT ![u] = EndTime(a)]
        /\ handlers' = hs \cup {e}
        /\ mCurrentActionId' = id + 1
        /\ fiber' = IF Launches(u) THEN [fiber EXCEPT ![u] = "running"] ELSE fiber
        /\ mFuture' = IF Launches(u) THEN u ELSE f
    BY <2>1, <2>2, <2>3, <1>4 DEF EndAndActivate, FutureAfter
  <2>5. /\ u \in Actions /\ q \in Seq(Actions)
        /\ Waiting = { q[i] : i \in DOMAIN q } \cup {u}
        /\ \A i, j \in DOMAIN q : q[i] = q[j] => i = j
        /\ u \notin { q[i] : i \in DOMAIN q }
    <3>1. u \in Actions /\ q \in Seq(Actions)
      BY <2>1, <2>2, <1>1, <1>4
    <3>2. { mDelayedQueue[i] : i \in DOMAIN mDelayedQueue } = { q[i] : i \in DOMAIN q } \cup {u}
      <4> HIDE DEF RouterInv
      <4>1. PICK s : s = mDelayedQueue
        OBVIOUS
      <4>2. s \in Seq(Actions) /\ s # <<>> /\ q = Tail(s)
        BY <4>1, <2>2, <1>1, <1>4
      <4>3. HeldIn(s) = HeldIn(q) \cup {Head(s)}
        BY <4>2, Shortened
      <4> QED
        BY <4>1, <4>3, <2>1 DEF HeldIn
    <3>3. /\ \A i, j \in DOMAIN q : q[i] = q[j] => i = j
          /\ u \notin { q[i] : i \in DOMAIN q }
      BY <2>1, <2>2, <1>1, <1>2, <1>4, Shortened
    <3> QED
      BY <3>1, <3>2, <3>3 DEF Waiting
  <2>6. Waiting' = { q[i] : i \in DOMAIN q }
    BY <2>4 DEF Waiting
  <2>7. fiber[u] = "none" /\ result[u] = <<>>
    <3>1. u \notin Launched
      BY <2>5 DEF OnePlace
    <3> QED
      BY <3>1, <2>5 DEF Launched, NoResultYet
  <2>8. EndTime(a) \in Nat /\ EndTime(a) # 0
    BY ActionKinds DEF EndTime, Typed
  <2>9. e \in HandlerSet /\ e.kind = "end"
    BY <2>3, <2>8, HandlerType
  <2>10. mStartTime' \in [Actions -> Nat] /\ \A b \in Actions : mStartTime[b] # 0 => mStartTime'[b] # 0
    BY <2>4, <2>8 DEF Typed
  <2>11. Existing \subseteq Existing'
    BY <2>10 DEF Existing, Actions
  <2>12. fiber' \in [Actions -> {"none", "running", "done"}]
            /\ \A b \in Actions : fiber'[b] = fiber[b] \/ (b = u /\ fiber'[b] = "running")
    BY <2>4, <2>5 DEF Typed
  <2>13. Launched' \subseteq Launched \cup {u}
    BY <2>12 DEF Launched
  <2>14. NoResultYet'
    BY <2>7, <2>12 DEF NoResultYet
  <2>15. \A g : g \in handlers' /\ g.kind = "start" <=> g \in hs /\ g.kind = "start"
    BY <2>4, <2>9
  <2>16. mFuture' = f \/ (mFuture' \in Actions /\ result[mFuture'] = <<>>)
    BY <2>4, <2>5, <2>7
  <2>17. \A b \in Actions : fiber[b] = "done" => fiber'[b] = "done"
    BY <2>7, <2>12
  <2> QED
    BY <2>4, <2>5, <2>6, <2>9, <2>10, <2>11, <2>12, <2>13, <2>14, <2>15, <2>16, <2>17
       DEF Activated
<1> QED
  BY <1>3, <1>4

\* endExecution of an action the tracker does not expect.
LEMMA EndIgnoredStep ==
    ASSUME RouterInv, NEW h \in handlers, EndIgnored(h) PROVE RouterInv'
<1> USE DEF RouterInv
<1>1. PICK a : a = h.action
  OBVIOUS
<1>2. PICK hs : hs = handlers \ {h}
  OBVIOUS
<1>3. /\ h.kind = "end" /\ taking = None
      /\ mCurrentActionTime' = h.time
      /\ mFuture' = FutureAfter(mFuture)
      /\ EndAndActivate(a, hs, mCurrentActionId)
      /\ UNCHANGED <<created, type, result, taking, trackerVars, mInitDone, nextEvent, thrown>>
  BY <1>1, <1>2 DEF EndIgnored, Due
<1>4. a \in Actions /\ h.time \in Nat /\ hs \subseteq HandlerSet
        /\ mCurrentActionId \in Nat /\ mFuture \in Actions \cup {None}
  BY <1>1, <1>2 DEF Typed, HandlerSet
<1>5. /\ mActiveAction' \in Actions \cup {None} /\ mFuture' \in Actions \cup {None}
      /\ mDelayedQueue' \in Seq(Actions) /\ mCurrentActionId' \in Nat
      /\ mStartTime' \in [Actions -> Nat]
      /\ fiber' \in [Actions -> {"none", "running", "done"}]
      /\ handlers' \subseteq HandlerSet
      /\ \A g : g \in handlers' /\ g.kind = "start" <=> g \in hs /\ g.kind = "start"
      /\ Waiting' \subseteq Waiting
      /\ \A i, j \in DOMAIN mDelayedQueue' : mDelayedQueue'[i] = mDelayedQueue'[j] => i = j
      /\ Existing \subseteq Existing'
      /\ Launched' \subseteq Launched \cup (Waiting \ Waiting')
      /\ NoResultYet'
      /\ mFuture' = mFuture \/ (mFuture' \in Actions /\ result[mFuture'] = <<>>)
  <2>1. /\ a \in Actions /\ hs \subseteq HandlerSet /\ mCurrentActionId \in Nat
        /\ mFuture \in Actions \cup {None} /\ EndAndActivate(a, hs, mCurrentActionId)
        /\ mFuture' = FutureAfter(mFuture) /\ UNCHANGED <<created, result>>
    BY <1>3, <1>4
  <2>2. PICK n : n = mCurrentActionId
    OBVIOUS
  <2>3. PICK f : f = mFuture
    OBVIOUS
  <2>4. /\ n \in Nat /\ EndAndActivate(a, hs, n)
        /\ f \in Actions \cup {None} /\ mFuture' = FutureAfter(f)
    BY <2>1, <2>2, <2>3
  <2> HIDE DEF RouterInv
  <2>5. RouterInv /\ UNCHANGED <<created, result>>
    BY <2>1
  <2>6. Activated(hs, f)
    BY <2>1, <2>4, <2>5, ActivateFacts
  <2> QED
    BY <2>3, <2>6 DEF Activated
<1>6. \A g : g \in handlers' /\ g.kind = "start" <=> g \in handlers /\ g.kind = "start"
  BY <1>2, <1>3, <1>5
<1>7. Starting' = Starting
  BY <1>6 DEF Starting
<1>8. DOMAIN <<>> = {}
  OBVIOUS
<1>9. Coming' \subseteq Coming
  BY <1>3, <1>5, <1>8 DEF Coming
<1>10. OnePlace'
  BY <1>5, <1>7, <1>9 DEF OnePlace
<1>11. Once'
  BY <1>3, <1>5, <1>6, <1>8 DEF Once
<1>12. Typed'
  BY <1>3, <1>4, <1>5 DEF Typed, trackerVars
<1>13. TrackerTogether'
  BY <1>3 DEF TrackerTogether, trackerVars
<1> QED
  BY <1>5, <1>10, <1>11, <1>12, <1>13

\* endExecution up to get(): the tracker moves on.
LEMMA EndExpectedStep ==
    ASSUME RouterInv, NEW h \in handlers, EndExpected(h) PROVE RouterInv'
<1> USE DEF RouterInv
<1>1. /\ mCurrentActionTime' = h.time
      /\ mNextEnd' \in {mNextStart, mNextEnd}
      /\ thrown' = (mFuture = None)
      /\ taking' = h
      /\ UNCHANGED <<mCurrentActionId, handlers, actionVars, mActiveAction,
                     mDelayedQueue, mFuture, fiberVars, mNextStart, mInitDone, nextEvent>>
  BY DEF EndExpected
<1>2. h.time \in Nat
  BY DEF Typed, HandlerSet
<1>3. thrown' \in BOOLEAN
  BY <1>1, Zenon
<1>4. Typed'
  BY <1>1, <1>2, <1>3 DEF Typed, actionVars, fiberVars
<1>5. TrackerTogether'
  BY <1>1 DEF TrackerTogether
<1>6. Starting' = Starting /\ Waiting' = Waiting /\ Coming' = Coming /\ Launched' = Launched
        /\ Existing' = Existing
  BY <1>1 DEF Starting, Waiting, Coming, Launched, Existing, fiberVars, actionVars
<1>7. OnePlace' /\ Once' /\ NoResultYet'
  BY <1>1, <1>6 DEF OnePlace, Once, NoResultYet, fiberVars
<1> QED
  BY <1>4, <1>5, <1>7

\* The handlers that the result of a fiber becomes.
LEMMA ResultHandlers ==
    ASSUME RouterInv, taking # None, mFuture # None,
           NEW data, data = result[mFuture], NEW id, id = mCurrentActionId
    PROVE  /\ taking \in handlers /\ taking.action \in Actions
           /\ data \in Seq(Created) /\ id \in Nat /\ id + Len(data) \in Nat
           /\ \A i \in DOMAIN data : data[i] \in Created /\ data[i] \in Actions /\ i \in Nat
           /\ \A i \in DOMAIN data :
                /\ Handler(mStartTime[data[i]], id + i, "start", data[i]) \in HandlerSet
                /\ Handler(mStartTime[data[i]], id + i, "start", data[i]).kind = "start"
                /\ Handler(mStartTime[data[i]], id + i, "start", data[i]).action = data[i]
           /\ StartHandlers(data, id) \subseteq HandlerSet
<1> USE DEF RouterInv
<1>1. /\ taking \in handlers /\ taking.action \in Actions
      /\ data \in Seq(Created) /\ id \in Nat /\ id + Len(data) \in Nat
  BY DEF Typed, HandlerSet
<1>2. \A i \in DOMAIN data : data[i] \in Created /\ data[i] \in Actions /\ i \in Nat
  <2> HIDE DEF RouterInv
  <2>1. data \in Seq(Created)
    BY <1>1
  <2>2. \A i \in DOMAIN data : data[i] \in Created /\ i \in Nat
    BY <2>1, EachInSeq, Zenon
  <2> QED
    BY <2>2, Zenon DEF Actions
<1>3. \A i \in DOMAIN data :
        /\ Handler(mStartTime[data[i]], id + i, "start", data[i]) \in HandlerSet
        /\ Handler(mStartTime[data[i]], id + i, "start", data[i]).kind = "start"
        /\ Handler(mStartTime[data[i]], id + i, "start", data[i]).action = data[i]
  <2> TAKE i \in DOMAIN data
  <2>1. PICK b, k : b = data[i] /\ k = i
    OBVIOUS
  <2>2. b \in Actions /\ k \in Nat
    BY <2>1, <1>2, Zenon
  <2>3. mStartTime[b] \in Nat /\ id + k \in Nat
    <3>1. mStartTime \in [Actions -> Nat] /\ id \in Nat
      BY <1>1 DEF Typed
    <3> HIDE DEF RouterInv
    <3> QED
      BY <3>1, <2>2
  <2> HIDE DEF RouterInv
  <2> QED
    BY <2>1, <2>2, <2>3 DEF Handler, HandlerSet
<1>4. StartHandlers(data, id) \subseteq HandlerSet
  BY <1>3 DEF StartHandlers
<1> QED
  BY <1>1, <1>2, <1>3, <1>4

\* get() returns: the actions of the result enter the event list, each of
\* them once and for the first time.
LEMMA TakeResultStep == ASSUME RouterInv, TakeResult PROVE RouterInv'
<1> USE DEF RouterInv
<1>1. PICK a : a = taking.action
  OBVIOUS
<1>2. PICK data : data = result[mFuture]
  OBVIOUS
<1>3. PICK id : id = mCurrentActionId
  OBVIOUS
<1>4. PICK new : new = StartHandlers(data, id)
  OBVIOUS
<1>5. PICK hs : hs = (handlers \ {taking}) \cup new
  OBVIOUS
<1>6. /\ taking # None /\ mFuture # None
      /\ taking' = None
      /\ mFuture' = FutureAfter(None)
      /\ EndAndActivate(a, hs, id + Len(data))
      /\ UNCHANGED <<mCurrentActionTime, created, type, result, trackerVars, mInitDone,
                     nextEvent, thrown>>
  BY <1>1, <1>2, <1>3, <1>4, <1>5 DEF TakeResult
<1>7. /\ taking \in handlers /\ a \in Actions
      /\ data \in Seq(Created) /\ id \in Nat /\ id + Len(data) \in Nat
  BY <1>1, <1>2, <1>3, <1>6 DEF Typed, HandlerSet
<1>8. /\ \A i \in DOMAIN data : data[i] \in Created /\ data[i] \in Actions /\ i \in Nat
      /\ \A i \in DOMAIN data :
            /\ Handler(mStartTime[data[i]], id + i, "start", data[i]) \in HandlerSet
            /\ Handler(mStartTime[data[i]], id + i, "start", data[i]).kind = "start"
            /\ Handler(mStartTime[data[i]], id + i, "start", data[i]).action = data[i]
      /\ StartHandlers(data, id) \subseteq HandlerSet
  <2> HIDE DEF RouterInv
  <2> QED
    BY <1>2, <1>3, <1>6, ResultHandlers
<1>9. new \subseteq HandlerSet /\ hs \subseteq HandlerSet
  BY <1>4, <1>5, <1>8 DEF Typed
<1>10. /\ mActiveAction' \in Actions \cup {None} /\ mFuture' \in Actions \cup {None}
       /\ mDelayedQueue' \in Seq(Actions) /\ mCurrentActionId' \in Nat
       /\ mStartTime' \in [Actions -> Nat]
       /\ fiber' \in [Actions -> {"none", "running", "done"}]
       /\ handlers' \subseteq HandlerSet
       /\ \A g : g \in handlers' /\ g.kind = "start" <=> g \in hs /\ g.kind = "start"
       /\ Waiting' \subseteq Waiting
       /\ \A i, j \in DOMAIN mDelayedQueue' : mDelayedQueue'[i] = mDelayedQueue'[j] => i = j
       /\ Existing \subseteq Existing'
       /\ Launched' \subseteq Launched \cup (Waiting \ Waiting')
       /\ NoResultYet'
       /\ mFuture' = None \/ (mFuture' \in Actions /\ result[mFuture'] = <<>>)
  <2>1. /\ a \in Actions /\ hs \subseteq HandlerSet /\ id + Len(data) \in Nat
        /\ None \in Actions \cup {None} /\ EndAndActivate(a, hs, id + Len(data))
        /\ mFuture' = FutureAfter(None) /\ UNCHANGED <<created, result>>
    BY <1>6, <1>7, <1>9
  <2>2. PICK n : n = id + Len(data)
    OBVIOUS
  <2>3. n \in Nat /\ EndAndActivate(a, hs, n)
    BY <2>1, <2>2
  <2> HIDE DEF RouterInv
  <2>4. RouterInv /\ UNCHANGED <<created, result>>
    BY <2>1
  <2>5. Activated(hs, None)
    BY <2>1, <2>3, <2>4, ActivateFacts
  <2> QED
    BY <2>5 DEF Activated
<1>11. Coming = { data[i] : i \in DOMAIN data }
  BY <1>2, <1>6, <1>8 DEF Coming
<1>12. Starting' \subseteq Starting \cup Coming
  <2> SUFFICES ASSUME NEW g \in handlers', g.kind = "start", g.action \in Actions
               PROVE  g.action \in Starting \cup Coming
    BY DEF Starting
  <2>1. g \in handlers \/ g \in new
    BY <1>5, <1>10
  <2>2. CASE g \in handlers
    BY <2>2 DEF Starting
  <2>3. CASE g \in new
    BY <2>3, <1>4, <1>8, <1>11 DEF StartHandlers
  <2> QED
    BY <2>1, <2>2, <2>3
<1>13. DOMAIN <<>> = {}
  OBVIOUS
<1>14. Coming' = {}
  BY <1>6, <1>10, <1>13 DEF Coming
<1>15. OnePlace'
  BY <1>10, <1>12, <1>14 DEF OnePlace
<1>16. Once'
  <2>1. ASSUME NEW g \in handlers', NEW k \in handlers', g.kind = "start", k.kind = "start",
               g.action = k.action
        PROVE  g = k
    <3>1. (g \in handlers \/ g \in new) /\ (k \in handlers \/ k \in new)
      BY <2>1, <1>5, <1>10
    <3>2. \A x \in new : x.action \in Coming
      BY <1>4, <1>8, <1>11 DEF StartHandlers
    <3>3. \A x \in handlers : x.kind = "start" => x.action \notin Coming
      BY DEF OnePlace, Starting, Coming
    <3>4. CASE g \in handlers /\ k \in handlers
      BY <3>4, <2>1 DEF Once
    <3>5. CASE g \in new /\ k \in new
      <4>1. PICK i \in DOMAIN data : g = Handler(mStartTime[data[i]], id + i, "start", data[i])
        BY <3>5, <1>4 DEF StartHandlers
      <4>2. PICK j \in DOMAIN data : k = Handler(mStartTime[data[j]], id + j, "start", data[j])
        BY <3>5, <1>4 DEF StartHandlers
      <4>3. data[i] = data[j]
        BY <4>1, <4>2, <2>1, <1>8
      <4>4. i = j
        BY <4>3, <1>2, <1>6 DEF Once
      <4> QED
        BY <4>1, <4>2, <4>4
    <3> QED
      BY <3>1, <3>2, <3>3, <3>4, <3>5, <2>1
  <2> QED
    BY <2>1, <1>6, <1>10, <1>13 DEF Once
<1>17. Typed'
  BY <1>6, <1>10 DEF Typed, trackerVars
<1>18. TrackerTogether'
  BY <1>6 DEF TrackerTogether, trackerVars
<1> QED
  BY <1>10, <1>15, <1>16, <1>17, <1>18

\* The radio sends an indication that it never sent before.
LEMMA SendIndicationStep ==
    ASSUME RouterInv, NEW a \in Indications, NEW t \in 1..MaxTime, SendIndication(a, t)
    PROVE  RouterInv'
<1> USE DEF RouterInv
<1>1. PICK e : e = Handler(t, mCurrentActionId + 1, "start", a)
  OBVIOUS
<1>2. /\ taking = None
      /\ mStartTime[a] = 0
      /\ mStartTime' = [mStartTime EXCEPT ![a] = t]
      /\ mCurrentActionId' = mCurrentActionId + 1
      /\ handlers' = handlers \cup {e}
      /\ UNCHANGED <<mCurrentActionTime, created, type, objectVars, fiberVars, trackerVars,
                     mInitDone, nextEvent, thrown>>
  BY <1>1 DEF SendIndication
<1>3. a \in Actions /\ a \notin Created /\ t \in Nat /\ t # 0 /\ mCurrentActionId \in Nat
  BY ActionKinds DEF Actions, Typed
<1>4. e \in HandlerSet /\ e.kind = "start" /\ e.action = a
  <2>1. PICK n : n = mCurrentActionId + 1
    OBVIOUS
  <2>2. n \in Nat
    BY <2>1, <1>3
  <2> QED
    BY <2>1, <2>2, <1>1, <1>3, HandlerType
<1>5. a \notin Existing
  BY <1>2, <1>3 DEF Existing
<1>6. Starting' = Starting \cup {a}
  BY <1>2, <1>3, <1>4 DEF Starting
<1>7. Waiting' = Waiting /\ Coming' = Coming /\ Launched' = Launched
  BY <1>2 DEF Waiting, Coming, Launched, objectVars, fiberVars
<1>8. mStartTime' \in [Actions -> Nat] /\ mStartTime'[a] # 0
        /\ \A b \in Actions : mStartTime[b] # 0 => mStartTime'[b] # 0
  BY <1>2, <1>3 DEF Typed
<1>9. Existing \cup {a} \subseteq Existing'
  BY <1>2, <1>3, <1>8 DEF Existing, Actions
<1>10. OnePlace'
  BY <1>5, <1>6, <1>7, <1>9 DEF OnePlace
<1>11. Once'
  <2>1. \A g \in handlers : g.kind = "start" => g.action # a
    BY <1>3, <1>5 DEF OnePlace, Starting
  <2>2. \A g, h \in handlers' :
          g.kind = "start" /\ h.kind = "start" /\ g.action = h.action => g = h
    BY <2>1, <1>2, <1>4 DEF Once
  <2> QED
    BY <2>2, <1>2 DEF Once, objectVars, fiberVars
<1>12. Typed'
  <2>1. handlers' \subseteq HandlerSet /\ taking' \in handlers' \cup {None}
    BY <1>2, <1>4 DEF Typed, objectVars
  <2> QED
    BY <2>1, <1>2, <1>3, <1>8 DEF Typed, objectVars, fiberVars, trackerVars
<1>13. NoResultYet' /\ TrackerTogether'
  BY <1>2 DEF NoResultYet, TrackerTogether, fiberVars, trackerVars
<1> QED
  BY <1>10, <1>11, <1>12, <1>13

\* What a fiber creates: actions of the router's types that start at numbers,
\* perhaps with an update at the end that the tracker takes up.
LEMMA WhatFibersCreate ==
    ASSUME RouterInv, NEW a \in Actions, FiberFinishes(a)
    PROVE  /\ nextEvent' \in Nat
           /\ \E ts \in Seq(Types), ss \in Seq(Nat) :
                /\ Len(ts) = Len(ss)
                /\ Creates(a, ts, ss)
                /\ \/ UNCHANGED trackerVars
                   \/ Len(ts) # 0 /\ SetNext(created')
<1> USE DEF RouterInv
<1>1. CASE type[a] = "indication" /\ ~mInitDone
  <2>1. Creates(a, <<>>, <<>>) /\ UNCHANGED <<trackerVars, nextEvent>>
    BY <1>1 DEF FiberFinishes
  <2>2. <<>> \in Seq(Types) /\ <<>> \in Seq(Nat) /\ Len(<<>>) = 0
    OBVIOUS
  <2> QED
    BY <2>1, <2>2 DEF Typed
<1>2. CASE ~(type[a] = "indication" /\ ~mInitDone)
  <2>1. PICK t0 : t0 = [i \in DOMAIN CaUpdateOf(a) |-> "caUpdate"]
    OBVIOUS
  <2>2. PICK s0 : s0 = CaUpdateOf(a)
    OBVIOUS
  <2>3. PICK event \in EventsAfter(mStartTime[a]) :
          nextEvent' = event /\ CreatesWithUpdate(a, t0, s0, event)
    BY <2>1, <2>2, <1>2 DEF FiberFinishes
  <2>4. event \in Nat
    BY <2>3, ActionKinds DEF EventsAfter, Typed
  <2>5. s0 \in Seq(Nat) /\ Len(s0) \in Nat
    <3>1. PICK n : n = mStartTime[a] + CaPeriod
      OBVIOUS
    <3>2. n \in Nat
      BY <3>1, ActionKinds DEF Typed
    <3>3. s0 = <<>> \/ s0 = <<n>>
      BY <2>2, <3>1 DEF CaUpdateOf
    <3> HIDE DEF RouterInv
    <3>4. <<>> \in Seq(Nat) /\ <<n>> \in Seq(Nat) /\ Len(<<>>) = 0 /\ Len(<<n>>) = 1
      BY <3>2
    <3> QED
      BY <3>3, <3>4
  <2>6. t0 \in Seq(Types) /\ Len(t0) = Len(s0)
    <3>1. DOMAIN s0 = 1..Len(s0) /\ t0 = [i \in 1..Len(s0) |-> "caUpdate"]
      BY <2>1, <2>2, <2>5
    <3>2. "caUpdate" \in Types
      BY DEF Types
    <3> QED
      BY <3>1, <3>2, <2>5
  <2>7. CASE event # NextStart
    <3>1. Creates(a, t0 \o <<"update">>, s0 \o <<event>>) /\ SetNext(created')
      BY <2>3, <2>7 DEF CreatesWithUpdate
    <3>2. "update" \in Types
      BY DEF Types
    <3>3. <<"update">> \in Seq(Types) /\ Len(<<"update">>) = 1
      BY <3>2
    <3>4. <<event>> \in Seq(Nat) /\ Len(<<event>>) = 1
      BY <2>4
    <3>5. PICK ts : ts = t0 \o <<"update">>
      OBVIOUS
    <3>6. PICK ss : ss = s0 \o <<event>>
      OBVIOUS
    <3>7. /\ ts \in Seq(Types) /\ ss \in Seq(Nat)
          /\ Len(ts) = Len(ss) /\ Len(ts) # 0
      BY <3>3, <3>4, <3>5, <3>6, <2>5, <2>6
    <3> QED
      BY <3>1, <3>5, <3>6, <3>7, <2>3, <2>4
  <2>8. CASE event = NextStart
    <3>1. Creates(a, t0, s0) /\ UNCHANGED trackerVars
      BY <2>3, <2>8 DEF CreatesWithUpdate
    <3> QED
      BY <3>1, <2>3, <2>4, <2>5, <2>6
  <2> QED
    BY <2>7, <2>8
<1> QED
  BY <1>1, <1>2

\* A fiber creates actions and is done: the new actions are in its result.
LEMMA FiberFinishesStep ==
    ASSUME RouterInv, NEW a \in Actions, FiberFinishes(a) PROVE RouterInv'
<1> USE DEF RouterInv
<1>1. /\ fiber[a] = "running"
      /\ mInitDone' = (mInitDone \/ type[a] = "initRouter")
      /\ UNCHANGED <<coreVars, objectVars, thrown>>
  BY DEF FiberFinishes
<1>2. nextEvent' \in Nat
  BY WhatFibersCreate
<1>3. PICK ts \in Seq(Types), ss \in Seq(Nat) :
        /\ Len(ts) = Len(ss)
        /\ Creates(a, ts, ss)
        /\ \/ UNCHANGED trackerVars
           \/ Len(ts) # 0 /\ SetNext(created')
  BY WhatFibersCreate
<1>4. PICK c : c = created
  OBVIOUS
<1>5. PICK n : n = Len(ts)
  OBVIOUS
<1>6. PICK d : d = [i \in 1..n |-> c + i]
  OBVIOUS
<1>7. PICK New : New = { b \in Created : b > c /\ b <= c + n }
  OBVIOUS
<1>8. /\ c \in Nat /\ n \in Nat /\ MaxActions \in Nat
      /\ DOMAIN ts = 1..n /\ DOMAIN ss = 1..n
      /\ \A i \in 1..n : ts[i] \in Types /\ ss[i] \in Nat
  <2>1. Len(ts) \in Nat /\ DOMAIN ts = 1..Len(ts) /\ \A i \in DOMAIN ts : ts[i] \in Types
    BY <1>3, EachInSeq
  <2>2. Len(ss) \in Nat /\ DOMAIN ss = 1..Len(ss) /\ \A i \in DOMAIN ss : ss[i] \in Nat
    BY <1>3, EachInSeq
  <2> QED
    BY <2>1, <2>2, <1>3, <1>4, <1>5, RouterAssumption DEF Typed
<1>9. /\ created' = c + n /\ c + n <= MaxActions
      /\ type' = [b \in Actions |-> IF b \in New THEN ts[b - c] ELSE type[b]]
      /\ mStartTime' = [b \in Actions |-> IF b \in New THEN ss[b - c] ELSE mStartTime[b]]
      /\ result' = [result EXCEPT ![a] = d]
      /\ fiber' = [fiber EXCEPT ![a] = "done"]
  BY <1>3, <1>4, <1>5, <1>6, <1>7 DEF Creates
<1>10. \A b \in New : b - c \in 1..n
  BY <1>7, <1>8 DEF Created
<1>11. type' \in [Actions -> Types] /\ mStartTime' \in [Actions -> Nat]
  BY <1>8, <1>9, <1>10 DEF Typed
<1>12. /\ d \in Seq(Created) /\ DOMAIN d = 1..n
       /\ \A i, j \in 1..n : d[i] = d[j] => i = j
       /\ \A i \in 1..n : d[i] \in New
  <2>1. \A i \in 1..n : c + i \in Created /\ c + i \in New
    BY <1>7, <1>8, <1>9 DEF Created
  <2>2. \A i, j \in 1..n : c + i = c + j => i = j
    BY <1>8
  <2> HIDE DEF RouterInv
  <2>3. DOMAIN d = 1..n /\ \A i \in 1..n : d[i] = c + i
    BY <1>6
  <2>4. d \in [1..n -> Created]
    BY <2>1, <1>6
  <2>5. d \in Seq(Created)
    BY <2>4, <1>8, MakeSeq
  <2> QED
    BY <2>1, <2>2, <2>3, <2>5
<1>13. result' \in [Actions -> Seq(Created)] /\ result'[a] = d
        /\ \A b \in Actions : b # a => result'[b] = result[b]
  BY <1>9, <1>12 DEF Typed
<1>14. fiber' \in [Actions -> {"none", "running", "done"}] /\ fiber'[a] = "done"
        /\ \A b \in Actions : b # a => fiber'[b] = fiber[b]
  BY <1>9 DEF Typed
<1>15. New \cap Existing = {}
  BY <1>4, <1>7, <1>8, ActionKinds DEF Existing, Created
<1>16. Existing \cup New \subseteq Existing'
  <2>1. ASSUME NEW b \in Created, b <= c PROVE b \in Created /\ b <= c + n
    BY <2>1, <1>8 DEF Created
  <2>2. ASSUME NEW b \in Indications, mStartTime[b] # 0 PROVE mStartTime'[b] # 0
    <3>1. b \notin New /\ b \in Actions
      BY <1>7, ActionKinds DEF Actions
    <3> QED
      BY <3>1, <2>2, <1>9
  <2>3. \A b \in New : b \in Created /\ b <= c + n
    BY <1>7
  <2> QED
    BY <2>1, <2>2, <2>3, <1>4, <1>9 DEF Existing
<1>17. Starting' = Starting /\ Waiting' = Waiting
  BY <1>1 DEF Starting, Waiting, coreVars, objectVars
<1>18. Launched' = Launched
  BY <1>1, <1>14 DEF Launched
<1>19. Coming' \subseteq Coming \cup New
  <2>1. PICK m : m = mFuture
    OBVIOUS
  <2>2. m' = m /\ mFuture' = m /\ m \in Actions \cup {None}
    BY <2>1, <1>1 DEF objectVars, Typed
  <2>3. ASSUME NEW b \in Coming' PROVE b \in Coming \cup New
    <3>1. b \in Actions /\ m # None /\ \E i \in DOMAIN result'[m] : result'[m][i] = b
      BY <2>2, <2>3 DEF Coming
    <3>2. CASE m = a
      <4>1. \E i \in 1..n : d[i] = b
        BY <3>1, <3>2, <1>12, <1>13
      <4> QED
        BY <4>1, <1>12
    <3>3. CASE m # a
      <4>1. result'[m] = result[m]
        BY <3>1, <3>3, <2>2, <1>13
      <4>2. \E i \in DOMAIN result[m] : result[m][i] = b
        BY <3>1, <4>1
      <4> QED
        BY <3>1, <4>2, <2>1 DEF Coming
    <3> QED
      BY <3>2, <3>3
  <2> QED
    BY <2>3
<1>20. OnePlace'
  BY <1>15, <1>16, <1>17, <1>18, <1>19 DEF OnePlace
<1>21. Once'
  <2>1. mFuture' # None =>
          \A i, j \in DOMAIN result'[mFuture'] : result'[mFuture'][i] = result'[mFuture'][j] => i = j
    <3>1. PICK m : m = mFuture
      OBVIOUS
    <3>2. mFuture' = m /\ m \in Actions \cup {None}
      BY <3>1, <1>1 DEF objectVars, Typed
    <3>3. CASE m = a
      <4>1. \A i, j \in DOMAIN d : d[i] = d[j] => i = j
        BY <1>12
      <4> QED
        BY <4>1, <3>2, <3>3, <1>13
    <3>4. CASE m # None /\ m # a
      <4>1. result'[m] = result[m]
        BY <3>2, <3>4, <1>13
      <4>2. \A i, j \in DOMAIN result[m] : result[m][i] = result[m][j] => i = j
        BY <3>1, <3>4 DEF Once
      <4> QED
        BY <4>1, <4>2, <3>2
    <3> QED
      BY <3>2, <3>3, <3>4
  <2> QED
    BY <2>1, <1>1 DEF Once, coreVars, objectVars
<1>22. NoResultYet'
  BY <1>13, <1>14 DEF NoResultYet
<1>23. /\ mNextStart' \in Actions \cup {None} /\ mNextEnd' \in Actions \cup {None}
       /\ TrackerTogether'
  <2>1. CASE UNCHANGED trackerVars
    BY <2>1 DEF trackerVars, TrackerTogether, Typed
  <2>2. CASE Len(ts) # 0 /\ SetNext(created')
    <3>1. created' \in Actions /\ created' # None
      BY <2>2, <1>5, <1>8, <1>9, ActionKinds DEF Actions, Created
    <3> QED
      BY <2>2, <3>1 DEF SetNext, TrackerTogether, Typed
  <2> QED
    BY <2>1, <2>2, <1>3
<1>24. mInitDone' \in BOOLEAN
  <2>1. mInitDone' = TRUE \/ mInitDone' = FALSE
    BY <1>1
  <2> QED
    BY <2>1, Zenon
<1>25. created' \in Nat
  BY <1>8, <1>9
<1>26. Typed'
  BY <1>1, <1>2, <1>11, <1>13, <1>14, <1>23, <1>24, <1>25 DEF Typed, coreVars, objectVars
<1> QED
  BY <1>20, <1>21, <1>22, <1>23, <1>26

-----------------------------------------------------------------------------
(* The theorems.                                                           *)

\* Every step keeps the invariant.
LEMMA NextRouterInv == RouterInv /\ [Next]_vars => RouterInv'
<1> SUFFICES ASSUME RouterInv, [Next]_vars PROVE RouterInv'
  OBVIOUS
<1>1. ASSUME NEW h \in handlers, StartNow(h) PROVE RouterInv'
  BY <1>1, StartNowStep
<1>2. ASSUME NEW h \in handlers, StartLater(h) PROVE RouterInv'
  BY <1>2, StartLaterStep
<1>3. ASSUME NEW h \in handlers, EndIgnored(h) PROVE RouterInv'
  BY <1>3, EndIgnoredStep
<1>4. ASSUME NEW h \in handlers, EndExpected(h) PROVE RouterInv'
  BY <1>4, EndExpectedStep
<1>5. CASE TakeResult
  BY <1>5, TakeResultStep
<1>6. ASSUME NEW a \in Indications, NEW t \in 1..MaxTime, SendIndication(a, t) PROVE RouterInv'
  BY <1>6, SendIndicationStep
<1>7. ASSUME NEW a \in Actions, FiberFinishes(a) PROVE RouterInv'
  BY <1>7, FiberFinishesStep
<1>8. CASE UNCHANGED vars
  <2> USE <1>8 DEF vars, coreVars, actionVars, objectVars, fiberVars, trackerVars
  <2>1. Typed' <=> Typed
    BY DEF Typed
  <2>2. Starting' = Starting /\ Waiting' = Waiting /\ Coming' = Coming /\ Launched' = Launched
          /\ Existing' = Existing
    BY DEF Starting, Waiting, Coming, Launched, Existing
  <2>3. (OnePlace' <=> OnePlace) /\ (Once' <=> Once)
    BY <2>2 DEF OnePlace, Once
  <2>4. (NoResultYet' <=> NoResultYet) /\ (TrackerTogether' <=> TrackerTogether)
    BY DEF NoResultYet, TrackerTogether
  <2> QED
    BY <2>1, <2>3, <2>4 DEF RouterInv
<1> QED
  BY <1>1, <1>2, <1>3, <1>4, <1>5, <1>6, <1>7, <1>8 DEF Next, CoreStep

\* The invariant of the router: the types, the tracker's pointers, and every
\* action in one place at a time, once.
THEOREM RouterInvariant == Spec => []RouterInv
<1>1. Init => RouterInv
  BY InitRouterInv
<1>2. RouterInv /\ [Next]_vars => RouterInv'
  BY NextRouterInv
<1> QED
  BY <1>1, <1>2, PTL DEF Spec

\* Every variable of the router keeps its type.
THEOREM RouterTypeCorrect == Spec => []TypeOK
<1>1. RouterInv => TypeOK
  BY TypesOneByOne DEF RouterInv
<1> QED
  BY <1>1, RouterInvariant, PTL

\* The two pointers of the tracker are null together, whatever the order in
\* which the fibers set them and the core thread reads and moves them.
THEOREM TrackerSetTogether == Spec => []TrackerTogether
<1>1. RouterInv => TrackerTogether
  BY DEF RouterInv
<1> QED
  BY <1>1, RouterInvariant, PTL

\* No fiber is launched again after it is done.
LEMMA DoneStaysDone ==
    ASSUME RouterInv, [Next]_vars, NEW b \in Actions, fiber[b] = "done"
    PROVE  fiber'[b] = "done"
<1> USE DEF RouterInv
<1>1. b \in Launched
  BY DEF Launched
<1>2. ASSUME NEW h \in handlers, StartNow(h) PROVE fiber'[b] = "done"
  <2>1. PICK a : a = h.action
    OBVIOUS
  <2>2. h.kind = "start" /\ a \in Actions /\ StartExecution(a)
    BY <2>1, <1>2 DEF StartNow, Due, Typed, HandlerSet
  <2>3. a \in Starting
    BY <2>1, <2>2 DEF Starting
  <2>4. a # b
    BY <2>3, <1>1 DEF OnePlace
  <2> QED
    BY <2>2, <2>4 DEF StartExecution, Typed
<1>3. ASSUME NEW h \in handlers, EndIgnored(h) PROVE fiber'[b] = "done"
  <2>1. PICK a : a = h.action
    OBVIOUS
  <2>2. PICK hs : hs = handlers \ {h}
    OBVIOUS
  <2>3. PICK n : n = mCurrentActionId
    OBVIOUS
  <2>4. PICK f : f = mFuture
    OBVIOUS
  <2>5. /\ mFuture' = FutureAfter(f) /\ EndAndActivate(a, hs, n)
        /\ UNCHANGED <<created, result>>
    BY <2>1, <2>2, <2>3, <2>4, <1>3 DEF EndIgnored
  <2>6. a \in Actions /\ hs \subseteq HandlerSet /\ n \in Nat /\ f \in Actions \cup {None}
    BY <2>1, <2>2, <2>3, <2>4 DEF Typed, HandlerSet
  <2> HIDE DEF RouterInv
  <2>7. Activated(hs, f)
    BY <2>5, <2>6, ActivateFacts
  <2> QED
    BY <2>7 DEF Activated
<1>4. CASE TakeResult
  <2>1. PICK a : a = taking.action
    OBVIOUS
  <2>2. PICK data : data = result[mFuture]
    OBVIOUS
  <2>3. PICK id : id = mCurrentActionId
    OBVIOUS
  <2>4. PICK hs : hs = (handlers \ {taking}) \cup StartHandlers(data, id)
    OBVIOUS
  <2>5. PICK n : n = id + Len(data)
    OBVIOUS
  <2>6. /\ mFuture' = FutureAfter(None) /\ EndAndActivate(a, hs, n)
        /\ taking # None /\ mFuture # None
        /\ UNCHANGED <<created, result>>
    BY <2>1, <2>2, <2>3, <2>4, <2>5, <1>4 DEF TakeResult
  <2>7. handlers \subseteq HandlerSet
    BY DEF Typed
  <2> HIDE DEF RouterInv
  <2>8. /\ taking.action \in Actions /\ id + Len(data) \in Nat
        /\ StartHandlers(data, id) \subseteq HandlerSet
    BY <2>2, <2>3, <2>6, ResultHandlers
  <2>9. a \in Actions /\ hs \subseteq HandlerSet /\ n \in Nat
    BY <2>1, <2>4, <2>5, <2>7, <2>8
  <2>10. Activated(hs, None)
    BY <2>6, <2>9, ActivateFacts
  <2> QED
    BY <2>10 DEF Activated
<1>5. ASSUME NEW a \in Actions, FiberFinishes(a) PROVE fiber'[b] = "done"
  <2>1. PICK ts, ss : Creates(a, ts, ss)
    BY <1>5, WhatFibersCreate
  <2> QED
    BY <2>1 DEF Creates, Typed
<1>6. CASE UNCHANGED fiber
  BY <1>6
<1>7. \A h \in handlers : StartLater(h) \/ EndExpected(h) => UNCHANGED fiber
  BY DEF StartLater, EndExpected, fiberVars
<1>8. \A a \in Indications, t \in 1..MaxTime : SendIndication(a, t) => UNCHANGED fiber
  BY DEF SendIndication, fiberVars
<1>9. UNCHANGED vars => UNCHANGED fiber
  BY DEF vars, fiberVars
<1> QED
  BY <1>2, <1>3, <1>4, <1>5, <1>6, <1>7, <1>8, <1>9 DEF Next, CoreStep

\* No result is scheduled twice: a fiber that is done is never launched again,
\* although end handlers are sent again and the result of one fiber is taken
\* at the end of another action.
THEOREM LaunchedOnlyOnce == Spec => LaunchedOnce
<1>1. RouterInv /\ [Next]_vars => [\A a \in Actions : fiber[a] = "done" => fiber'[a] = "done"]_vars
  BY DoneStaysDone
<1> QED
  BY <1>1, RouterInvariant, PTL DEF Spec, LaunchedOnce

=============================================================================
