--------------------------- MODULE RealtimeProofs ---------------------------
(* What holds of the streams and the Redis clients for any number of          *)
(* instances, requests and tabs, and whatever saves are tried in any order.   *)
EXTENDS RealtimeStream, TLAPS

\* What one request is in, given the clients of all instances.  A stream that joins
\* or listens does so on the client its instance has, or was caught joining.
Sound(r, clients) ==
  /\ r \in RequestType
  /\ r.step # "free" => r.at \in Instances
  /\ r.sub # "none" => r.step = "on"
  /\ r.tracked <=> r.step = "on"
  /\ r.step = "on" => r.open /\ r.sub \in Targets
  /\ r.step = "join" => r.to \in Targets /\ (r.late \/ clients[r.at] = r.to)
  /\ r.step = "secrets" => r.read.url \in Urls \cup {"never"}
  /\ r.step = "resume" => r.read \in Configs
  /\ r.step = "on" => (r.late \/ clients[r.at] = r.sub)

IInv == TypeOK /\ \A r \in Requests : Sound(request[r], backend)

-----------------------------------------------------------------------------
(* Facts about the definitions *)

LEMMA TargetType == ASSUME NEW c \in ReadType PROVE Target(c) \in Targets \cup {"none"}
  BY RealtimeAssumption DEF Target, Resolved, Targets, Urls, ReadType

LEMMA FreeIsSound == ASSUME NEW clients PROVE Sound(Free, clients)
  BY DEF Sound, Free, RequestType, Steps, Kinds, NoConfig, ReadType, Targets

LEMMA CleanedIsSound ==
  ASSUME NEW r, NEW clients, Sound(r, clients)
  PROVE  Sound(Cleaned(r), clients)
  <1>1. CASE r.step \in {"on", "idle"}
    BY <1>1, FreeIsSound DEF Cleaned
  <1>2. CASE r.step \notin {"on", "idle"}
    BY <1>2 DEF Cleaned, Sound, RequestType
  <1> QED
    BY <1>1, <1>2

\* Dropping the client of an instance leaves nothing there that depends on it.
LEMMA DroppedIsSound ==
  ASSUME IInv, NEW i, NEW clients,
         \A j \in Instances : j # i => clients[j] = backend[j]
  PROVE  \A r \in Requests : Sound(Dropped(i)[r], clients)
  <1> SUFFICES ASSUME NEW r \in Requests PROVE Sound(Dropped(i)[r], clients)
    OBVIOUS
  <1>0. Sound(request[r], backend)
    BY DEF IInv
  <1>1. CASE request[r].at # i
    BY <1>0, <1>1 DEF Dropped, Sound
  <1>2. CASE request[r].at = i /\ request[r].tracked
    BY <1>0, <1>2, FreeIsSound DEF Dropped, Sound, Cleaned
  <1>3. CASE request[r].at = i /\ ~request[r].tracked /\ request[r].step = "join"
    <2>1. Dropped(i)[r] = [request[r] EXCEPT !.late = TRUE]
      BY <1>3 DEF Dropped
    <2> QED
      BY <1>0, <1>3, <2>1 DEF Sound, RequestType
  <1>4. CASE request[r].at = i /\ ~request[r].tracked /\ request[r].step # "join"
    BY <1>0, <1>4 DEF Dropped, Sound
  <1> QED
    BY <1>1, <1>2, <1>3, <1>4

\* Of a step that changes requests, clients, caches or tabs only: every request being
\* sound is enough.
LEMMA SoundIsEnough ==
  ASSUME IInv, DOMAIN request' = Requests, request' \in [Requests -> RequestType],
         \A r \in Requests : Sound(request'[r], backend'),
         backend' \in [Instances -> Targets \cup {"none"}],
         cache' \in [Instances -> Configs \cup {NoConfig}],
         stored' \in Configs,
         page' \in [Tabs -> [opened : BOOLEAN, behind : BOOLEAN, refused : BOOLEAN]],
         save' \in [Saves -> [at : Instances \cup {Nowhere}, todo : Seq(Puts), asked : BOOLEAN]],
         saves' \in 0..MaxSaves
  PROVE  IInv'
  BY DEF IInv, TypeOK

\* Of a step that changes one request and no client.
LEMMA RequestMoves ==
  ASSUME IInv, NEW r \in Requests, NEW new,
         request' = [request EXCEPT ![r] = new], Sound(new, backend),
         UNCHANGED <<stored, cache, backend, save, saves>>,
         page' \in [Tabs -> [opened : BOOLEAN, behind : BOOLEAN, refused : BOOLEAN]]
  PROVE  IInv'
  <1>1. new \in RequestType
    BY DEF Sound
  <1> QED
    BY <1>1 DEF IInv, TypeOK, Sound

\* redisBackend keeps every request sound, the one that calls it included.
LEMMA UseBackendKeeps ==
  ASSUME IInv, NEW r \in Requests, NEW c \in ReadType,
         request[r].step \in {"settings", "resume"}, UseBackend(r, c)
  PROVE  /\ backend' \in [Instances -> Targets \cup {"none"}]
         /\ request' \in [Requests -> RequestType]
         /\ \A x \in Requests : Sound(request'[x], backend')
  <1> DEFINE i  == request[r].at
             to == Target(c)
             replaced == to # "none" /\ backend[i] \notin {"none", to}
             before == IF replaced THEN Dropped(i) ELSE request
  <1>1. i \in Instances /\ to \in Targets \cup {"none"} /\ Sound(request[r], backend)
    BY TargetType DEF IInv, Sound
  <1>0. NoConfig \in ReadType
    BY DEF NoConfig, ReadType
  <1>2. /\ backend' = IF to = "none" THEN backend ELSE [backend EXCEPT ![i] = to]
        /\ request' = [before EXCEPT ![r] = Served(r, to)]
    BY DEF UseBackend
  <1>3. backend' \in [Instances -> Targets \cup {"none"}]
    BY <1>1, <1>2 DEF IInv, TypeOK
  <1>4. \A j \in Instances : j # i => backend'[j] = backend[j]
    BY <1>1, <1>2 DEF IInv, TypeOK
  <1>5. to # "none" => backend'[i] = to
    BY <1>1, <1>2 DEF IInv, TypeOK
  <1>6. DOMAIN before = Requests
    BY DEF Dropped, IInv, TypeOK
  <1>7. \A x \in Requests : Sound(before[x], backend')
    <2>1. CASE replaced
      BY <1>4, <2>1, DroppedIsSound
    <2>2. CASE ~replaced
      <3> SUFFICES ASSUME NEW x \in Requests PROVE Sound(request[x], backend')
        BY <2>2
      <3>1. Sound(request[x], backend)
        BY DEF IInv
      <3>2. CASE to = "none" \/ request[x].at # i
        BY <1>2, <1>4, <3>1, <3>2 DEF Sound
      <3>3. CASE to # "none" /\ request[x].at = i /\ backend[i] = to
        BY <1>4, <1>5, <3>1, <3>3 DEF Sound
      <3>4. CASE to # "none" /\ request[x].at = i /\ backend[i] = "none"
        BY <1>4, <3>1, <3>4 DEF Sound, Targets
      <3> QED
        BY <2>2, <3>2, <3>3, <3>4
    <2> QED
      BY <2>1, <2>2
  <1>8. Sound(Served(r, to), backend')
    <2>1. CASE to = "none" /\ ~request[r].open
      BY <2>1, FreeIsSound DEF Served
    <2>2. CASE to = "none" /\ request[r].open
      <3>1. Served(r, to) = [request[r] EXCEPT !.step = "idle", !.read = NoConfig]
        BY <2>2 DEF Served
      <3> QED
        BY <1>1, <3>1, <1>0 DEF Sound, RequestType, Steps
    <2>3. CASE to # "none" /\ request[r].kind = "publisher"
      <3>1. Served(r, to) = [request[r] EXCEPT !.step = "publish", !.to = to, !.read = NoConfig]
        BY <2>3 DEF Served
      <3> QED
        BY <1>1, <3>1, <1>0 DEF Sound, RequestType, Steps
    <2>4. CASE to # "none" /\ request[r].kind # "publisher"
      <3>1. Served(r, to) = [request[r] EXCEPT !.step = "join", !.to = to, !.read = NoConfig]
        BY <2>4 DEF Served
      <3> QED
        BY <1>1, <1>5, <2>4, <3>1, <1>0 DEF Sound, RequestType, Steps
    <2> QED
      BY <2>1, <2>2, <2>3, <2>4
  <1>9. \A x \in Requests : Sound(request'[x], backend')
    BY <1>2, <1>6, <1>7, <1>8
  <1>10. request' \in [Requests -> RequestType]
    <2>1. \A x \in Requests : request'[x] \in RequestType
      BY <1>9 DEF Sound
    <2>2. request' = [x \in Requests |-> request'[x]]
      BY <1>2, <1>6 DEF Dropped, IInv, TypeOK
    <2> QED
      BY <2>1, <2>2
  <1> QED
    BY <1>3, <1>9, <1>10

-----------------------------------------------------------------------------
(* The inductive invariant *)

LEMMA InvInit == Init => IInv
<1> SUFFICES ASSUME Init PROVE IInv
  OBVIOUS
<1>1. Free \in RequestType
  BY FreeIsSound DEF Sound
<1>2. Settled \in [at : Instances \cup {Nowhere}, todo : Seq(Puts), asked : BOOLEAN]
  BY DEF Settled
<1>3. TypeOK
  BY <1>1, <1>2, RealtimeAssumption DEF Init, TypeOK, Fresh
<1> QED
  BY <1>3, FreeIsSound DEF IInv, Init

LEMMA GetConfigKeeps ==
  ASSUME IInv, NEW r \in Requests, UseCached(r) \/ ReadSettings(r) \/ ReadSecrets(r) \/ Resume(r)
  PROVE  IInv'
<1>0. Sound(request[r], backend)
  BY DEF IInv
<1>1. CASE UseCached(r)
  <2>1. cache[request[r].at] \in ReadType
    BY <1>0, <1>1 DEF UseCached, IInv, TypeOK, Sound, Configs, ReadType, NoConfig
  <2>2. /\ backend' \in [Instances -> Targets \cup {"none"}]
        /\ request' \in [Requests -> RequestType]
        /\ \A x \in Requests : Sound(request'[x], backend')
    BY <1>1, <2>1, UseBackendKeeps DEF UseCached
  <2> QED
    BY <1>1, <2>2 DEF UseCached, IInv, TypeOK
<1>2. CASE ReadSettings(r)
  <2> DEFINE read == [url |-> stored.url, token |-> "none"]
             new  == [request[r] EXCEPT !.step = "secrets", !.read = read]
  <2>1. read \in ReadType /\ read.url \in Urls \cup {"never"}
    BY DEF IInv, TypeOK, Configs, ReadType
  <2>2. Sound(new, backend)
    BY <1>0, <1>2, <2>1 DEF ReadSettings, Sound, RequestType, Steps
  <2>3. request' = [request EXCEPT ![r] = new]
    BY <1>2 DEF ReadSettings
  <2> QED
    BY <1>2, <2>2, <2>3, RequestMoves DEF ReadSettings, IInv, TypeOK
<1>3. CASE ReadSecrets(r)
  <2> DEFINE read == [url |-> request[r].read.url, token |-> stored.token]
             new  == [request[r] EXCEPT !.step = "resume", !.read = read]
  <2>1. read \in ReadType /\ read \in Configs
    BY <1>0, <1>3 DEF ReadSecrets, Sound, IInv, TypeOK, Configs, ReadType
  <2>2. Sound(new, backend)
    BY <1>0, <1>3, <2>1 DEF ReadSecrets, Sound, RequestType, Steps
  <2>3. request' = [request EXCEPT ![r] = new]
    BY <1>3 DEF ReadSecrets
  <2> QED
    BY <1>3, <2>2, <2>3, RequestMoves DEF ReadSecrets, IInv, TypeOK
<1>4. CASE Resume(r)
  <2>1. request[r].read \in ReadType
    BY <1>0 DEF Sound, RequestType
  <2>2. /\ backend' \in [Instances -> Targets \cup {"none"}]
        /\ request' \in [Requests -> RequestType]
        /\ \A x \in Requests : Sound(request'[x], backend')
    BY <1>4, <2>1, UseBackendKeeps DEF Resume
  <2>3. cache' \in [Instances -> Configs \cup {NoConfig}]
    BY <1>0, <1>4 DEF Resume, Sound, IInv, TypeOK
  <2> QED
    BY <1>4, <2>2, <2>3 DEF Resume, IInv, TypeOK
<1> QED
  BY <1>1, <1>2, <1>3, <1>4

LEMMA StreamStepKeeps ==
  ASSUME IInv, NEW r \in Requests,
         \/ Subscribe(r) \/ SubscribeFails(r) \/ Publish(r) \/ Lifetime(r)
  PROVE  IInv'
<1>0. Sound(request[r], backend)
  BY DEF IInv
<1>1. CASE Subscribe(r)
  <2>1. Sound(Established(r), backend)
    <3>1. CASE ~request[r].open
      BY <3>1, FreeIsSound DEF Established
    <3>2. CASE request[r].open
      <4>1. Established(r) = [request[r] EXCEPT !.step = "on", !.to = "none",
                                                !.sub = request[r].to, !.tracked = TRUE]
        BY <3>2 DEF Established
      <4> QED
        BY <1>0, <1>1, <3>2, <4>1 DEF Subscribe, Sound, RequestType, Steps
    <3> QED
      BY <3>1, <3>2
  <2> QED
    BY <1>1, <2>1, RequestMoves DEF Subscribe, IInv, TypeOK
<1>2. CASE SubscribeFails(r)
  <2> DEFINE new == IF request[r].open
                    THEN [request[r] EXCEPT !.step = "idle", !.to = "none", !.late = FALSE]
                    ELSE Free
  <2>1. Sound(new, backend)
    <3>1. CASE ~request[r].open
      BY <3>1, FreeIsSound
    <3>2. CASE request[r].open
      <4>1. new = [request[r] EXCEPT !.step = "idle", !.to = "none", !.late = FALSE]
        BY <3>2
      <4> QED
        BY <1>0, <1>2, <4>1 DEF SubscribeFails, Sound, RequestType, Steps
    <3> QED
      BY <3>1, <3>2
  <2>2. request' = [request EXCEPT ![r] = new]
    BY <1>2 DEF SubscribeFails
  <2> QED
    BY <1>2, <2>1, <2>2, RequestMoves DEF SubscribeFails, IInv, TypeOK
<1>3. CASE Publish(r)
  <2>1. page' \in [Tabs -> [opened : BOOLEAN, behind : BOOLEAN, refused : BOOLEAN]]
    <3>1. PICK heard \in SUBSET {s \in Requests : request[s].sub = request[r].to} :
            page' = [t \in Tabs |->
              [page[t] EXCEPT !.behind = @ /\ \A s \in heard : request[s].tab # t]]
      BY <1>3 DEF Publish
    <3>2. ASSUME NEW t \in Tabs
          PROVE  page'[t] \in [opened : BOOLEAN, behind : BOOLEAN, refused : BOOLEAN]
      <4> DEFINE missed == page[t].behind /\ \A s \in heard : request[s].tab # t
      <4>1. page'[t] = [page[t] EXCEPT !.behind = missed]
        BY <3>1
      <4>2. missed \in BOOLEAN /\ page[t] \in [opened : BOOLEAN, behind : BOOLEAN, refused : BOOLEAN]
        BY DEF IInv, TypeOK
      <4> HIDE DEF missed
      <4> QED
        BY <4>1, <4>2
    <3> QED
      BY <3>1, <3>2
  <2> QED
    BY <1>3, <2>1, FreeIsSound, RequestMoves DEF Publish
<1>4. CASE Lifetime(r)
  BY <1>0, <1>4, CleanedIsSound, RequestMoves DEF Lifetime, IInv, TypeOK
<1> QED
  BY <1>1, <1>2, <1>3, <1>4

\* Dropping one instance's client, by the last statement of a save.
LEMMA SaveKeeps ==
  ASSUME IInv, NEW a \in Saves,
         \/ SaveCommits(a) \/ SaveAnswered(a) \/ SaveThrows(a)
         \/ \E i \in Instances \cup {Nowhere} : BeginSave(a, i)
  PROVE  IInv'
<1> DEFINE SaveType == [at : Instances \cup {Nowhere}, todo : Seq(Puts), asked : BOOLEAN]
<1>0. save \in [Saves -> SaveType] /\ Settled \in SaveType
  BY DEF IInv, TypeOK, Settled
<1>1. CASE \E i \in Instances \cup {Nowhere} : BeginSave(a, i)
  <2>1. PICK i \in Instances \cup {Nowhere} : BeginSave(a, i)
    BY <1>1
  <2>2. Plans \subseteq Seq(Puts)
    BY DEF Plans, Put, Puts, Urls, Tokens
  <2>3. save' \in [Saves -> SaveType]
    BY <1>0, <2>1, <2>2, RealtimeAssumption DEF BeginSave
  <2>4. saves' \in 0..MaxSaves
    BY <2>1, RealtimeAssumption DEF BeginSave, IInv, TypeOK
  <2> QED
    BY <2>1, <2>3, <2>4 DEF BeginSave, IInv, TypeOK
<1>2. CASE SaveCommits(a)
  <2>1. Head(save[a].todo) \in Puts
    BY <1>0, <1>2 DEF SaveCommits
  <2>2. stored' \in Configs
    BY <1>2, <2>1 DEF SaveCommits, IInv, TypeOK, Configs, Puts
  <2>3. save' \in [Saves -> SaveType]
    BY <1>0, <1>2 DEF SaveCommits
  <2> QED
    BY <1>2, <2>2, <2>3 DEF SaveCommits, IInv, TypeOK
<1>3. CASE SaveAnswered(a)
  <2> DEFINE i == save[a].at
  <2>1. cache' \in [Instances -> Configs \cup {NoConfig}]
    BY <1>3 DEF SaveAnswered, Emptied, IInv, TypeOK
  <2>2. CASE Tail(save[a].todo) = <<>>
    <3>1. backend' \in [Instances -> Targets \cup {"none"}]
      BY <1>3, <2>2 DEF SaveAnswered, Emptied, IInv, TypeOK
    <3>2. \A j \in Instances : j # i => backend'[j] = backend[j]
      BY <1>3, <2>2 DEF SaveAnswered, Emptied
    <3>3. request' = Dropped(i)
      BY <1>3, <2>2 DEF SaveAnswered
    <3>4. \A r \in Requests : Sound(request'[r], backend')
      BY <3>2, <3>3, DroppedIsSound
    <3>5. request' \in [Requests -> RequestType]
      <4>1. \A r \in Requests : request'[r] \in RequestType
        BY <3>4 DEF Sound
      <4>2. request' = [r \in Requests |-> request'[r]]
        BY <3>3 DEF Dropped
      <4> QED
        BY <4>1, <4>2
    <3>6. save' \in [Saves -> SaveType]
      BY <1>0, <1>3, <2>2 DEF SaveAnswered
    <3> QED
      BY <1>3, <2>1, <3>1, <3>4, <3>5, <3>6 DEF SaveAnswered, IInv, TypeOK
  <2>3. CASE Tail(save[a].todo) # <<>>
    <3>1. Tail(save[a].todo) \in Seq(Puts)
      BY <1>0, <1>3 DEF SaveAnswered
    <3>2. save' = [save EXCEPT ![a] = [@ EXCEPT !.todo = Tail(save[a].todo), !.asked = FALSE]]
      BY <1>3, <2>3 DEF SaveAnswered
    <3> QED
      BY <1>0, <1>3, <2>1, <2>3, <3>1, <3>2 DEF SaveAnswered, IInv, TypeOK
  <2> QED
    BY <2>2, <2>3
<1>4. CASE SaveThrows(a)
  BY <1>0, <1>4 DEF SaveThrows, IInv, TypeOK
<1> QED
  BY <1>1, <1>2, <1>3, <1>4

LEMMA TabStepKeeps ==
  ASSUME IInv, NEW t \in Tabs,
         \/ Refuse(t) \/ Disconnect(t) \/ Reload(t)
         \/ \E s \in Requests, i \in Instances : Connect(t, s, i)
  PROVE  IInv'
<1>1. CASE Refuse(t)
  BY <1>1 DEF Refuse, IInv, TypeOK
<1>2. \A r \in Requests : Sound(Unheld(t)[r], backend)
  BY DEF Unheld, IInv, Sound, RequestType
<1>3. Unheld(t) \in [Requests -> RequestType]
  BY <1>2 DEF Unheld, Sound
<1>4. CASE Disconnect(t)
  BY <1>2, <1>3, <1>4 DEF Disconnect, IInv, TypeOK
<1>5. CASE Reload(t)
  BY <1>2, <1>3, <1>5 DEF Reload, Fresh, IInv, TypeOK
<1>6. CASE \E s \in Requests, i \in Instances : Connect(t, s, i)
  <2>1. PICK s \in Requests, i \in Instances : Connect(t, s, i)
    BY <1>6
  <2> DEFINE new == [Free EXCEPT !.step = "settings", !.kind = "stream", !.at = i, !.tab = t, !.open = TRUE]
  <2>2. Sound(new, backend)
    BY FreeIsSound DEF Sound, Free, RequestType, Steps, Kinds
  <2>3. page' \in [Tabs -> [opened : BOOLEAN, behind : BOOLEAN, refused : BOOLEAN]]
    <3> DEFINE missed == page[t].behind /\ ~page[t].opened
               next   == [page[t] EXCEPT !.opened = TRUE, !.behind = missed]
    <3>1. missed \in BOOLEAN /\ page[t] \in [opened : BOOLEAN, behind : BOOLEAN, refused : BOOLEAN]
      BY DEF IInv, TypeOK
    <3>2. page' = [page EXCEPT ![t] = next]
      BY <2>1 DEF Connect
    <3>3. next \in [opened : BOOLEAN, behind : BOOLEAN, refused : BOOLEAN]
      <4> HIDE DEF missed
      <4> QED
        BY <3>1
    <3> HIDE DEF next
    <3> QED
      BY <3>2, <3>3 DEF IInv, TypeOK
  <2> QED
    BY <2>1, <2>2, <2>3, RequestMoves DEF Connect
<1> QED
  BY <1>1, <1>4, <1>5, <1>6

LEMMA InstanceStepKeeps ==
  ASSUME IInv, NEW i \in Instances,
         Expire(i) \/ Restart(i) \/ \E r \in Requests : Change(r, i)
  PROVE  IInv'
<1>1. CASE Expire(i)
  BY <1>1 DEF Expire, IInv, TypeOK
<1>2. CASE Restart(i)
  <2>1. \A r \in Requests : Sound(request'[r], backend')
    <3> SUFFICES ASSUME NEW r \in Requests PROVE Sound(request'[r], backend')
      OBVIOUS
    <3>1. CASE request[r].at = i
      BY <1>2, <3>1, FreeIsSound DEF Restart
    <3>2. CASE request[r].at # i
      <4>1. request'[r] = request[r] /\ Sound(request[r], backend)
        BY <1>2, <3>2 DEF Restart, IInv
      <4>2. \A j \in Instances : j # i => backend'[j] = backend[j]
        BY <1>2 DEF Restart, IInv, TypeOK
      <4> QED
        BY <3>2, <4>1, <4>2 DEF Sound
    <3> QED
      BY <3>1, <3>2
  <2>2. request' \in [Requests -> RequestType]
    BY <1>2, <2>1 DEF Restart, Sound
  <2>3. save' \in [Saves -> [at : Instances \cup {Nowhere}, todo : Seq(Puts), asked : BOOLEAN]]
    BY <1>2 DEF Restart, Settled, IInv, TypeOK
  <2> QED
    BY <1>2, <2>1, <2>2, <2>3 DEF Restart, IInv, TypeOK
<1>3. CASE \E r \in Requests : Change(r, i)
  <2>1. PICK r \in Requests : Change(r, i)
    BY <1>3
  <2> DEFINE new == [Free EXCEPT !.step = "settings", !.kind = "publisher", !.at = i]
  <2>2. Sound(new, backend)
    BY FreeIsSound DEF Sound, Free, RequestType, Steps, Kinds
  <2>3. page' \in [Tabs -> [opened : BOOLEAN, behind : BOOLEAN, refused : BOOLEAN]]
    BY <2>1 DEF Change, IInv, TypeOK
  <2> QED
    BY <2>1, <2>2, <2>3, RequestMoves DEF Change
<1> QED
  BY <1>1, <1>2, <1>3

LEMMA InvStep == IInv /\ [Next]_realtimeVars => IInv'
<1> SUFFICES ASSUME IInv, [Next]_realtimeVars PROVE IInv'
  OBVIOUS
<1>1. CASE UNCHANGED realtimeVars
  BY <1>1 DEF realtimeVars, IInv, TypeOK, Sound
<1>2. CASE Next
  BY <1>2, GetConfigKeeps, StreamStepKeeps, SaveKeeps, TabStepKeeps, InstanceStepKeeps
     DEF Next, Proceed
<1> QED
  BY <1>1, <1>2

\* Every reachable state satisfies the invariant.
LEMMA Invariance == Spec => []IInv
  BY InvInit, InvStep, PTL DEF Spec

-----------------------------------------------------------------------------
(* Theorems *)

\* Every variable keeps its type, whatever is saved, cached, joined and dropped.
THEOREM TypeCorrect == Spec => []TypeOK
<1>1. IInv => TypeOK
  BY DEF IInv
<1> QED
  BY <1>1, Invariance, PTL

\* A live subscription always belongs to an open stream and can be ended by a change
\* of configuration: cleanup, dropBackend and the continuation of subscribeRealtime
\* leave none behind in any order.
THEOREM NoStreamLeaks == Spec => []NothingLeaks
<1>1. IInv => NothingLeaks
  BY DEF IInv, Sound, NothingLeaks
<1> QED
  BY <1>1, Invariance, PTL

\* Only a stream that was joining when its instance's client was dropped listens to a
\* server that its instance no longer publishes to.
THEOREM StreamsKeepToTheClient == Spec => []StreamsFollowTheClient
<1>1. IInv => StreamsFollowTheClient
  BY DEF IInv, Sound, StreamsFollowTheClient
<1> QED
  BY <1>1, Invariance, PTL
=============================================================================
