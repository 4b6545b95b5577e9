--------------------------- MODULE RealtimeStream ---------------------------
(* Live updates: the stored Redis configuration, each instance's cached copy *)
(* of it, the Redis client built from that copy, and the event streams that  *)
(* hold a subscription of that client open for a browser.                    *)
(*                                                                          *)
(* An instance learns of a change by handling the save itself or by reading  *)
(* the configuration again once its copy has expired.  getConfig reads two   *)
(* tables, one after the other, and what it has read may be older than the   *)
(* save its instance has meanwhile answered.  A change ends the streams that *)
(* have a subscription; one that is just being established is not among them.*)
(*                                                                          *)
(* Of a page the model has what its Server Components render: the counts,   *)
(* the bell's seed, the thread that is read.  The mailbox lists are kept by  *)
(* TanStack Query, which no refresh of the page reaches: a list that missed  *)
(* a publication stays as it was until one of its kind is heard, and nothing *)
(* is claimed of it here.                                                    *)
EXTENDS Integers, FiniteSets, Sequences

CONSTANTS
  Instances,   \* server processes that hold streams
  Requests,    \* bound: requests at work at once, streams and publishers
  Tabs,
  Saves,       \* Server Actions that change the configuration
  Seed,        \* REDIS_URL of the environment: "cleared" if there is none
  Initially,   \* configurations to start from
  Tried,       \* bound: the saves that are tried
  MaxSaves     \* bound: calls of those actions

Urls    == {"cleared", "tcp", "rest"}
Tokens  == {"cleared", "set"}
Targets == {"tcp", "rest"}
Configs == [url : Urls \cup {"never"}, token : Tokens]

NoConfig == [url |-> "none", token |-> "none"]
ReadType == [url : Urls \cup {"never", "none"}, token : Tokens \cup {"none"}]
NoTab    == "none"
Nowhere  == "none"   \* of a save: on an instance that holds no streams

Put(field, to) == [field |-> field, to |-> to]
Puts == [field : {"url"}, to : Urls \cup {"never"}] \cup [field : {"token"}, to : Tokens]

\* The statements of updateRealtimeSettings, saveRealtimeConfig and forgetSecret.
Plans ==
  { <<Put("url", "cleared"), Put("token", "cleared")>>,   \* turned off
    <<Put("token", "cleared"), Put("url", "tcp")>>,
    <<Put("token", "set"), Put("url", "rest")>>,
    <<Put("url", "rest")>>,                               \* the token stays
    <<Put("url", "tcp")>>,                                \* the wizard
    <<Put("token", "set"), Put("url", "tcp")>>,           \* with a token it need not have
    <<Put("url", "never")>>,                              \* the wizard, skipped
    <<Put("token", "cleared")>> }                         \* forgetSecret

ASSUME RealtimeAssumption ==
  /\ Seed \in Urls
  /\ Initially \subseteq Configs
  /\ Tried \subseteq Plans
  /\ Nowhere \notin Instances
  /\ NoTab \notin Tabs
  /\ MaxSaves \in Nat

VARIABLES
  stored,    \* app_settings.redisRestUrl and the secret redisRestToken
  cache,     \* each instance's configuration, or NoConfig
  backend,   \* the target of each instance's Redis client, or "none"
  request,   \* each request: a stream, or one that changes something and publishes
  page,      \* each tab
  save,      \* each Server Action: where it runs and the statements it has left
  saves      \* how many were called

realtimeVars == <<stored, cache, backend, request, page, save, saves>>

Kinds == {"none", "stream", "publisher"}
Steps == {"free", "settings", "secrets", "resume", "join", "publish", "on", "idle"}

\* open: cleanup has not run; sub: the live subscription's target; tracked: it is in
\* liveSubscriptions; late: history, its client was dropped while it was joining.
Free == [step |-> "free", kind |-> "none", at |-> Nowhere, tab |-> NoTab, open |-> FALSE,
         read |-> NoConfig, to |-> "none", sub |-> "none", tracked |-> FALSE,
         late |-> FALSE]

\* behind: what the Server Components have rendered is older than Postgres.
Fresh == [opened |-> FALSE, behind |-> FALSE, refused |-> FALSE]

Settled == [at |-> Nowhere, todo |-> <<>>, asked |-> FALSE]

Connected(t) == \E s \in Requests : request[s].open /\ request[s].tab = t

-----------------------------------------------------------------------------
(* The target a configuration names *)

\* resolve: a value that was cleared does not fall back to the environment, one that
\* was never set does.
Resolved(url) == IF url = "never" THEN Seed ELSE url

\* parseRedisTarget; a REST URL without a token is malformed, which is as good as none.
Target(c) ==
  LET url == Resolved(c.url) IN
  IF url = "tcp" \/ (url = "rest" /\ c.token = "set") THEN url ELSE "none"

-----------------------------------------------------------------------------
(* The client and the streams that hang on it *)

\* cleanup: a stream whose subscription is still on its way waits for it.
Cleaned(r) ==
  IF r.step \in {"on", "idle"} THEN Free
  ELSE [r EXCEPT !.open = FALSE, !.tab = NoTab]

\* Mutant: the registry is not consulted.
DroppedQuietly(i) ==
  [r \in Requests |->
     IF request[r].at = i /\ request[r].step = "join"
     THEN [request[r] EXCEPT !.late = TRUE] ELSE request[r]]

\* dropBackend: every tracked subscription ends, and its stream with it.
Dropped(i) ==
  [r \in Requests |->
     IF request[r].at # i THEN request[r]
     ELSE IF request[r].tracked THEN Cleaned(request[r])
     ELSE IF request[r].step = "join" THEN [request[r] EXCEPT !.late = TRUE]
     ELSE request[r]]

\* What a request does with the client, or without one.
Served(r, to) ==
  LET next == IF request[r].kind = "publisher" THEN "publish" ELSE "join" IN
  IF to # "none" THEN [request[r] EXCEPT !.step = next, !.to = to, !.read = NoConfig]
  ELSE IF request[r].open THEN [request[r] EXCEPT !.step = "idle", !.read = NoConfig]
  ELSE Free

\* redisBackend after getConfig: no target leaves the client alone, another target
\* replaces it.
UseBackend(r, c) ==
  LET i  == request[r].at
      to == Target(c)
      replaced == to # "none" /\ backend[i] \notin {"none", to}
  IN /\ backend' = IF to = "none" THEN backend ELSE [backend EXCEPT ![i] = to]
     /\ request' = [(IF replaced THEN Dropped(i) ELSE request) EXCEPT ![r] = Served(r, to)]

-----------------------------------------------------------------------------
(* getConfig *)

UseCached(r) ==
  /\ request[r].step = "settings"
  /\ cache[request[r].at] # NoConfig
  /\ UseBackend(r, cache[request[r].at])
  /\ UNCHANGED <<stored, cache, page, save, saves>>

ReadSettings(r) ==
  /\ request[r].step = "settings"
  /\ cache[request[r].at] = NoConfig
  /\ request' = [request EXCEPT ![r] =
       [@ EXCEPT !.step = "secrets", !.read = [url |-> stored.url, token |-> "none"]]]
  /\ UNCHANGED <<stored, cache, backend, page, save, saves>>

ReadSecrets(r) ==
  /\ request[r].step = "secrets"
  /\ request' = [request EXCEPT ![r] =
       [@ EXCEPT !.step = "resume",
          !.read = [url |-> request[r].read.url, token |-> stored.token]]]
  /\ UNCHANGED <<stored, cache, backend, page, save, saves>>

\* The rows have arrived: they are cached, whatever has been saved since, and used.
Resume(r) ==
  /\ request[r].step = "resume"
  /\ cache' = [cache EXCEPT ![request[r].at] = request[r].read]
  /\ UseBackend(r, request[r].read)
  /\ UNCHANGED <<stored, page, save, saves>>

\* TTL_MS
Expire(i) ==
  /\ cache[i] # NoConfig
  /\ cache' = [cache EXCEPT ![i] = NoConfig]
  /\ UNCHANGED <<stored, backend, request, page, save, saves>>

-----------------------------------------------------------------------------
(* Saving *)

BeginSave(a, i) ==
  /\ save[a].todo = <<>>
  /\ saves < MaxSaves
  /\ \E plan \in Tried : save' = [save EXCEPT ![a] = [at |-> i, todo |-> plan, asked |-> FALSE]]
  /\ saves' = saves + 1
  /\ UNCHANGED <<stored, cache, backend, request, page>>

SaveCommits(a) ==
  /\ save[a].todo # <<>>
  /\ ~save[a].asked
  /\ LET put == Head(save[a].todo) IN
       stored' = IF put.field = "url" THEN [stored EXCEPT !.url = put.to]
                 ELSE [stored EXCEPT !.token = put.to]
  /\ save' = [save EXCEPT ![a].asked = TRUE]
  /\ UNCHANGED <<cache, backend, request, page, saves>>

Emptied(f, i, none) == [j \in Instances |-> IF j = i THEN none ELSE f[j]]

\* invalidateConfig after each statement, resetRedisClient after the last.
SaveAnswered(a) ==
  LET i    == save[a].at
      rest == Tail(save[a].todo)
  IN /\ save[a].todo # <<>>
     /\ save[a].asked
     /\ cache' = Emptied(cache, i, NoConfig)
     /\ IF rest = <<>>
        THEN /\ backend' = Emptied(backend, i, "none")
             /\ request' = Dropped(i)
             /\ save' = [save EXCEPT ![a] = Settled]
        ELSE /\ save' = [save EXCEPT ![a] = [@ EXCEPT !.todo = rest, !.asked = FALSE]]
             /\ UNCHANGED <<backend, request>>
     /\ UNCHANGED <<stored, page, saves>>

\* A statement fails, or its answer is lost: the action throws, and resets nothing.
SaveThrows(a) ==
  /\ save[a].todo # <<>>
  /\ save' = [save EXCEPT ![a] = Settled]
  /\ UNCHANGED <<stored, cache, backend, request, page, saves>>

-----------------------------------------------------------------------------
(* Streams *)

\* Mutant: a page that reconnects trusts what it shows.
ConnectTrusting(t, s, i) ==
  /\ ~Connected(t)
  /\ ~page[t].refused
  /\ request[s] = Free
  /\ request' = [request EXCEPT ![s] =
       [Free EXCEPT !.step = "settings", !.kind = "stream", !.at = i, !.tab = t, !.open = TRUE]]
  /\ page' = [page EXCEPT ![t].opened = TRUE]
  /\ UNCHANGED <<stored, cache, backend, save, saves>>

\* GET answers at once and subscribes afterwards; onopen calls router.refresh, unless
\* this is the first connection of the page, and so has it rendered anew.
Connect(t, s, i) ==
  /\ ~Connected(t)
  /\ ~page[t].refused
  /\ request[s] = Free
  /\ request' = [request EXCEPT ![s] =
       [Free EXCEPT !.step = "settings", !.kind = "stream", !.at = i, !.tab = t, !.open = TRUE]]
  /\ page' = [page EXCEPT ![t] =
       [@ EXCEPT !.opened = TRUE, !.behind = page[t].behind /\ ~page[t].opened]]
  /\ UNCHANGED <<stored, cache, backend, save, saves>>

\* An answer other than a stream, as 401 once the session has ended, closes an
\* EventSource for good.
Refuse(t) ==
  /\ ~Connected(t)
  /\ ~page[t].refused
  /\ page' = [page EXCEPT ![t].refused = TRUE]
  /\ UNCHANGED <<stored, cache, backend, request, save, saves>>

\* Mutant: the continuation does not look whether the stream has ended.
EstablishedAnyway(s) == [request[s] EXCEPT !.step = "on", !.to = "none", !.sub = request[s].to, !.tracked = TRUE]

\* subscribeRealtime's last statements and what the route does with the result.
Established(s) ==
  IF request[s].open
  THEN [request[s] EXCEPT !.step = "on", !.to = "none", !.sub = request[s].to, !.tracked = TRUE]
  ELSE Free

Subscribe(s) ==
  /\ request[s].step = "join"
  /\ request' = [request EXCEPT ![s] = Established(s)]
  /\ UNCHANGED <<stored, cache, backend, page, save, saves>>

SubscribeFails(s) ==
  /\ request[s].step = "join"
  /\ request' = [request EXCEPT ![s] =
       IF request[s].open THEN [request[s] EXCEPT !.step = "idle", !.to = "none", !.late = FALSE]
       ELSE Free]
  /\ UNCHANGED <<stored, cache, backend, page, save, saves>>

\* Mutant: the stream is held open for as long as the instance lives.
LifetimeUnbounded(s) == FALSE

\* STREAM_LIFETIME_MS, an abort the server hears of, or a failed enqueue.
Lifetime(s) ==
  /\ request[s].open
  /\ request' = [request EXCEPT ![s] = Cleaned(request[s])]
  /\ UNCHANGED <<stored, cache, backend, page, save, saves>>

Unheld(t) ==
  [r \in Requests |-> IF request[r].tab = t THEN [request[r] EXCEPT !.tab = NoTab] ELSE request[r]]

\* The connection breaks, and the server has not noticed yet.
Disconnect(t) ==
  /\ Connected(t)
  /\ request' = Unheld(t)
  /\ UNCHANGED <<stored, cache, backend, page, save, saves>>

\* The page is rendered anew from Postgres.
Reload(t) ==
  /\ request' = Unheld(t)
  /\ page' = [page EXCEPT ![t] = Fresh]
  /\ UNCHANGED <<stored, cache, backend, save, saves>>

-----------------------------------------------------------------------------
(* Publishing *)

\* Something changes in Postgres, and then publishRealtime is called.
Change(r, i) ==
  /\ request[r] = Free
  /\ request' = [request EXCEPT ![r] =
       [Free EXCEPT !.step = "settings", !.kind = "publisher", !.at = i]]
  /\ page' = [t \in Tabs |-> [page[t] EXCEPT !.behind = TRUE]]
  /\ UNCHANGED <<stored, cache, backend, save, saves>>

\* The publication reaches any of the subscriptions on its server, or it fails and
\* reaches none; each tab it reaches has its page rendered anew.
Publish(r) ==
  /\ request[r].step = "publish"
  /\ \E heard \in SUBSET {s \in Requests : request[s].sub = request[r].to} :
       page' = [t \in Tabs |->
         [page[t] EXCEPT !.behind = @ /\ \A s \in heard : request[s].tab # t]]
  /\ request' = [request EXCEPT ![r] = Free]
  /\ UNCHANGED <<stored, cache, backend, save, saves>>

\* An instance goes, with everything it was doing, and comes back empty.
Restart(i) ==
  /\ cache' = [cache EXCEPT ![i] = NoConfig]
  /\ backend' = [backend EXCEPT ![i] = "none"]
  /\ request' = [r \in Requests |-> IF request[r].at = i THEN Free ELSE request[r]]
  /\ save' = [a \in Saves |-> IF save[a].at = i THEN Settled ELSE save[a]]
  /\ UNCHANGED <<stored, page, saves>>

-----------------------------------------------------------------------------
Init ==
  /\ stored \in Initially
  /\ cache = [i \in Instances |-> NoConfig]
  /\ backend = [i \in Instances |-> "none"]
  /\ request = [r \in Requests |-> Free]
  /\ page = [t \in Tabs |-> Fresh]
  /\ save = [a \in Saves |-> Settled]
  /\ saves = 0

\* What a request does next by itself.
Proceed(r) ==
  \/ UseCached(r) \/ ReadSettings(r) \/ ReadSecrets(r) \/ Resume(r)
  \/ Subscribe(r) \/ SubscribeFails(r) \/ Publish(r)

Next ==
  \/ \E r \in Requests : Proceed(r)
  \/ \E i \in Instances : Expire(i) \/ Restart(i)
  \/ \E a \in Saves : SaveCommits(a) \/ SaveAnswered(a) \/ SaveThrows(a)
  \/ \E a \in Saves, i \in Instances \cup {Nowhere} : BeginSave(a, i)
  \/ \E t \in Tabs, s \in Requests, i \in Instances : Connect(t, s, i)
  \/ \E t \in Tabs : Refuse(t) \/ Disconnect(t) \/ Reload(t)
  \/ \E s \in Requests : Lifetime(s)
  \/ \E r \in Requests, i \in Instances : Change(r, i)

\* Requests get on, an attempt to subscribe ends one way or the other, timers fire,
\* and a browser tries again; nobody has to save, change or reload anything.  The
\* browser's fairness is strong because the model has few slots for requests, which
\* publishers may take in turn; a server has no such limit.
Fairness ==
  /\ \A r \in Requests : WF_realtimeVars(Proceed(r))
  /\ \A i \in Instances : WF_realtimeVars(Expire(i))
  /\ \A s \in Requests : WF_realtimeVars(Lifetime(s))
  /\ \A t \in Tabs : SF_realtimeVars(\E s \in Requests, i \in Instances : Connect(t, s, i))

Spec == Init /\ [][Next]_realtimeVars /\ Fairness

-----------------------------------------------------------------------------
RequestType ==
  [step : Steps, kind : Kinds, at : Instances \cup {Nowhere}, tab : Tabs \cup {NoTab},
   open : BOOLEAN, read : ReadType, to : Targets \cup {"none"},
   sub : Targets \cup {"none"}, tracked : BOOLEAN, late : BOOLEAN]

TypeOK ==
  /\ stored \in Configs
  /\ cache \in [Instances -> Configs \cup {NoConfig}]
  /\ backend \in [Instances -> Targets \cup {"none"}]
  /\ request \in [Requests -> RequestType]
  /\ page \in [Tabs -> [opened : BOOLEAN, behind : BOOLEAN, refused : BOOLEAN]]
  /\ save \in [Saves -> [at : Instances \cup {Nowhere}, todo : Seq(Puts), asked : BOOLEAN]]
  /\ saves \in 0..MaxSaves

\* No subscription is left behind: one that is live belongs to a stream that is open,
\* and can be ended by a change of configuration (route.ts:46-54, client.ts:28-37).
NothingLeaks ==
  \A s \in Requests : request[s].sub # "none" => request[s].open /\ request[s].tracked

\* No stream listens where its instance has stopped publishing, unless it was just
\* being established when the client was dropped (client.ts:48-55, 109-118).
StreamsFollowTheClient ==
  \A s \in Requests :
    request[s].sub # "none" /\ ~request[s].late => backend[request[s].at] = request[s].sub

\* What the Server Components of a tab show catches up with Postgres in the end: a
\* publication that is lost, goes to another server or falls into a gap is made good by
\* the router.refresh of the next connection (route.ts:22-30, use-realtime.ts:78-92).
\* A refused EventSource is the one exception.  The lists that TanStack Query keeps are
\* not covered: that refresh does not reach them (use-realtime.ts:143-148).
EveryTabCatchesUp ==
  \A t \in Tabs : page[t].behind ~> (~page[t].behind \/ page[t].refused)

\* Once nobody changes the configuration, every subscription ends up on the stored
\* target, whatever was cached, joining or torn when it changed (client.ts:81-86).
StreamsReachTheTarget ==
  <>[](\A s \in Requests : request[s].sub \in {"none", Target(stored)})
=============================================================================
