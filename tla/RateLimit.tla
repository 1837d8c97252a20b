----------------------------- MODULE RateLimit -----------------------------
(***************************************************************************)
(* The limit on public requests (lib/rate-limit.js): a sliding window of   *)
(* one process's memory for each bucket and caller, and who the caller of  *)
(* a request is when a trusted proxy may stand before the server.          *)
(*                                                                         *)
(* A window's array, which is in the order of time, is how often each time *)
(* is in it.                                                               *)
(***************************************************************************)
EXTENDS Integers, Sequences, SequencesExt

CONSTANTS
  Clients,
  Proxy,     \* the address in TRUSTED_PROXY_IPS
  Buckets,
  Limit,     \* of a bucket, the requests that pass in one window
  Window,    \* of a bucket, its length
  SweepAge,  \* sweep's ten minutes
  MaxNow     \* the clock's last time, a bound for TLC

\* Window may be set by the environment; sweep's age is fixed.
ASSUME WindowsAreKept ==
  /\ Proxy \notin Clients
  /\ MaxNow \in Nat /\ SweepAge \in Nat
  /\ \A b \in Buckets : Limit[b] \in Nat \ {0} /\ Window[b] \in 1..SweepAge

VARIABLES
  now,
  hits,   \* the times in the store, of a bucket and a caller
  passed  \* the times at which requests of a client did pass in this process

rateVars == <<now, hits, passed>>

Callers == Clients \cup {Proxy}

Times == 0..MaxNow

NoTimes == [t \in Times |-> 0]

Emptied(callers) == [b \in Buckets |-> [k \in callers |-> NoTimes]]

RateInit ==
  /\ now = 0
  /\ hits = Emptied(Callers)
  /\ passed = Emptied(Clients)

\* As if the first hop, which the client may have written, were the caller.
FirstHop(socket, hops) ==
  IF socket = Proxy /\ hops # <<>> THEN Head(hops) ELSE socket

\* callerKey: a trusted proxy appends whom it had the request from; nobody
\* else's header counts.
CallerKey(socket, hops) ==
  IF socket = Proxy /\ hops # <<>> THEN Last(hops) ELSE socket

Recent(b, times) == [t \in Times |-> IF now - t < Window[b] THEN times[t] ELSE 0]

\* check: what is refused is not counted.
Check(b, client, key) ==
  LET fresh == Recent(b, hits[b][key])
      passes == FoldFunction(+, 0, fresh) < Limit[b]
      counted(times) == IF passes THEN [times EXCEPT ![now] = @ + 1] ELSE times
  IN  /\ hits' = [hits EXCEPT ![b][key] = counted(fresh)]
      /\ passed' = [passed EXCEPT ![b][client] = counted(@)]
      /\ UNCHANGED now

\* A public request, with the hops that its header holds when it leaves the
\* client, straight to the server or over the proxy.
Direct(b, client, hops) == Check(b, client, CallerKey(client, hops))

Proxied(b, client, hops) == Check(b, client, CallerKey(Proxy, Append(hops, client)))

\* sweep, every five minutes: windows that nothing has touched for long.
Sweep ==
  /\ hits' = [b \in Buckets |-> [k \in Callers |->
       IF \A t \in Times : hits[b][k][t] > 0 => now - t > SweepAge
       THEN NoTimes ELSE hits[b][k]]]
  /\ UNCHANGED <<now, passed>>

Tick ==
  /\ now < MaxNow
  /\ now' = now + 1
  /\ UNCHANGED <<hits, passed>>

\* The store lives as long as its process.
Restarted ==
  /\ hits' = Emptied(Callers)
  /\ passed' = Emptied(Clients)
  /\ UNCHANGED now

RateNext ==
  \/ \E b \in Buckets, c \in Clients : \E hops \in {<<>>} \cup {<<d>> : d \in Clients} :
       Direct(b, c, hops) \/ Proxied(b, c, hops)
  \/ Sweep
  \/ Tick
  \/ Restarted

RateSpec == RateInit /\ [][RateNext]_rateVars

-----------------------------------------------------------------------------

\* What the store counts for a client is what did pass of that client's within
\* the window, no less and no more, however its requests come and whatever
\* their headers claim: a limit neither leaks nor is spent by somebody else
\* (lib/rate-limit.js:96-107).
CountsItsOwn ==
  \A b \in Buckets, c \in Clients : Recent(b, hits[b][c]) = Recent(b, passed[b][c])
=============================================================================
