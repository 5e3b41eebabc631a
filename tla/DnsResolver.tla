---------------------------- MODULE DnsResolver ----------------------------
(***************************************************************************)
(* The dns resolver (src/internal/resolver/dns/lookup.go), one per client: *)
(* a loop that looks the host up at once and then at every tick, and       *)
(* passes what it finds, failures too, to the gRPC channel.                *)
(*                                                                         *)
(* A lookup and the passing on of its result are two steps; a Close may    *)
(* come between them.                                                      *)
(*                                                                         *)
(* Operators whose names begin with Bad are variants with a mistake; no    *)
(* specification uses them.                                                *)
(***************************************************************************)
EXTENDS Naturals, Sequences

CONSTANTS Client,
          Answer,       \* the sets of addresses the host has, one after the other
          MaxFailures   \* bound on the lookups that fail

ASSUME DnsAssumption ==
  /\ MaxFailures \in Nat
  /\ Len(Answer) \in Nat \ {0} /\ DOMAIN Answer = 1..Len(Answer)

VARIABLES
  host,  \* DNS: [answer, failures], the first an index of Answer
  loop   \* the loops: [at, result, cancelled]

dnsVars == <<host, loop>>

LoopState == {"none", "lookup", "send", "wait", "done"}

NoLoop == [at |-> "none", result |-> {}, cancelled |-> FALSE]

DnsInit ==
  /\ host = [answer |-> 1, failures |-> 0]
  /\ loop = [c \in Client |-> NoLoop]

Addresses == Answer[host.answer]

Loop(c, from, to) == loop[c].at = from /\ loop' = [loop EXCEPT ![c].at = to]

\* Start, called by the resolver builder.
DnsStart(c) == Loop(c, "none", "lookup") /\ UNCHANGED host

BadLookupReturns(c) ==
  /\ loop[c].at = "lookup"
  /\ loop' = [loop EXCEPT ![c].at = "send", ![c].result = @ \cup Addresses]
  /\ UNCHANGED host

\* The lookup returns.  The snapshot of a failure has no endpoints.
LookupReturns(c) ==
  /\ loop[c].at = "lookup"
  /\ loop' = [loop EXCEPT ![c].at = "send", ![c].result = Addresses]
  /\ UNCHANGED host

LookupFails(c) ==
  /\ loop[c].at = "lookup" /\ (host.failures < MaxFailures \/ loop[c].cancelled)
  /\ loop' = [loop EXCEPT ![c].at = "send", ![c].result = {}]
  /\ host' = IF loop[c].cancelled THEN host ELSE [host EXCEPT !.failures = @ + 1]

\* The callback fn has returned.
Sent(c) == Loop(c, "send", "wait") /\ UNCHANGED host

BadTickerFires(c) == FALSE

\* The select of the loop; a tick may win over the context.
TickerFires(c) == Loop(c, "wait", "lookup") /\ UNCHANGED host

BadLoopQuits(c) == FALSE

LoopQuits(c) == loop[c].cancelled /\ Loop(c, "wait", "done") /\ UNCHANGED host

\* Close of the adapter: both contexts are cancelled,
DnsCancel(c) == loop' = [loop EXCEPT ![c].cancelled = TRUE] /\ UNCHANGED host

BadDnsClosed(c) == loop[c].cancelled \/ loop[c].at = "none"

\* and it returns when the loop has ended.
DnsClosed(c) == loop[c].at \in {"none", "done"}

\* A resolver that has been closed is forgotten; the next one is another.
DnsForget(c) == loop' = [loop EXCEPT ![c] = NoLoop] /\ UNCHANGED host

HostChanges ==
  /\ host.answer < Len(Answer)
  /\ host' = [host EXCEPT !.answer = @ + 1]
  /\ UNCHANGED loop

Found == {{}} \cup {Answer[i] : i \in DOMAIN Answer}

DnsTypeOK ==
  /\ host \in [answer : DOMAIN Answer, failures : 0..MaxFailures]
  /\ loop \in [Client -> [at : LoopState, result : Found, cancelled : BOOLEAN]]
=============================================================================
