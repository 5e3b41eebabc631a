------------------------------- MODULE Pickers -------------------------------
(***************************************************************************)
(* The built-in policies, round_robin and least_request                    *)
(* (src/internal/balancer/picker_rr.go, picker_lr.go), called by many RPCs *)
(* at a time without a lock.                                               *)
(*                                                                         *)
(* The round-robin counter is one atomic addition, so its Pick is a step.  *)
(* The least-request Pick loads the in-flight counts one by one and adds   *)
(* to the one it chose afterwards; other picks and completions come in     *)
(* between.                                                                *)
(*                                                                         *)
(* Operators whose names begin with Bad are variants with a mistake; no    *)
(* specification uses them.                                                *)
(***************************************************************************)
EXTENDS Integers, Sequences

CONSTANTS Entry,   \* SubConn entries, numbered in the order of "address:port"
          Rpc

ASSUME EntryAssumption == Entry \subseteq Nat \ {0}

VARIABLES
  pickers,   \* the pickers built so far, the current one last
  inFlight,  \* InFlight of the entries
  scan       \* the least-request picks that are going on, one per RPC

pickVars == <<pickers, inFlight, scan>>

\* A new picker.  picks and filtered are history: how often it has picked an
\* entry, and whether a pick had to exclude one.
NewPicker(healthy) == [healthy |-> healthy, counter |-> 0,
                       picks |-> [e \in Entry |-> 0], filtered |-> FALSE]

\* overlap is history: how often a count changed during the scan.
NoScan == [todo |-> <<>>, candidates |-> {}, chosen |-> 0, count |-> 0, overlap |-> 0]

PickInit(healthy) ==
  /\ pickers = <<NewPicker(healthy)>>
  /\ inFlight = [e \in Entry |-> 0]
  /\ scan = [r \in Rpc |-> NoScan]

(***************************************************************************)
(* The exclusion of addresses an RPC has tried, used by both policies.     *)
(***************************************************************************)
BadCandidates(healthy, tried) == healthy

\* The loop that leaves out the tried ones: what it has kept of the first i.
Kept(healthy, tried) ==
  LET kept[i \in 0..Len(healthy)] ==
        IF i = 0 THEN <<>>
        ELSE IF healthy[i] \in tried THEN kept[i - 1] ELSE Append(kept[i - 1], healthy[i])
  IN kept

Candidates(healthy, tried) ==
  LET fresh == Kept(healthy, tried)[Len(healthy)]
  IN IF fresh = <<>> THEN healthy ELSE fresh

\* The in-flight count of e changes by d, while the scans of Others go on.
Change(e, d, Others) ==
  /\ inFlight' = [inFlight EXCEPT ![e] = @ + d]
  /\ scan' = [r \in Rpc |-> IF r \in Others /\ scan[r] # NoScan
                            THEN [scan[r] EXCEPT !.overlap = @ + 1]
                            ELSE IF r \in Others THEN scan[r] ELSE NoScan]

\* What the Done callback of least_request does.
Done(e) == Change(e, -1, Rpc)

(***************************************************************************)
(* rrPicker.Pick, of picker i for an RPC that has tried some addresses.    *)
(***************************************************************************)
BadIndex(counter, n) == (counter % n) + (IF counter % n = 0 THEN 1 ELSE 0)

\* Indices begin at 0 in the code.
Index(counter, n) == (counter % n) + 1

RoundRobinPick(i, tried, e) ==
  LET p == pickers[i]
      candidates == Candidates(p.healthy, tried)
  IN /\ p.healthy # <<>>
     /\ e = candidates[Index(p.counter + 1, Len(candidates))]
     /\ pickers' = [pickers EXCEPT ![i] =
                      [p EXCEPT !.counter = @ + 1, !.picks[e] = @ + 1,
                                !.filtered = @ \/ candidates # p.healthy]]
     /\ UNCHANGED <<inFlight, scan>>

(***************************************************************************)
(* lrPicker.Pick.                                                          *)
(***************************************************************************)
LeastRequestBegin(r, i, tried) ==
  LET candidates == Candidates(pickers[i].healthy, tried)
  IN /\ pickers[i].healthy # <<>> /\ scan[r] = NoScan
     /\ scan' = [scan EXCEPT ![r] = [NoScan EXCEPT !.todo = candidates,
                   !.candidates = {candidates[j] : j \in DOMAIN candidates}]]
     /\ UNCHANGED <<pickers, inFlight>>

BadBetter(n, e, s) == s.chosen = 0 \/ n > s.count \/ (n = s.count /\ e < s.chosen)

Better(n, e, s) == s.chosen = 0 \/ n < s.count \/ (n = s.count /\ e < s.chosen)

\* The next entry's count is loaded and compared.
LeastRequestLoad(r) ==
  LET s == scan[r]
      e == Head(s.todo)
  IN /\ s.todo # <<>>
     /\ scan' = [scan EXCEPT ![r] =
                   [s EXCEPT !.todo = Tail(@),
                     !.chosen = IF Better(inFlight[e], e, s) THEN e ELSE @,
                     !.count = IF Better(inFlight[e], e, s) THEN inFlight[e] ELSE @]]
     /\ UNCHANGED <<pickers, inFlight>>

\* All have been; the RPC is counted in at the chosen one.
LeastRequestEnd(r, e) ==
  /\ scan[r] # NoScan /\ scan[r].todo = <<>>
  /\ e = scan[r].chosen
  /\ Change(e, 1, Rpc \ {r})
  /\ UNCHANGED pickers

\* rebuildPickerLocked gives gRPC another picker.
Replace(healthy) ==
  /\ pickers' = Append(pickers, NewPicker(healthy))
  /\ UNCHANGED <<inFlight, scan>>

(***************************************************************************)
(* Properties.                                                             *)
(***************************************************************************)
\* As long as no retry has made a round-robin picker leave an entry out, its
\* picks are spread evenly: N consecutive ones take each of the N entries once,
\* whichever RPCs make them (P3, R5.4).
RoundRobinEven ==
  \A i \in DOMAIN pickers :
    ~pickers[i].filtered =>
      \A j, k \in DOMAIN pickers[i].healthy :
        pickers[i].picks[pickers[i].healthy[j]]
          <= pickers[i].picks[pickers[i].healthy[k]] + 1

\* The entry least_request chooses has the lowest count up to the changes that
\* other RPCs made while it looked; if there were none, the lowest (P7, R5.5).
LeastRequestBound ==
  \A r \in Rpc :
    scan[r] # NoScan /\ scan[r].todo = <<>> =>
      \A e \in scan[r].candidates :
        inFlight[scan[r].chosen] <= inFlight[e] + scan[r].overlap
=============================================================================
