---------------------------- MODULE EndingProofs ----------------------------
(***************************************************************************)
(* Proofs about what starts and ends, in three parts.                      *)
(*                                                                         *)
(* The breaker of src/index.ts, for any number of runs, any errors and     *)
(* costs, and every configuration.  The breaker has one set of counters    *)
(* for all its runs, which run() and reset() clear at any time: the        *)
(* invariant says which run's attempts, tokens and errors the counters     *)
(* are, and what is left of them when they have been cleared.              *)
(*                                                                         *)
(* The daemons of one state directory, their commands and their clients,   *)
(* for any configuration of the secrets (the same secret in several places *)
(* included), any processes and any agents: the inductive invariant says   *)
(* whose secret a connection carries, and which daemon a session, a held   *)
(* request and a grant belong to.                                          *)
(*                                                                         *)
(* The execution of one action, for any tree of files and links and        *)
(* whatever others do to it: the inductive invariant says what an          *)
(* execution has reached by how far it has come.  Where it lands follows   *)
(* from what the recursions of lookups and of resolveStrict() are, one     *)
(* name and one link at a time: a path that they answer with has no links  *)
(* in it, and such a path is opened, made and removed where it is, as long *)
(* as nobody puts a link there after the last look.                        *)
(***************************************************************************)
EXTENDS TaskBreaker, DaemonService, HostExecution, Inductions, SequenceTheorems, FiniteSetTheorems,
        TLAPS

\* Two runs at the same time know of each other.
OverlapsAreKnown ==
  \A r, q \in Run : Running(r) /\ Running(q) /\ r # q => r \in shared /\ q \in shared

\* A run that has not begun has left no trace.
NewRunsAreFresh ==
  \A r \in Run : pc[r] = "new" => spent[r] = 0 /\ last[r] = <<>> /\ r \notin tripped

\* The attempts of a run alone are counted until a reset(), and afterwards
\* there is no controller and so no further attempt.
AttemptsAreCounted ==
  \A r \in Run : r \notin shared =>
    /\ started[r] <= MaxRetries + 1
    /\ Running(r) /\ controller # "none" => started[r] <= attempts

\* The tokens of an undisturbed run are those the breaker has counted.
TokensAreCounted ==
  \A r \in Run : Undisturbed(r) =>
    /\ Running(r) => tokenUsed = spent[r]
    /\ pc[r] = "success" => spent[r] <= PerTask

\* What a trip() leaves to a run alone is no controller that lets it go on.
TripsReachTheirRuns ==
  \A r \in tripped : Running(r) /\ r \notin shared => controller \in {"none", "aborted"}

\* s ends with t.
EndsWith(s, t) ==
  /\ Len(t) <= Len(s)
  /\ \A i \in 1 .. Len(t) : t[i] = s[Len(s) - Len(t) + i]

AllAlike(t) == \A i \in 1 .. Len(t) : t[i] = t[1]

\* The equal errors an undisturbed run has seen last are the last ones the
\* breaker keeps, and not yet as many as stop it.
ErrorsAreKept ==
  \A r \in Run : Running(r) /\ Undisturbed(r) =>
    /\ EndsWith(errors, last[r]) /\ AllAlike(last[r])
    /\ MaxRepeatedErrors > 0 => Len(last[r]) < MaxRepeatedErrors

IInv == /\ TypeOK /\ OverlapsAreKnown /\ NewRunsAreFresh /\ AttemptsAreCounted
        /\ TokensAreCounted /\ TripsReachTheirRuns /\ ErrorsAreKept

-----------------------------------------------------------------------------
(* The errors that are kept.                                               *)

\* Latest() keeps the end of a sequence, as much of it as is compared.
LEMMA LatestKeepsTheEnd ==
  ASSUME NEW s \in Seq(Error)
  PROVE  /\ Latest(s) \in Seq(Error)
         /\ Len(Latest(s)) = IF Len(s) > MaxRepeatedErrors THEN MaxRepeatedErrors ELSE Len(s)
         /\ \A i \in 1 .. Len(Latest(s)) : Latest(s)[i] = s[Len(s) - Len(Latest(s)) + i]
<1>1. MaxRepeatedErrors \in Nat /\ Len(s) \in Nat
  BY BreakerAssumption
<1>2. PICK first \in Int : first = IF Len(s) > MaxRepeatedErrors
                                  THEN Len(s) - MaxRepeatedErrors + 1 ELSE 1
  <2>1. CASE Len(s) > MaxRepeatedErrors
    <3>1. Len(s) - MaxRepeatedErrors + 1 \in Int
      BY <1>1
    <3> QED BY <2>1, <3>1
  <2>2. CASE ~(Len(s) > MaxRepeatedErrors)
    BY <2>2
  <2> QED BY <2>1, <2>2
<1>3. first \in 1 .. Len(s) + 1 /\ Len(s) \in Int
  BY <1>1, <1>2
<1>4. Latest(s) = SubSeq(s, first, Len(s))
  BY <1>2 DEF Latest
<1>5. \A i \in first .. Len(s) : s[i] \in Error
  BY <1>3
<1>6. /\ Latest(s) \in Seq(Error)
      /\ Len(Latest(s)) = IF first <= Len(s) THEN Len(s) - first + 1 ELSE 0
      /\ \A i \in 1 .. Len(s) - first + 1 : Latest(s)[i] = s[first + i - 1]
  BY <1>3, <1>4, <1>5, SubSeqProperties
<1>7. Len(Latest(s)) = Len(s) - first + 1
  BY <1>3, <1>6
<1>8. ASSUME NEW i \in 1 .. Len(Latest(s))
      PROVE  Latest(s)[i] = s[Len(s) - Len(Latest(s)) + i]
  <2>1. Latest(s)[i] = s[first + i - 1]
    BY <1>6, <1>7
  <2>2. first + i - 1 = Len(s) - Len(Latest(s)) + i
    BY <1>1, <1>3, <1>7
  <2> QED BY <2>1, <2>2
<1>9. Len(Latest(s)) = IF Len(s) > MaxRepeatedErrors THEN MaxRepeatedErrors ELSE Len(s)
  BY <1>1, <1>2, <1>7
<1> QED BY <1>6, <1>8, <1>9

\* The errors of one run after one more.
Extended(t, e) == IF t # <<>> /\ t[1] = e THEN Append(t, e) ELSE <<e>>

\* The last errors of the breaker are all equal to the one that was added.
EndsInCopies(s, n, e) == n <= Len(s) /\ \A i \in Len(s) - n + 1 .. Len(s) : s[i] = e

LEMMA ExtendedEndsInCopies ==
  ASSUME NEW s \in Seq(Error), NEW t \in Seq(Error), NEW e \in Error,
         EndsWith(s, t), AllAlike(t)
  PROVE  /\ Extended(t, e) \in Seq(Error) /\ Append(s, e) \in Seq(Error)
         /\ Len(Extended(t, e)) \in 1 .. Len(t) + 1
         /\ EndsInCopies(Extended(t, e), Len(Extended(t, e)), e)
         /\ EndsInCopies(Append(s, e), Len(Extended(t, e)), e)
<1>1. Append(s, e) \in Seq(Error) /\ Len(Append(s, e)) = Len(s) + 1
  OBVIOUS
<1>2. Append(s, e)[Len(s) + 1] = e /\ \A i \in 1 .. Len(s) : Append(s, e)[i] = s[i]
  OBVIOUS
<1>3. CASE t # <<>> /\ t[1] = e
  <2>1. Extended(t, e) = Append(t, e)
    BY <1>3 DEF Extended
  <2>2. Append(t, e) \in Seq(Error) /\ Len(Append(t, e)) = Len(t) + 1
    OBVIOUS
  <2>3. Append(t, e)[Len(t) + 1] = e /\ \A i \in 1 .. Len(t) : Append(t, e)[i] = t[i]
    OBVIOUS
  <2>4. \A i \in 1 .. Len(t) : t[i] = e
    BY <1>3 DEF AllAlike
  <2>5. EndsInCopies(Append(t, e), Len(t) + 1, e)
    BY <2>2, <2>3, <2>4 DEF EndsInCopies
  <2>6. ASSUME NEW j \in Len(s) - Len(t) + 1 .. Len(s)
        PROVE  s[j] = e
    <3>1. PICK i \in 1 .. Len(t) : j = Len(s) - Len(t) + i
      <4>1. j - (Len(s) - Len(t)) \in 1 .. Len(t) /\ j = Len(s) - Len(t) + (j - (Len(s) - Len(t)))
        OBVIOUS
      <4> QED BY <4>1
    <3> QED BY <3>1, <2>4 DEF EndsWith
  <2>7. EndsInCopies(Append(s, e), Len(t) + 1, e)
    <3>1. Len(t) <= Len(s)
      BY DEF EndsWith
    <3>2. ASSUME NEW j \in Len(s) - Len(t) + 1 .. Len(s) + 1
          PROVE  Append(s, e)[j] = e
      BY <1>2, <2>6, <3>1
    <3> QED BY <1>1, <3>1, <3>2 DEF EndsInCopies
  <2> QED BY <1>1, <2>1, <2>2, <2>5, <2>7
<1>4. CASE ~(t # <<>> /\ t[1] = e)
  <2>1. Extended(t, e) = <<e>>
    BY <1>4 DEF Extended
  <2>2. EndsInCopies(<<e>>, 1, e)
    BY DEF EndsInCopies
  <2>3. EndsInCopies(Append(s, e), 1, e)
    BY <1>1, <1>2 DEF EndsInCopies
  <2>4. <<e>> \in Seq(Error) /\ Len(<<e>>) = 1
    OBVIOUS
  <2> QED BY <1>1, <2>1, <2>2, <2>3, <2>4
<1> QED BY <1>3, <1>4

\* What is kept of a sequence that ends in copies ends in them as well.
LEMMA LatestEndsInCopies ==
  ASSUME NEW s \in Seq(Error), NEW e \in Error, NEW n \in Nat, EndsInCopies(s, n, e)
  PROVE  EndsInCopies(Latest(s), IF n > MaxRepeatedErrors THEN MaxRepeatedErrors ELSE n, e)
<1>1. MaxRepeatedErrors \in Nat
  BY BreakerAssumption
<1>2. PICK m \in Nat : m = IF n > MaxRepeatedErrors THEN MaxRepeatedErrors ELSE n
  BY <1>1
<1>3. PICK k \in Nat : k = Len(Latest(s))
  BY LatestKeepsTheEnd
<1>4. k = (IF Len(s) > MaxRepeatedErrors THEN MaxRepeatedErrors ELSE Len(s)) /\ n <= Len(s)
  BY <1>3, LatestKeepsTheEnd DEF EndsInCopies
<1>5. m <= k /\ m <= n /\ k <= Len(s)
  BY <1>1, <1>2, <1>4
<1>6. ASSUME NEW i \in k - m + 1 .. k
      PROVE  Latest(s)[i] = e
  <2>1. Latest(s)[i] = s[Len(s) - k + i]
    BY <1>3, <1>5, LatestKeepsTheEnd
  <2>2. Len(s) - k + i \in Len(s) - n + 1 .. Len(s)
    BY <1>5
  <2> QED BY <2>1, <2>2 DEF EndsInCopies
<1> QED BY <1>2, <1>3, <1>5, <1>6 DEF EndsInCopies

\* One more error, on the breaker's list and on the run's own: the one still ends with
\* the other, and a run's own list that is full stops it.
LEMMA OneMoreError ==
  ASSUME NEW s \in Seq(Error), NEW t \in Seq(Error), NEW e \in Error,
         EndsWith(s, t), AllAlike(t), MaxRepeatedErrors > 0 => Len(t) < MaxRepeatedErrors,
         NEW u, u = Latest(Extended(t, e)),
         NEW w, w = Latest(Append(s, e))
  PROVE  /\ u \in Seq(Error) /\ w \in Seq(Error)
         /\ EndsWith(w, u) /\ AllAlike(u)
         /\ MaxRepeatedErrors > 0 /\ ~Repeated(w) => Len(u) < MaxRepeatedErrors
<1>1. MaxRepeatedErrors \in Nat
  BY BreakerAssumption
<1>2. PICK n \in Nat : n = Len(Extended(t, e))
  BY ExtendedEndsInCopies
<1>3. PICK m \in Nat : m = IF n > MaxRepeatedErrors THEN MaxRepeatedErrors ELSE n
  BY <1>1
<1>4. u \in Seq(Error) /\ w \in Seq(Error) /\ Len(u) = m
  BY <1>2, <1>3, ExtendedEndsInCopies, LatestKeepsTheEnd
<1>5. EndsInCopies(u, m, e) /\ EndsInCopies(w, m, e)
  BY <1>2, <1>3, ExtendedEndsInCopies, LatestEndsInCopies
<1>6. \A i \in 1 .. m : u[i] = e
  <2>1. \A i \in m - m + 1 .. m : u[i] = e
    BY <1>4, <1>5 DEF EndsInCopies
  <2> QED BY <2>1
<1>7. m <= Len(w) /\ \A i \in 1 .. m : w[Len(w) - m + i] = e
  <2>1. m <= Len(w) /\ Len(w) \in Nat
    BY <1>4, <1>5 DEF EndsInCopies
  <2>2. ASSUME NEW i \in 1 .. m
        PROVE  w[Len(w) - m + i] = e
    <3>1. Len(w) - m + i \in Len(w) - m + 1 .. Len(w)
      BY <2>1
    <3>2. \A j \in Len(w) - m + 1 .. Len(w) : w[j] = e
      BY <1>5 DEF EndsInCopies
    <3> QED BY <3>1, <3>2
  <2> QED BY <2>1, <2>2
<1>8. EndsWith(w, u) /\ AllAlike(u)
  <2>1. ASSUME NEW i \in 1 .. m
        PROVE  u[i] = w[Len(w) - m + i]
    BY <1>6, <1>7
  <2>2. EndsWith(w, u)
    BY <1>4, <1>7, <2>1 DEF EndsWith
  <2>3. AllAlike(u)
    BY <1>4, <1>6 DEF AllAlike
  <2> QED BY <2>2, <2>3
<1>9. ASSUME MaxRepeatedErrors > 0, ~(Len(u) < MaxRepeatedErrors)
      PROVE  Repeated(w)
  <2>1. m = MaxRepeatedErrors
    BY <1>1, <1>3, <1>4, <1>9
  <2>2. Len(w) = MaxRepeatedErrors
    <3>1. Append(s, e) \in Seq(Error) /\ Len(Append(s, e)) \in Nat
      BY ExtendedEndsInCopies
    <3>2. Len(w) = IF Len(Append(s, e)) > MaxRepeatedErrors
                   THEN MaxRepeatedErrors ELSE Len(Append(s, e))
      BY <3>1, LatestKeepsTheEnd
    <3> QED BY <1>1, <1>4, <1>7, <2>1, <3>2
  <2>3. \A i \in 1 .. Len(w) : w[i] = e
    BY <1>1, <1>7, <2>1, <2>2
  <2> QED BY <1>1, <1>9, <2>2, <2>3 DEF Repeated
<1> QED BY <1>4, <1>8, <1>9
-----------------------------------------------------------------------------
(* The steps.                                                              *)

LEMMA BeginStep ==
  ASSUME IInv, NEW r \in Run, Begin(r)
  PROVE  IInv'
<1>1. TypeOK'
  <2>1. errors' \in Seq(Error)
    BY DEF Begin
  <2>2. attempts' \in 0 .. MaxRetries + 1 /\ tokenUsed' \in Nat
    BY BreakerAssumption DEF Begin
  <2>3. /\ pc' \in [Run -> Ends \cup {"new", "running"}]
        /\ started' \in [Run -> Nat] /\ spent' \in [Run -> Nat] /\ last' \in [Run -> Seq(Error)]
    BY DEF IInv, TypeOK, Begin, Ended
  <2>4. {tripped', cleared', shared'} \subseteq SUBSET Run
    BY DEF IInv, TypeOK, Begin, Running
  <2> QED BY <2>1, <2>2, <2>3, <2>4 DEF TypeOK, Begin
<1>2. OverlapsAreKnown'
  BY BreakerAssumption DEF IInv, TypeOK, OverlapsAreKnown, Running, Begin, Ended
<1>3. NewRunsAreFresh'
  BY BreakerAssumption DEF IInv, TypeOK, NewRunsAreFresh, Begin, Ended
<1>4. AttemptsAreCounted'
  BY BreakerAssumption DEF IInv, TypeOK, AttemptsAreCounted, Running, Begin, Ended
<1>5. TokensAreCounted'
  <2>1. SUFFICES ASSUME NEW q \in Run, Undisturbed(q)'
                 PROVE  /\ Running(q)' => tokenUsed' = spent'[q]
                        /\ pc'[q] = "success" => spent'[q] <= PerTask
    BY DEF TokensAreCounted
  <2>2. Undisturbed(q)'
    BY <2>1
  <2>3. Undisturbed(q)
    BY <2>2 DEF Undisturbed, Begin
  <2>4. CASE q = r
    BY <2>4 DEF IInv, TypeOK, NewRunsAreFresh, Begin, Running
  <2>5. CASE q # r
    <3>1. ~Running(q)
      BY <2>2, <2>5 DEF Undisturbed, Begin, Running
    <3> QED BY <2>3, <2>5, <3>1 DEF IInv, TypeOK, TokensAreCounted, Begin, Running
  <2> QED BY <2>4, <2>5
<1>6. TripsReachTheirRuns'
  <2>1. SUFFICES ASSUME NEW q \in tripped, Running(q)', q \notin shared'
                 PROVE  FALSE
    BY DEF TripsReachTheirRuns, Begin
  <2>2. q \in Run /\ q # r
    BY DEF IInv, TypeOK, NewRunsAreFresh, Begin
  <2>3. Running(q)
    BY <2>1, <2>2 DEF IInv, TypeOK, Begin, Running
  <2> QED BY <2>1, <2>2, <2>3 DEF Begin
<1>7. ErrorsAreKept'
  <2>1. SUFFICES ASSUME NEW q \in Run, Running(q)', Undisturbed(q)'
                 PROVE  /\ EndsWith(errors', last'[q]) /\ AllAlike(last'[q])
                        /\ MaxRepeatedErrors > 0 => Len(last'[q]) < MaxRepeatedErrors
    BY DEF ErrorsAreKept
  <2>2. Running(q)' /\ Undisturbed(q)'
    BY <2>1
  <2>3. q = r
    BY <2>2 DEF IInv, TypeOK, Undisturbed, Begin, Running
  <2>4. errors' = <<>> /\ last'[q] = <<>>
    BY <2>3 DEF IInv, NewRunsAreFresh, Begin
  <2> QED BY <2>4 DEF EndsWith, AllAlike
<1> QED BY <1>1, <1>2, <1>3, <1>4, <1>5, <1>6, <1>7 DEF IInv

LEMMA ScopeChangeStep ==
  ASSUME IInv, NEW r \in Run, ProposeScopeChange(r)
  PROVE  IInv'
<1>1. TypeOK'
  BY BreakerAssumption DEF IInv, TypeOK, breakerVars, Ends, Stops, ProposeScopeChange, history
<1>2. OverlapsAreKnown'
  BY BreakerAssumption DEF IInv, TypeOK, OverlapsAreKnown, Running, ProposeScopeChange, history
<1>3. NewRunsAreFresh'
  BY BreakerAssumption DEF IInv, TypeOK, NewRunsAreFresh, ProposeScopeChange, history
<1>4. AttemptsAreCounted'
  BY BreakerAssumption DEF IInv, TypeOK, AttemptsAreCounted, Running, ProposeScopeChange, history
<1>5. TokensAreCounted'
  BY BreakerAssumption
  DEF IInv, TypeOK, TokensAreCounted, Undisturbed, Running, ProposeScopeChange, history
<1>6. TripsReachTheirRuns'
  BY BreakerAssumption DEF IInv, TypeOK, TripsReachTheirRuns, Running, ProposeScopeChange, history
<1>7. ErrorsAreKept'
  BY BreakerAssumption
  DEF IInv, TypeOK, ErrorsAreKept, Undisturbed, Running, ProposeScopeChange, history
<1> QED BY <1>1, <1>2, <1>3, <1>4, <1>5, <1>6, <1>7 DEF IInv

LEMMA UsageStep ==
  ASSUME IInv, NEW r \in Run, NEW cost \in Cost, RecordTokenUsage(r, cost)
  PROVE  IInv'
<1>1. TypeOK'
  BY BreakerAssumption DEF IInv, TypeOK, breakerVars, Ends, Stops, RecordTokenUsage
<1>2. OverlapsAreKnown'
  BY BreakerAssumption DEF IInv, TypeOK, OverlapsAreKnown, Running, RecordTokenUsage
<1>3. NewRunsAreFresh'
  <2>1. SUFFICES ASSUME NEW q \in Run, pc'[q] = "new"
                 PROVE  spent'[q] = 0 /\ last'[q] = <<>> /\ q \notin tripped'
    BY DEF NewRunsAreFresh
  <2>2. pc'[q] = "new"
    BY <2>1
  <2>3. q # r /\ pc[q] = "new"
    BY <2>2 DEF RecordTokenUsage, Running
  <2> QED BY <2>3 DEF IInv, TypeOK, NewRunsAreFresh, RecordTokenUsage
<1>4. AttemptsAreCounted'
  BY BreakerAssumption DEF IInv, TypeOK, AttemptsAreCounted, Running, RecordTokenUsage
<1>5. TokensAreCounted'
  <2>1. SUFFICES ASSUME NEW q \in Run, Undisturbed(q)'
                 PROVE  /\ Running(q)' => tokenUsed' = spent'[q]
                        /\ pc'[q] = "success" => spent'[q] <= PerTask
    BY DEF TokensAreCounted
  <2>2. Undisturbed(q)'
    BY <2>1
  <2>3. Undisturbed(q) /\ pc'[q] = pc[q]
    BY <2>2 DEF Undisturbed, RecordTokenUsage
  <2>4. CASE q = r
    BY <2>3, <2>4 DEF IInv, TypeOK, TokensAreCounted, RecordTokenUsage, Running
  <2>5. CASE q # r
    <3>1. ~Running(q)
      BY <2>3, <2>5 DEF IInv, OverlapsAreKnown, Undisturbed, RecordTokenUsage
    <3> QED BY <2>3, <2>5, <3>1 DEF IInv, TypeOK, TokensAreCounted, RecordTokenUsage, Running
  <2> QED BY <2>4, <2>5
<1>6. TripsReachTheirRuns'
  BY BreakerAssumption DEF IInv, TypeOK, TripsReachTheirRuns, Running, RecordTokenUsage
<1>7. ErrorsAreKept'
  BY BreakerAssumption DEF IInv, TypeOK, ErrorsAreKept, Undisturbed, Running, RecordTokenUsage
<1> QED BY <1>1, <1>2, <1>3, <1>4, <1>5, <1>6, <1>7 DEF IInv

LEMMA TripStep ==
  ASSUME IInv, Trip
  PROVE  IInv'
<1>1. TypeOK'
  BY BreakerAssumption DEF IInv, TypeOK, breakerVars, Ends, Stops, Trip
<1>2. OverlapsAreKnown'
  BY BreakerAssumption DEF IInv, TypeOK, OverlapsAreKnown, Running, Trip
<1>3. NewRunsAreFresh'
  BY DEF IInv, NewRunsAreFresh, Trip, Running
<1>4. AttemptsAreCounted'
  BY BreakerAssumption DEF IInv, TypeOK, AttemptsAreCounted, Running, Trip
<1>5. TokensAreCounted'
  BY BreakerAssumption DEF IInv, TypeOK, TokensAreCounted, Undisturbed, Running, Trip
<1>6. TripsReachTheirRuns'
  BY BreakerAssumption DEF IInv, TypeOK, TripsReachTheirRuns, Running, Trip
<1>7. ErrorsAreKept'
  BY BreakerAssumption DEF IInv, TypeOK, ErrorsAreKept, Undisturbed, Running, Trip
<1> QED BY <1>1, <1>2, <1>3, <1>4, <1>5, <1>6, <1>7 DEF IInv

LEMMA ResetStep ==
  ASSUME IInv, Reset
  PROVE  IInv'
<1>1. TypeOK'
  <2>1. errors' \in Seq(Error)
    BY DEF Reset
  <2>2. attempts' \in 0 .. MaxRetries + 1 /\ tokenUsed' \in Nat
    BY BreakerAssumption DEF Reset
  <2>3. /\ pc' \in [Run -> Ends \cup {"new", "running"}]
        /\ started' \in [Run -> Nat] /\ spent' \in [Run -> Nat] /\ last' \in [Run -> Seq(Error)]
    BY DEF IInv, TypeOK, Reset
  <2>4. {tripped', cleared', shared'} \subseteq SUBSET Run
    BY DEF IInv, TypeOK, Reset
  <2> QED BY <2>1, <2>2, <2>3, <2>4 DEF TypeOK, Reset
<1>2. OverlapsAreKnown'
  BY BreakerAssumption DEF IInv, TypeOK, OverlapsAreKnown, Running, Reset
<1>3. NewRunsAreFresh'
  BY BreakerAssumption DEF IInv, TypeOK, NewRunsAreFresh, Reset
<1>4. AttemptsAreCounted'
  BY BreakerAssumption DEF IInv, TypeOK, AttemptsAreCounted, Running, Reset
<1>5. TokensAreCounted'
  BY BreakerAssumption DEF IInv, TypeOK, TokensAreCounted, Undisturbed, Running, Reset
<1>6. TripsReachTheirRuns'
  BY BreakerAssumption DEF IInv, TypeOK, TripsReachTheirRuns, Running, Reset
<1>7. ErrorsAreKept'
  BY BreakerAssumption DEF IInv, TypeOK, ErrorsAreKept, Undisturbed, Running, Reset
<1> QED BY <1>1, <1>2, <1>3, <1>4, <1>5, <1>6, <1>7 DEF IInv

LEMMA ResolvesStep ==
  ASSUME IInv, NEW r \in Run, NEW cost \in Cost, NEW goals \in BOOLEAN, TaskResolves(r, cost, goals)
  PROVE  IInv'
<1>0. /\ tokenUsed \in Nat /\ cost \in Nat
      /\ pc \in [Run -> Ends \cup {"new", "running"}] /\ spent \in [Run -> Nat]
  BY BreakerAssumption DEF IInv, TypeOK
<1>8. PICK how : how = Judged(cost, goals)
  OBVIOUS
<1>9. how \in Ends /\ how \notin {"new", "running"}
  BY <1>0, <1>8, BreakerAssumption DEF Judged, Ends, Stops
<1>10. /\ pc' = [pc EXCEPT ![r] = how] /\ spent' = [spent EXCEPT ![r] = @ + cost]
       /\ pc[r] = "running"
       /\ UNCHANGED <<killed, attempts, errors, scopeProposed, controller,
                      started, last, tripped, cleared, shared>>
  BY <1>8 DEF TaskResolves, Ended, Running
<1>1. TypeOK'
  <2>1. tokenUsed' \in Nat
    BY <1>0 DEF TaskResolves
  <2>2. pc' \in [Run -> Ends \cup {"new", "running"}]
    BY <1>0, <1>9, <1>10
  <2>3. spent' \in [Run -> Nat]
    BY <1>0, <1>10
  <2>4. /\ killed \in BOOLEAN /\ scopeProposed \in BOOLEAN /\ attempts \in 0 .. MaxRetries + 1
        /\ errors \in Seq(Error) /\ controller \in {"none", "live", "aborted"}
        /\ started \in [Run -> Nat] /\ last \in [Run -> Seq(Error)]
        /\ {tripped, cleared, shared} \subseteq SUBSET Run
    BY DEF IInv, TypeOK
  <2> QED BY <1>10, <2>1, <2>2, <2>3, <2>4 DEF TypeOK
<1>2. OverlapsAreKnown'
  BY <1>0, <1>9, <1>10 DEF IInv, OverlapsAreKnown, Running
<1>3. NewRunsAreFresh'
  BY <1>0, <1>9, <1>10 DEF IInv, NewRunsAreFresh
<1>4. AttemptsAreCounted'
  BY <1>0, <1>9, <1>10 DEF IInv, AttemptsAreCounted, Running
<1>5. TokensAreCounted'
  <2>1. SUFFICES ASSUME NEW q \in Run, Undisturbed(q)'
                 PROVE  /\ Running(q)' => tokenUsed' = spent'[q]
                        /\ pc'[q] = "success" => spent'[q] <= PerTask
    BY DEF TokensAreCounted
  <2>2. Undisturbed(q)'
    BY <2>1
  <2>3. Undisturbed(q)
    BY <2>2 DEF Undisturbed, TaskResolves
  <2>4. CASE q = r
    <3>1. tokenUsed = spent[r] /\ spent'[r] = spent[r] + cost /\ pc'[r] = Judged(cost, goals)
      BY <2>3, <2>4 DEF IInv, TypeOK, TokensAreCounted, TaskResolves, Ended
    <3>2. Judged(cost, goals) # "running"
      BY <1>8, <1>9
    <3>3. Judged(cost, goals) = "success" => tokenUsed + cost <= PerTask
      BY <1>0, BreakerAssumption DEF Judged
    <3> QED BY <2>4, <3>1, <3>2, <3>3 DEF Running
  <2>5. CASE q # r
    <3>1. ~Running(q)
      BY <2>3, <2>5 DEF IInv, OverlapsAreKnown, Undisturbed, TaskResolves
    <3> QED BY <2>3, <2>5, <3>1 DEF IInv, TypeOK, TokensAreCounted, TaskResolves, Ended, Running
  <2> QED BY <2>4, <2>5
<1>6. TripsReachTheirRuns'
  BY BreakerAssumption DEF IInv, TypeOK, TripsReachTheirRuns, Running, TaskResolves, Ended, Judged
<1>7. ErrorsAreKept'
  BY BreakerAssumption
  DEF IInv, TypeOK, ErrorsAreKept, Undisturbed, Running, TaskResolves, Ended, Judged
<1> QED BY <1>1, <1>2, <1>3, <1>4, <1>5, <1>6, <1>7 DEF IInv

\* What the three actions of a task that rejects have in common.  how: the run goes on
\* ("running"), or what it returned.
LEMMA RejectsStep ==
  ASSUME IInv, NEW r \in Run, NEW error \in Error, NEW cost \in Cost, Rejects(r, error, cost),
         NEW how \in (Ends \ {"success"}) \cup {"running"}, Ended(r, how),
         how = "running" => ~Repeated(errors'),
         attempts' \in 0 .. MaxRetries + 1, started' \in [Run -> Nat]
  PROVE  /\ TypeOK' /\ OverlapsAreKnown' /\ NewRunsAreFresh' /\ TokensAreCounted'
         /\ TripsReachTheirRuns' /\ ErrorsAreKept'
<1>1. PICK u : u = Latest(Extended(last[r], error))
  OBVIOUS
<1>2. last' = [last EXCEPT ![r] = u]
  BY <1>1 DEF Rejects, Extended
<1>3. last[r] \in Seq(Error) /\ errors \in Seq(Error)
  BY DEF IInv, TypeOK
<1>4. Running(r) /\ errors' = Latest(Append(errors, error))
  BY DEF Rejects
<1>5. cost \in Nat
  BY BreakerAssumption
<1>6. ASSUME NEW q \in Run, q # r, Undisturbed(q)
      PROVE  ~Running(q)
  BY <1>4, <1>6 DEF IInv, OverlapsAreKnown, Undisturbed
<1>7. TypeOK'
  <2>1. u \in Seq(Error)
    <3>1. Extended(last[r], error) \in Seq(Error)
      <4>1. Append(last[r], error) \in Seq(Error) /\ <<error>> \in Seq(Error)
        BY <1>3
      <4> QED BY <4>1 DEF Extended
    <3> QED BY <1>1, <3>1, LatestKeepsTheEnd
  <2>2. errors' \in Seq(Error)
    <3>1. Append(errors, error) \in Seq(Error)
      BY <1>3
    <3> QED BY <1>4, <3>1, LatestKeepsTheEnd
  <2>3. last' \in [Run -> Seq(Error)]
    BY <1>2, <2>1 DEF IInv, TypeOK
  <2>4. spent' \in [Run -> Nat] /\ tokenUsed' \in Nat
    BY <1>5 DEF IInv, TypeOK, Rejects
  <2>5. pc' \in [Run -> Ends \cup {"new", "running"}]
    BY DEF IInv, TypeOK, Ended
  <2> QED BY <2>2, <2>3, <2>4, <2>5 DEF IInv, TypeOK, Rejects
<1>8. OverlapsAreKnown'
  BY <1>4 DEF IInv, TypeOK, OverlapsAreKnown, Running, Rejects, Ended
<1>9. NewRunsAreFresh'
  <2>1. SUFFICES ASSUME NEW q \in Run, pc'[q] = "new"
                 PROVE  spent'[q] = 0 /\ last'[q] = <<>> /\ q \notin tripped'
    BY DEF NewRunsAreFresh
  <2>2. pc'[q] = "new"
    BY <2>1
  <2>3. q # r /\ pc[q] = "new"
    BY <2>2 DEF IInv, TypeOK, Ended, Ends, Stops
  <2> QED BY <1>2, <2>3 DEF IInv, TypeOK, NewRunsAreFresh, Rejects
<1>10. TokensAreCounted'
  <2>1. SUFFICES ASSUME NEW q \in Run, Undisturbed(q)'
                 PROVE  /\ Running(q)' => tokenUsed' = spent'[q]
                        /\ pc'[q] = "success" => spent'[q] <= PerTask
    BY DEF TokensAreCounted
  <2>2. Undisturbed(q)'
    BY <2>1
  <2>3. Undisturbed(q)
    BY <2>2 DEF Undisturbed, Rejects
  <2>4. CASE q = r
    <3>1. tokenUsed = spent[r]
      BY <1>4, <2>3, <2>4 DEF IInv, TokensAreCounted
    <3>2. tokenUsed' = tokenUsed + cost /\ spent'[r] = spent[r] + cost /\ pc'[r] # "success"
      BY DEF IInv, TypeOK, Rejects, Ended
    <3> QED BY <2>4, <3>1, <3>2
  <2>5. CASE q # r
    <3>1. ~Running(q)
      BY <1>6, <2>3, <2>5
    <3>2. pc'[q] = pc[q] /\ spent'[q] = spent[q]
      BY <2>5 DEF IInv, TypeOK, Rejects, Ended
    <3> QED BY <2>3, <3>1, <3>2 DEF IInv, TokensAreCounted, Running
  <2> QED BY <2>4, <2>5
<1>11. TripsReachTheirRuns'
  BY <1>4 DEF IInv, TypeOK, TripsReachTheirRuns, Running, Rejects, Ended
<1>12. ErrorsAreKept'
  <2>1. SUFFICES ASSUME NEW q \in Run, Running(q)', Undisturbed(q)'
                 PROVE  /\ EndsWith(errors', last'[q]) /\ AllAlike(last'[q])
                        /\ MaxRepeatedErrors > 0 => Len(last'[q]) < MaxRepeatedErrors
    BY DEF ErrorsAreKept
  <2>2. Running(q)' /\ Undisturbed(q)'
    BY <2>1
  <2>3. Undisturbed(q)
    BY <2>2 DEF Undisturbed, Rejects
  <2>4. CASE q = r
    <3>1. /\ EndsWith(errors, last[r]) /\ AllAlike(last[r])
          /\ MaxRepeatedErrors > 0 => Len(last[r]) < MaxRepeatedErrors
      BY <1>4, <2>3, <2>4 DEF IInv, ErrorsAreKept
    <3>2. how = "running"
      BY <2>2, <2>4 DEF IInv, TypeOK, Running, Ended
    <3>3. /\ EndsWith(errors', u) /\ AllAlike(u)
          /\ MaxRepeatedErrors > 0 /\ ~Repeated(errors') => Len(u) < MaxRepeatedErrors
      BY <1>1, <1>3, <1>4, <3>1, OneMoreError
    <3>4. last'[q] = u
      BY <1>2, <2>4 DEF IInv, TypeOK
    <3> QED BY <3>2, <3>3, <3>4
  <2>5. CASE q # r
    <3>1. pc'[q] = pc[q]
      BY <2>5 DEF IInv, TypeOK, Ended
    <3> QED BY <1>6, <2>2, <2>3, <2>5, <3>1 DEF Running
  <2> QED BY <2>4, <2>5
<1> QED BY <1>7, <1>8, <1>9, <1>10, <1>11, <1>12

LEMMA StopAfterRejectStep ==
  ASSUME IInv, NEW r \in Run, NEW error \in Error, NEW cost \in Cost,
         StopAfterReject(r, error, cost)
  PROVE  IInv'
<1>1. PICK how \in {"repeated_error", "kill_switch", "max_retries"} : Ended(r, how)
  BY DEF StopAfterReject
<1>2. how \in (Ends \ {"success"}) \cup {"running"} /\ how # "running"
  BY DEF Ends, Stops
<1>3. Rejects(r, error, cost) /\ attempts' = attempts /\ started' = started
  BY DEF StopAfterReject
<1>4. attempts' \in 0 .. MaxRetries + 1 /\ started' \in [Run -> Nat]
  BY <1>3 DEF IInv, TypeOK
<1>5. AttemptsAreCounted'
  BY <1>1, <1>2, <1>3 DEF IInv, TypeOK, AttemptsAreCounted, Running, Rejects, Ended
<1> QED BY <1>1, <1>2, <1>3, <1>4, <1>5, RejectsStep DEF IInv

LEMMA RetryStep ==
  ASSUME IInv, NEW r \in Run, NEW error \in Error, NEW cost \in Cost, Retry(r, error, cost)
  PROVE  IInv'
<1>1. Rejects(r, error, cost) /\ Running(r) /\ ~Repeated(errors') /\ Ended(r, "running")
  BY DEF Retry, Rejects, Running, Ended, IInv, TypeOK
<1>2. attempts' = attempts + 1 /\ attempts' \in 0 .. MaxRetries + 1
  BY BreakerAssumption DEF Retry, MayRetry, IInv, TypeOK
<1>3. started' \in [Run -> Nat]
  BY DEF Retry, StartsAttempt, IInv, TypeOK
<1>4. AttemptsAreCounted'
  <2>1. SUFFICES ASSUME NEW q \in Run, q \notin shared'
                 PROVE  /\ started'[q] <= MaxRetries + 1
                        /\ Running(q)' /\ controller' # "none" => started'[q] <= attempts'
    BY DEF AttemptsAreCounted
  <2>2. q \notin shared /\ controller' = controller /\ pc' = pc
    BY <1>1, <2>1 DEF Rejects, Retry
  <2>3. CASE q = r
    <3>1. started[r] <= attempts
      BY <1>1, <2>2, <2>3 DEF IInv, AttemptsAreCounted, Retry
    <3>2. started'[r] <= started[r] + 1
      BY DEF Retry, StartsAttempt, IInv, TypeOK
    <3>3. started[r] \in Nat /\ started'[r] \in Nat /\ attempts \in Nat /\ attempts <= MaxRetries
      BY <1>3, BreakerAssumption DEF Retry, MayRetry, IInv, TypeOK
    <3> QED BY <1>2, <2>3, <3>1, <3>2, <3>3, BreakerAssumption
  <2>4. CASE q # r
    <3>1. started'[q] = started[q]
      BY <2>4 DEF Retry, StartsAttempt, IInv, TypeOK
    <3>2. ~Running(q)
      BY <1>1, <2>2, <2>4 DEF IInv, OverlapsAreKnown
    <3> QED BY <2>2, <3>1, <3>2 DEF IInv, AttemptsAreCounted, Running
  <2> QED BY <2>3, <2>4
<1> QED BY <1>1, <1>2, <1>3, <1>4, RejectsStep DEF IInv

LEMMA RetryThrowsStep ==
  ASSUME IInv, NEW r \in Run, NEW error \in Error, NEW cost \in Cost,
         RetryThrows(r, error, cost)
  PROVE  IInv'
<1>1. Rejects(r, error, cost) /\ Ended(r, "rejected") /\ started' = started /\ controller' = "none"
  BY DEF RetryThrows, Rejects
<1>2. "rejected" \in (Ends \ {"success"}) \cup {"running"} /\ "rejected" # "running"
  BY DEF Ends, Stops
<1>3. attempts' \in 0 .. MaxRetries + 1 /\ started' \in [Run -> Nat]
  BY <1>1, BreakerAssumption DEF RetryThrows, MayRetry, IInv, TypeOK
<1>4. AttemptsAreCounted'
  BY <1>1 DEF IInv, AttemptsAreCounted, Rejects
<1> QED BY <1>1, <1>2, <1>3, <1>4, RejectsStep DEF IInv

LEMMA StutteringStep ==
  ASSUME IInv, UNCHANGED vars
  PROVE  IInv'
<1>1. TypeOK' /\ OverlapsAreKnown' /\ NewRunsAreFresh'
  BY DEF IInv, vars, breakerVars, history, TypeOK, OverlapsAreKnown, NewRunsAreFresh, Running
<1>2. AttemptsAreCounted' /\ TokensAreCounted' /\ TripsReachTheirRuns' /\ ErrorsAreKept'
  BY DEF IInv, vars, breakerVars, history, AttemptsAreCounted, TokensAreCounted,
         TripsReachTheirRuns, ErrorsAreKept, Running, Undisturbed
<1> QED BY <1>1, <1>2 DEF IInv
-----------------------------------------------------------------------------
(* The theorems.                                                           *)

LEMMA InitiallyIInv == Init => IInv
<1> SUFFICES ASSUME Init PROVE IInv
  OBVIOUS
<1>1. TypeOK
  <2>1. errors \in Seq(Error) /\ last \in [Run -> Seq(Error)]
    BY DEF Init
  <2>2. /\ pc \in [Run -> Ends \cup {"new", "running"}]
        /\ started \in [Run -> Nat] /\ spent \in [Run -> Nat]
    BY DEF Init
  <2>3. {tripped, cleared, shared} \subseteq SUBSET Run
    BY DEF Init
  <2>4. attempts \in 0 .. MaxRetries + 1 /\ tokenUsed \in Nat
    BY BreakerAssumption DEF Init
  <2> QED BY <2>1, <2>2, <2>3, <2>4 DEF Init, TypeOK
<1>2. \A r \in Run : pc[r] = "new"
  BY DEF Init
<1>3. OverlapsAreKnown /\ NewRunsAreFresh /\ TripsReachTheirRuns /\ ErrorsAreKept
  BY <1>2 DEF Init, OverlapsAreKnown, NewRunsAreFresh, TripsReachTheirRuns, ErrorsAreKept, Running
<1>4. AttemptsAreCounted /\ TokensAreCounted
  BY <1>2, BreakerAssumption DEF Init, AttemptsAreCounted, TokensAreCounted, Running
<1> QED BY <1>1, <1>3, <1>4 DEF IInv

LEMMA NextKeepsIInv == IInv /\ [Next]_vars => IInv'
<1> SUFFICES ASSUME IInv, [Next]_vars PROVE IInv'
  OBVIOUS
<1>1. ASSUME NEW r \in Run, Begin(r) PROVE IInv'
  BY <1>1, BeginStep
<1>2. ASSUME NEW r \in Run, ProposeScopeChange(r) PROVE IInv'
  BY <1>2, ScopeChangeStep
<1>3. ASSUME NEW r \in Run, TaskSettles(r) PROVE IInv'
  BY <1>3, ResolvesStep, StopAfterRejectStep, RetryStep, RetryThrowsStep DEF TaskSettles
<1>4. ASSUME NEW r \in Run, NEW cost \in Cost, RecordTokenUsage(r, cost) PROVE IInv'
  BY <1>4, UsageStep
<1>5. CASE Trip
  BY <1>5, TripStep
<1>6. CASE Reset
  BY <1>6, ResetStep
<1>7. CASE Quiescent \/ UNCHANGED vars
  BY <1>7, StutteringStep DEF Quiescent
<1> QED BY <1>1, <1>2, <1>3, <1>4, <1>5, <1>6, <1>7 DEF Next

\* The breaker's counters are, until a reset(), those of the run that has it to
\* itself, whatever order runs, trips, resets and rejections come in.
THEOREM BreakerInvariant == Spec => []IInv
<1> QED BY InitiallyIInv, NextKeepsIInv, PTL DEF Spec

\* The state of the breaker and of its runs is what createBreaker() declares, and
\* attempts never passes maxRetries + 1.
THEOREM BreakerTypes == Spec => []TypeOK
<1>1. IInv => TypeOK
  BY DEF IInv
<1> QED BY <1>1, BreakerInvariant, PTL

\* A run alone on its breaker makes at most maxRetries + 1 attempts, although a reset()
\* in its midst sets the count back: the loop then finds no controller and throws.
THEOREM AttemptsStayBounded == Spec => []AttemptsAreBounded
<1>1. IInv => AttemptsAreBounded
  BY DEF IInv, AttemptsAreCounted, AttemptsAreBounded
<1> QED BY <1>1, BreakerInvariant, PTL

\* A run that succeeds undisturbed has kept within the task's budget with all its
\* attempts, the ones that failed included, at which no budget is looked at.
THEOREM SuccessStaysAffordable == Spec => []SuccessIsAffordable
<1>1. IInv => SuccessIsAffordable
  BY DEF IInv, TokensAreCounted, SuccessIsAffordable
<1> QED BY <1>1, BreakerInvariant, PTL

\* The equal errors of a run are at the end of the breaker's list: a run that has seen
\* maxRepeatedErrors of them in a row has been stopped.
THEOREM StuckRunsAreStopped == Spec => []StuckRunsStop
<1>1. IInv => StuckRunsStop
  BY DEF IInv, ErrorsAreKept, StuckRunsStop
<1> QED BY <1>1, BreakerInvariant, PTL

\* No attempt follows a trip(), of a run alone on its breaker: what comes between them,
\* a reset() included, leaves it an aborted controller or none.
THEOREM TrippedRunsRest == Spec => TrippedRunsStartNothing
<1>1. ASSUME IInv, [Next]_vars, NEW r \in tripped
      PROVE  r \in shared \/ started'[r] = started[r]
  <2> SUFFICES ASSUME r \notin shared PROVE started'[r] = started[r]
    OBVIOUS
  <2>1. r \in Run /\ pc[r] # "new"
    BY <1>1 DEF IInv, TypeOK, NewRunsAreFresh
  <2>2. ASSUME NEW q \in Run, Begin(q) PROVE started'[r] = started[r]
    BY <1>1, <2>1, <2>2 DEF IInv, TypeOK, Begin
  <2>3. ASSUME NEW q \in Run, TaskSettles(q) PROVE started'[r] = started[r]
    <3>1. ASSUME NEW error \in Error, NEW cost \in Cost, Retry(q, error, cost)
          PROVE  started'[r] = started[r]
      <4>1. Running(q) /\ controller \notin {"none", "aborted"}
        BY <3>1 DEF Retry, Rejects, MayRetry
      <4>2. q # r
        BY <1>1, <4>1 DEF IInv, TripsReachTheirRuns
      <4> QED BY <1>1, <2>1, <3>1, <4>2 DEF IInv, TypeOK, Retry, StartsAttempt
    <3> QED BY <2>3, <3>1 DEF TaskSettles, TaskResolves, StopAfterReject, RetryThrows
  <2>4. ASSUME NEW q \in Run, ProposeScopeChange(q) PROVE started'[r] = started[r]
    BY <2>4 DEF ProposeScopeChange, history
  <2>5. ASSUME NEW q \in Run, NEW cost \in Cost, RecordTokenUsage(q, cost)
        PROVE  started'[r] = started[r]
    BY <2>5 DEF RecordTokenUsage
  <2>6. CASE Trip \/ Reset
    BY <2>6 DEF Trip, Reset
  <2>7. CASE Quiescent \/ UNCHANGED vars
    BY <2>7 DEF Quiescent, vars, history
  <2> QED BY <1>1, <2>2, <2>3, <2>4, <2>5, <2>6, <2>7 DEF Next
<1>2. IInv /\ [Next]_vars => [\A r \in tripped : r \in shared \/ started'[r] = started[r]]_vars
  BY <1>1
<1> QED BY <1>2, BreakerInvariant, PTL DEF Spec, TrippedRunsStartNothing

-----------------------------------------------------------------------------
(* Daemons, and those who use them.                                        *)

Maybe(S) == {<<>>} \cup {<<x>> : x \in S}

\* What generateRuntimeCredential, or the configuration, makes the credential of p.
MadeUp(p) == Config[p].cred = ""
CredentialOf(p) ==
  IF MadeUp(p) THEN Secret(p, "runtime") ELSE <<Config[p].cred>>

Secrets ==
  {<<>>} \cup {Secret(p, "runtime") : p \in Pid} \cup {Secret(p, "operator") : p \in Pid}
    \cup {<<Config[p].cred>> : p \in Pid} \cup {<<Config[p].op>> : p \in Pid}
\* A connection carries the credential of the daemon it names.
Connections == {k \in [pid : Pid, port : Nat, cred : Secrets] : k.cred = CredentialOf(k.pid)}
Sessions == [id : Nat \ {0}, agent : Agent, pid : Pid]
DaemonPhases ==
  {"none", "spawned", "minting", "loaded", "bound", "serving", "closing", "gone"}
CommandPhases == {"begin", "spawn", "clean", "wait", "reread", "started", "launched", "kill",
                  "remove", "readSecret", "approve", "done"}
ClientPhases == {"out", "start", "ready", "held", "permitted", "redeemed", "gone"}
Daemons == [phase : DaemonPhases, cred : Secrets, op : Secrets, sessions : SUBSET Sessions,
            held : SUBSET Nat, granted : SUBSET Nat, redeemed : SUBSET Nat]
Duties == {"", "start", "stop", "run", "approve"}
Commands == [does : Duties, at : CommandPhases,
             read : Maybe(Connections), secret : Maybe(Secrets), client : Maybe(Connections),
             session : Sessions \cup {NoSession}]
Clients == [conn : Maybe(Connections), session : Sessions \cup {NoSession}, request : Nat,
            at : ClientPhases]

ServiceTypes ==
  /\ connection \in Maybe(Connections)
  /\ operatorFile \in Maybe(Secrets)
  /\ daemon \in [Pid -> Daemons]
  /\ cli \in [Cli -> Commands]
  /\ agent \in [Agent -> Clients]
  /\ requests \in Nat

\* Once loaded, a daemon has its credential, and it listens only where agents and
\* operator hold different secrets.
SecretsFit ==
  \A p \in Pid :
    /\ daemon[p].phase \in {"minting", "loaded", "bound", "serving", "closing"} =>
         daemon[p].cred = CredentialOf(p)
    /\ Listening(p) => SecretsDiffer(p)

\* A daemon has the sessions it opened, no two daemons hold one request, and what was
\* redeemed there was granted there.
RequestsFit ==
  /\ \A p \in Pid :
       /\ \A s \in daemon[p].sessions : s.pid = p
       /\ \A r \in daemon[p].held : r <= requests
       /\ daemon[p].redeemed \subseteq daemon[p].granted
       /\ \A r \in daemon[p].granted : \E g \in granted : g.pid = p /\ g.request = r
  /\ \A p, q \in Pid : \A r \in daemon[p].held \cap daemon[q].held : p = q

\* A client that waits for an approval holds the credential of the daemon of its
\* session, which holds its request; one that redeemed it did so there.
ClientsFit ==
  \A a \in Agent :
    /\ agent[a].at \notin {"out", "gone"} => agent[a].conn # <<>>
    /\ agent[a].session # NoSession => agent[a].session.agent = a
    /\ agent[a].at = "held" =>
         /\ agent[a].session # NoSession
         /\ agent[a].request \in daemon[agent[a].session.pid].held
         /\ agent[a].conn[1].cred = CredentialOf(agent[a].session.pid)
    /\ agent[a].at = "redeemed" =>
         /\ agent[a].session # NoSession
         /\ agent[a].request \in daemon[agent[a].session.pid].redeemed

\* safeloop run launches, and safeloop stop signals, with the connection it has read.
CommandsFit ==
  \A c \in Cli : \/ cli[c].does = "run" /\ cli[c].at = "started"
                 \/ cli[c].at = "kill"
                 => cli[c].read # <<>>

ServiceInvariant ==
  /\ ServiceTypes /\ SecretsFit /\ RequestsFit /\ ClientsFit /\ CommandsFit
  /\ ApprovalsAreTheOperators

-----------------------------------------------------------------------------
(* Secrets and optional values.                                            *)

LEMMA MaybeIs ==
  ASSUME NEW S
  PROVE  /\ <<>> \in Maybe(S)
         /\ \A x \in S : <<x>> \in Maybe(S) /\ <<x>> # <<>>
         /\ \A m \in Maybe(S) : m # <<>> => m[1] \in S
BY DEF Maybe

\* A made-up credential is nobody else's.
LEMMA MadeUpSecretsDiffer ==
  ASSUME NEW p \in Pid, NEW q \in Pid, MadeUp(p),
         CredentialOf(q) = CredentialOf(p)
  PROVE  q = p
BY DEF CredentialOf, Secret

LEMMA SecretsAreSecrets ==
  ASSUME NEW p \in Pid
  PROVE  /\ CredentialOf(p) \in Secrets /\ Secret(p, "operator") \in Secrets
         /\ <<Config[p].op>> \in Secrets /\ <<>> \in Secrets
BY DEF CredentialOf, Secrets

\* Which secret each route asks for.
LEMMA RoutesAsk ==
  /\ RouteAuth["health"] = "none" /\ RouteAuth["grant"] = "operator"
  /\ RouteAuth["start"] = "runtime"
  /\ \A r \in SessionRoutes : RouteAuth[r] = "runtime"
BY DEF RouteAuth, SessionRoutes

-----------------------------------------------------------------------------
(* What keeps each part of the invariant.                                  *)

\* Steps of daemons and commands that carry nothing out.
KeepsRequests ==
  /\ UNCHANGED <<agent, granted, requests>> /\ acted' = {}
  /\ \A p \in Pid :
       /\ daemon'[p].sessions \subseteq daemon[p].sessions
       /\ daemon'[p].held = daemon[p].held
       /\ daemon'[p].granted = daemon[p].granted
       /\ daemon'[p].redeemed = daemon[p].redeemed

LEMMA QuietStep ==
  ASSUME RequestsFit, ClientsFit, ApprovalsAreTheOperators, KeepsRequests, ServiceTypes
  PROVE  RequestsFit' /\ ClientsFit' /\ ApprovalsAreTheOperators'
<1>1. RequestsFit'
  BY DEF KeepsRequests, RequestsFit
<1>2. ClientsFit'
  BY DEF KeepsRequests, ClientsFit, ServiceTypes, Clients, Sessions
<1>3. ApprovalsAreTheOperators'
  BY DEF KeepsRequests, ApprovalsAreTheOperators
<1> QED BY <1>1, <1>2, <1>3

\* The life of a daemon, from its start to its end.
DaemonStep ==
  \E p \in Pid : LoadOperator(p) \/ MintOperator(p) \/ Bind(p) \/ Announce(p)
                   \/ CloseDaemon(p) \/ Die(p)

LEMMA DaemonsKeep ==
  ASSUME ServiceInvariant, DaemonStep
  PROVE  ServiceInvariant'
<1>1. PICK p \in Pid : LoadOperator(p) \/ MintOperator(p) \/ Bind(p) \/ Announce(p)
                         \/ CloseDaemon(p) \/ Die(p)
  BY DEF DaemonStep
<1> USE DEF ServiceInvariant, DaemonPhases
<1>2. ASSUME NEW phase \in DaemonPhases, Becomes(p, phase), UNCHANGED <<cli, operatorFile>>, Others,
             connection' \in {connection, <<>>,
                              <<[pid |-> p, port |-> Config[p].port, cred |-> CredentialOf(p)]>>},
             phase \in {"bound", "serving", "closing"} => daemon[p].cred = CredentialOf(p),
             phase \in {"bound", "serving"} => SecretsDiffer(p),
             phase \notin {"minting", "loaded"}
      PROVE  ServiceInvariant'
  <2>1. daemon' = [daemon EXCEPT ![p].phase = phase]
    BY <1>2 DEF Becomes
  <2>2. connection' \in Maybe(Connections)
    <3>1. [pid |-> p, port |-> Config[p].port, cred |-> CredentialOf(p)] \in Connections
      BY ServiceAssumption, SecretsAreSecrets DEF Connections
    <3> QED BY <1>2, <3>1, MaybeIs DEF ServiceTypes
  <2>3. ServiceTypes'
    BY <1>2, <2>1, <2>2 DEF ServiceTypes, Daemons, Others
  <2>4. SecretsFit'
    BY <1>2, <2>1 DEF SecretsFit, SecretsDiffer, Listening, ServiceTypes, Daemons
  <2>5. KeepsRequests
    BY <1>2, <2>1 DEF KeepsRequests, Others, ServiceTypes, Daemons
  <2>6. CommandsFit'
    BY <1>2 DEF CommandsFit
  <2> QED BY <2>3, <2>4, <2>5, <2>6, QuietStep
<1>3. ASSUME NEW cred \in Secrets, NEW op \in Secrets, NEW phase \in {"minting", "loaded"},
             daemon' = [daemon EXCEPT ![p].cred = cred, ![p].op = op, ![p].phase = phase],
             cred = CredentialOf(p), operatorFile' \in Maybe(Secrets),
             UNCHANGED <<cli, connection>>, Others
      PROVE  ServiceInvariant'
  <2>1. ServiceTypes'
    <3>1. daemon \in [Pid -> Daemons]
      BY DEF ServiceTypes
    <3>2. PICK d : d = [daemon[p] EXCEPT !.cred = cred, !.op = op]
      OBVIOUS
    <3>3. d \in Daemons
      BY <3>1, <3>2 DEF Daemons
    <3>4. PICK new : new = [d EXCEPT !.phase = phase]
      OBVIOUS
    <3>6. new \in Daemons
      <4>1. phase \in DaemonPhases
        BY DEF DaemonPhases
      <4> QED BY <3>3, <3>4, <4>1 DEF Daemons
    <3> HIDE DEF ServiceInvariant
    <3>7. daemon' = [daemon EXCEPT ![p] = new]
      BY <1>3, <3>1, <3>2, <3>4
    <3>5. daemon' \in [Pid -> Daemons]
      BY <3>1, <3>6, <3>7
    <3> QED BY <1>3, <3>5 DEF ServiceInvariant, ServiceTypes, Others
  <2>2. SecretsFit'
    BY <1>3 DEF SecretsFit, SecretsDiffer, Listening, ServiceTypes, Daemons
  <2>3. KeepsRequests
    BY <1>3 DEF KeepsRequests, Others, ServiceTypes, Daemons
  <2>4. CommandsFit'
    BY <1>3 DEF CommandsFit
  <2> QED BY <2>1, <2>2, <2>3, <2>4, QuietStep
<1>4. CASE LoadOperator(p)
  <2>1. PICK op : op = IF Config[p].op # "" THEN <<Config[p].op>>
                       ELSE IF operatorFile # <<>> THEN operatorFile[1] ELSE <<>>
    OBVIOUS
  <2>2. op \in Secrets
    BY <2>1, MaybeIs, SecretsAreSecrets DEF ServiceTypes
  <2>3. PICK phase \in {"minting", "loaded"} :
          daemon' = [daemon EXCEPT ![p].cred = CredentialOf(p), ![p].op = op,
                                   ![p].phase = phase]
    BY <1>4, <2>1 DEF LoadOperator, CredentialOf, MadeUp
  <2>4. operatorFile' \in Maybe(Secrets) /\ UNCHANGED <<cli, connection>> /\ Others
    BY <1>4 DEF LoadOperator, ServiceTypes
  <2>5. CredentialOf(p) \in Secrets
    BY SecretsAreSecrets
  <2> HIDE DEF ServiceInvariant
  <2> QED BY <1>3, <2>2, <2>3, <2>4, <2>5
<1>5. CASE MintOperator(p)
  <2>1. daemon[p].phase = "minting" /\ daemon[p].cred = CredentialOf(p)
    BY <1>5 DEF MintOperator, SecretsFit
  <2>2. daemon' = [daemon EXCEPT ![p].cred = CredentialOf(p), ![p].op = Secret(p, "operator"),
                                 ![p].phase = "loaded"]
    BY <1>5, <2>1 DEF MintOperator, ServiceTypes, Daemons
  <2>3. operatorFile' \in Maybe(Secrets)
    BY <1>5, MaybeIs, SecretsAreSecrets DEF MintOperator
  <2> QED BY <1>3, <1>5, <2>2, <2>3, SecretsAreSecrets DEF MintOperator
<1>6. CASE Bind(p)
  <2>1. daemon[p].cred = CredentialOf(p)
    BY <1>6 DEF Bind, SecretsFit
  <2>2. PICK phase : /\ phase \in {"bound", "gone"} /\ Becomes(p, phase)
                     /\ phase = "bound" => SecretsDiffer(p)
    BY <1>6 DEF Bind
  <2>3. UNCHANGED <<cli, operatorFile>> /\ Others /\ connection' = connection
    BY <1>6 DEF Bind
  <2> HIDE DEF ServiceInvariant
  <2> QED BY <1>2, <2>1, <2>2, <2>3
<1>7. CASE Announce(p)
  <2>1. daemon[p].cred = CredentialOf(p) /\ SecretsDiffer(p)
    BY <1>7 DEF Announce, SecretsFit, Listening
  <2>2. /\ Becomes(p, "serving") /\ UNCHANGED <<cli, operatorFile>> /\ Others
        /\ connection' = <<[pid |-> p, port |-> Config[p].port, cred |-> CredentialOf(p)]>>
    BY <1>7, <2>1 DEF Announce
  <2> HIDE DEF ServiceInvariant
  <2> QED BY <1>2, <2>1, <2>2
<1>8. CASE CloseDaemon(p) \/ Die(p)
  <2>1. /\ Becomes(p, "gone") /\ UNCHANGED <<cli, operatorFile>> /\ Others
        /\ connection' \in {connection, <<>>}
    BY <1>8 DEF CloseDaemon, Die
  <2> HIDE DEF ServiceInvariant
  <2> QED BY <1>2, <2>1
<1> QED BY <1>1, <1>4, <1>5, <1>6, <1>7, <1>8

-----------------------------------------------------------------------------
(* Commands that only look, wait, signal, and write or remove files.       *)

FileStep(c) ==
  \/ Look(c) \/ Clean(c) \/ SpawnDaemon(c) \/ Waited(c) \/ Kill(c)
  \/ RemoveConnection(c) \/ ReadSecret(c) \/ Reread(c)

\* A command whose record changes stays one, and has read a file where it must have.
LEMMA CommandUpdated ==
  ASSUME cli \in [Cli -> Commands], CommandsFit, NEW c \in Cli, NEW new \in Commands,
         cli' = [cli EXCEPT ![c] = new],
         new.at = "kill" \/ (new.does = "run" /\ new.at = "started") => new.read # <<>>
  PROVE  cli' \in [Cli -> Commands] /\ CommandsFit'
<1>1. cli' \in [Cli -> Commands]
  OBVIOUS
<1>2. cli'[c] = new /\ \A k \in Cli : k # c => cli'[k] = cli[k]
  OBVIOUS
<1> QED BY <1>1, <1>2 DEF CommandsFit

LEMMA CommandMoves ==
  ASSUME cli \in [Cli -> Commands], CommandsFit, NEW c \in Cli, NEW at \in CommandPhases,
         Go(c, at), at # "kill", at = "started" => cli[c].does # "run"
  PROVE  cli' \in [Cli -> Commands] /\ CommandsFit'
<1>1. PICK new : new = [cli[c] EXCEPT !.at = at]
  OBVIOUS
<1>2. new \in Commands /\ new.at = at /\ new.does = cli[c].does
  BY <1>1 DEF Commands
<1>3. cli' = [cli EXCEPT ![c] = new]
  BY <1>1 DEF Go
<1> QED BY <1>2, <1>3, CommandUpdated

LEMMA CommandsKeep ==
  ASSUME ServiceInvariant, NEW c \in Cli, FileStep(c)
  PROVE  ServiceInvariant'
<1> USE DEF ServiceInvariant
<1>1. ASSUME UNCHANGED daemon \/ \E p \in Pid, phase \in DaemonPhases :
               /\ daemon' = [daemon EXCEPT ![p].phase = phase]
               /\ \/ phase \in {"spawned", "gone", daemon[p].phase}
                  \/ phase = "closing" /\ daemon[p].phase = "serving",
             connection' \in {connection, <<>>}, UNCHANGED operatorFile, Others,
             cli' \in [Cli -> Commands], CommandsFit'
      PROVE  ServiceInvariant'
  <2>1. connection' \in Maybe(Connections)
    BY <1>1, MaybeIs DEF ServiceTypes
  <2>2. CASE UNCHANGED daemon
    <3>1. ServiceTypes' /\ SecretsFit' /\ KeepsRequests
      BY <1>1, <2>1, <2>2 DEF ServiceTypes, SecretsFit, SecretsDiffer, Listening,
                              KeepsRequests, Others
    <3> QED BY <1>1, <3>1, QuietStep
  <2>3. ASSUME NEW p \in Pid, NEW phase \in DaemonPhases,
               daemon' = [daemon EXCEPT ![p].phase = phase],
               \/ phase \in {"spawned", "gone", daemon[p].phase}
               \/ phase = "closing" /\ daemon[p].phase = "serving"
        PROVE  ServiceInvariant'
    <3>1. ServiceTypes'
      BY <1>1, <2>1, <2>3 DEF ServiceTypes, Daemons, Others
    <3>2. SecretsFit'
      BY <2>3 DEF SecretsFit, SecretsDiffer, Listening, ServiceTypes, Daemons
    <3>3. KeepsRequests
      BY <1>1, <2>3 DEF KeepsRequests, Others, ServiceTypes, Daemons
    <3> QED BY <1>1, <3>1, <3>2, <3>3, QuietStep
  <2> QED BY <1>1, <2>2, <2>3
<1>2. cli \in [Cli -> Commands] /\ connection \in Maybe(Connections)
      /\ operatorFile \in Maybe(Secrets)
  BY DEF ServiceTypes
<1>3. CommandsFit
  OBVIOUS
<1>4. CASE Look(c)
  <2>1. PICK does \in {"start", "stop", "run", "approve"}, at \in CommandPhases :
          /\ cli' = [cli EXCEPT ![c].does = does, ![c].read = connection, ![c].at = at]
          /\ at \in {"started", "kill"} => connection # <<>>
    <3>1. PICK does \in Does[c] :
            cli' = [cli EXCEPT ![c].does = does, ![c].read = connection,
              ![c].at = CASE does = "stop" -> IF connection = <<>> THEN "done" ELSE "kill"
                          [] does = "approve" -> IF connection = <<>> THEN "done"
                                                 ELSE "readSecret"
                          [] OTHER -> IF connection = <<>> THEN "spawn"
                                      ELSE IF Alive(connection[1].pid) THEN "started"
                                           ELSE "clean"]
      BY <1>4 DEF Look
    <3>2. PICK at :
            at = CASE does = "stop" -> IF connection = <<>> THEN "done" ELSE "kill"
                   [] does = "approve" -> IF connection = <<>> THEN "done" ELSE "readSecret"
                   [] OTHER -> IF connection = <<>> THEN "spawn"
                               ELSE IF Alive(connection[1].pid) THEN "started" ELSE "clean"
      OBVIOUS
    <3>3. does \in {"start", "stop", "run", "approve"}
      BY ServiceAssumption
    <3>4. at \in CommandPhases /\ (at \in {"started", "kill"} => connection # <<>>)
      BY <3>2, <3>3 DEF CommandPhases
    <3> HIDE DEF ServiceInvariant
    <3> QED BY <3>1, <3>2, <3>3, <3>4
  <2>2. PICK d : d = [cli[c] EXCEPT !.does = does, !.read = connection]
    OBVIOUS
  <2>3. d \in Commands /\ d.read = connection
    <3>1. does \in Duties
      BY DEF Duties
    <3> QED BY <1>2, <2>2, <3>1 DEF Commands
  <2>4. PICK new : new = [d EXCEPT !.at = at]
    OBVIOUS
  <2>5. new \in Commands /\ new.read = connection /\ new.at = at
    BY <2>3, <2>4 DEF Commands
  <2>6. cli' = [cli EXCEPT ![c] = new]
    BY <1>2, <2>1, <2>2, <2>4
  <2>7. cli' \in [Cli -> Commands] /\ CommandsFit'
    BY <1>2, <1>3, <2>1, <2>5, <2>6, CommandUpdated
  <2> QED BY <1>1, <1>4, <2>7 DEF Look
<1>5. CASE Clean(c) \/ RemoveConnection(c)
  <2>1. cli' \in [Cli -> Commands] /\ CommandsFit'
    <3>1. PICK at \in {"spawn", "done"} : Go(c, at)
      BY <1>5 DEF Clean, RemoveConnection
    <3>2. at \in CommandPhases /\ at \notin {"kill", "started"}
      BY DEF CommandPhases
    <3> QED BY <1>2, <1>3, <3>1, <3>2, CommandMoves
  <2> QED BY <1>1, <1>5, <2>1 DEF Clean, RemoveConnection
<1>6. CASE SpawnDaemon(c)
  <2>1. cli' \in [Cli -> Commands] /\ CommandsFit'
    <3>1. Go(c, "wait")
      BY <1>6 DEF SpawnDaemon
    <3>2. "wait" \in CommandPhases
      BY DEF CommandPhases
    <3> QED BY <1>2, <1>3, <3>1, <3>2, CommandMoves
  <2> QED BY <1>1, <1>6, <2>1 DEF SpawnDaemon, Becomes, DaemonPhases
<1>7. CASE Waited(c)
  <2>1. cli' \in [Cli -> Commands] /\ CommandsFit'
    <3>1. PICK at \in {"reread", "started", "done"} :
            Go(c, at) /\ (at = "started" => cli[c].does # "run")
      BY <1>7 DEF Waited
    <3>2. at \in CommandPhases /\ at # "kill"
      BY DEF CommandPhases
    <3> QED BY <1>2, <1>3, <3>1, <3>2, CommandMoves
  <2> QED BY <1>1, <1>7, <2>1 DEF Waited
<1>8. CASE Kill(c)
  <2>1. cli' \in [Cli -> Commands] /\ CommandsFit'
    <3>1. Go(c, "remove")
      BY <1>8 DEF Kill
    <3>2. "remove" \in CommandPhases
      BY DEF CommandPhases
    <3> QED BY <1>2, <1>3, <3>1, <3>2, CommandMoves
  <2>2. PICK p : p = cli[c].read[1].pid
    OBVIOUS
  <2>3. p \in Pid
    <3>1. cli[c].read # <<>> /\ cli[c].read \in Maybe(Connections)
      BY <1>2, <1>8 DEF Kill, CommandsFit, Commands
    <3>2. cli[c].read[1] \in Connections
      BY <3>1, MaybeIs
    <3> QED BY <2>2, <3>2 DEF Connections
  <2>4. PICK phase : phase = IF daemon[p].phase = "serving" THEN "closing"
                             ELSE IF daemon[p].phase \in {"none", "closing"}
                                  THEN daemon[p].phase ELSE "gone"
    OBVIOUS
  <2>5. daemon' = [daemon EXCEPT ![p].phase = phase] /\ phase \in DaemonPhases
    BY <1>8, <2>2, <2>3, <2>4 DEF Kill, Signalled, DaemonPhases, ServiceTypes, Daemons
  <2> QED BY <1>1, <1>8, <2>1, <2>3, <2>4, <2>5 DEF Kill
<1>9. CASE ReadSecret(c)
  <2>1. PICK at \in {"done", "approve"} :
          cli' = [cli EXCEPT ![c].secret = operatorFile, ![c].at = at]
    BY <1>9 DEF ReadSecret
  <2>2. PICK d : d = [cli[c] EXCEPT !.secret = operatorFile]
    OBVIOUS
  <2>3. d \in Commands
    BY <1>2, <2>2 DEF Commands
  <2>4. PICK new : new = [d EXCEPT !.at = at]
    OBVIOUS
  <2>5. new \in Commands /\ new.at = at
    <3>1. at \in CommandPhases
      BY DEF CommandPhases
    <3> QED BY <2>3, <2>4, <3>1 DEF Commands
  <2>6. cli' = [cli EXCEPT ![c] = new]
    BY <1>2, <2>1, <2>2, <2>4
  <2>7. cli' \in [Cli -> Commands] /\ CommandsFit'
    BY <1>2, <1>3, <2>5, <2>6, CommandUpdated
  <2> QED BY <1>1, <1>9, <2>7 DEF ReadSecret
<1>10. CASE Reread(c)
  <2>1. PICK at \in {"done", "started"} :
          /\ cli' = [cli EXCEPT ![c].read = connection, ![c].at = at]
          /\ at = "started" => connection # <<>>
    BY <1>10 DEF Reread
  <2>2. PICK d : d = [cli[c] EXCEPT !.read = connection]
    OBVIOUS
  <2>3. d \in Commands /\ d.read = connection
    BY <1>2, <2>2 DEF Commands
  <2>4. PICK new : new = [d EXCEPT !.at = at]
    OBVIOUS
  <2>5. new \in Commands /\ new.at = at /\ new.read = connection
    <3>1. at \in CommandPhases
      BY DEF CommandPhases
    <3> QED BY <2>3, <2>4, <3>1 DEF Commands
  <2>6. cli' = [cli EXCEPT ![c] = new]
    BY <1>2, <2>1, <2>2, <2>4
  <2>7. cli' \in [Cli -> Commands] /\ CommandsFit'
    BY <1>2, <1>3, <2>1, <2>5, <2>6, CommandUpdated
  <2> QED BY <1>1, <1>10, <2>7 DEF Reread
<1> QED BY <1>4, <1>5, <1>6, <1>7, <1>8, <1>9, <1>10 DEF FileStep

-----------------------------------------------------------------------------
(* safeloop approve, and safeloop run with the agent it launches.          *)

LEMMA ApproveKeeps ==
  ASSUME ServiceInvariant, NEW c \in Cli, Approve(c)
  PROVE  ServiceInvariant'
<1> USE DEF ServiceInvariant
<1>1. cli' = [cli EXCEPT ![c].at = "done"] /\ acted' = {}
      /\ UNCHANGED <<connection, operatorFile, agent, requests>>
  BY DEF Approve, Go
<1>2. cli' \in [Cli -> Commands] /\ CommandsFit'
  <2>1. "done" \in CommandPhases
    BY DEF CommandPhases
  <2>2. cli \in [Cli -> Commands] /\ CommandsFit /\ Go(c, "done")
    BY <1>1 DEF ServiceTypes, Go
  <2> QED BY <2>1, <2>2, CommandMoves
<1>3. CASE UNCHANGED <<daemon, granted>>
  <2>1. ServiceTypes' /\ SecretsFit' /\ KeepsRequests
    BY <1>1, <1>2, <1>3 DEF ServiceTypes, SecretsFit, SecretsDiffer, Listening, KeepsRequests
  <2> QED BY <1>2, <2>1, QuietStep
<1>4. ASSUME NEW p \in Pid, NEW r \in daemon[p].held,
             daemon' = [daemon EXCEPT ![p].granted = @ \cup {r}],
             granted' = granted \cup {[pid |-> p, by |-> "operator", request |-> r]}
      PROVE  ServiceInvariant'
  <2>1. r \in Nat
    BY DEF ServiceTypes, Daemons
  <2>10. daemon \in [Pid -> Daemons]
    BY DEF ServiceTypes
  <2>11. PICK new : new = [daemon[p] EXCEPT !.granted = @ \cup {r}]
    OBVIOUS
  <2>12. /\ new \in Daemons /\ new.granted = daemon[p].granted \cup {r}
         /\ new.phase = daemon[p].phase /\ new.cred = daemon[p].cred /\ new.op = daemon[p].op
         /\ new.sessions = daemon[p].sessions /\ new.held = daemon[p].held
         /\ new.redeemed = daemon[p].redeemed
    BY <2>1, <2>10, <2>11 DEF Daemons
  <2>13. daemon' = [daemon EXCEPT ![p] = new]
    BY <1>4, <2>11
  <2>2. ServiceTypes'
    BY <1>1, <1>2, <2>10, <2>12, <2>13 DEF ServiceTypes
  <2>3. /\ \A q \in Pid : /\ daemon'[q].phase = daemon[q].phase
                          /\ daemon'[q].cred = daemon[q].cred
                          /\ daemon'[q].op = daemon[q].op
                          /\ daemon'[q].sessions = daemon[q].sessions
                          /\ daemon'[q].held = daemon[q].held
                          /\ daemon'[q].redeemed = daemon[q].redeemed
                          /\ q # p => daemon'[q].granted = daemon[q].granted
        /\ daemon'[p].granted = daemon[p].granted \cup {r}
    BY <2>10, <2>12, <2>13
  <2>4. SecretsFit'
    BY <2>3 DEF SecretsFit, SecretsDiffer, Listening
  <2>5. PICK g : g = [pid |-> p, by |-> "operator", request |-> r]
    OBVIOUS
  <2>6. g.pid = p /\ g.by = "operator" /\ g.request = r /\ granted' = granted \cup {g}
    BY <1>4, <2>5
  <2>7. RequestsFit'
    BY <1>1, <2>3, <2>6 DEF RequestsFit
  <2>8. ClientsFit'
    BY <1>1, <2>3 DEF ClientsFit, ServiceTypes, Clients, Sessions
  <2>9. ApprovalsAreTheOperators'
    BY <1>1, <2>6 DEF ApprovalsAreTheOperators
  <2> QED BY <1>2, <2>2, <2>4, <2>7, <2>8, <2>9
<1>5. \/ UNCHANGED <<daemon, granted>>
      \/ \E p \in Pid : \E r \in daemon[p].held :
           /\ daemon' = [daemon EXCEPT ![p].granted = @ \cup {r}]
           /\ granted' = granted \cup {[pid |-> p, by |-> "operator", request |-> r]}
  <2>1. SUFFICES ASSUME ~UNCHANGED <<daemon, granted>>
                 PROVE  \E p \in Pid : \E r \in daemon[p].held :
           /\ daemon' = [daemon EXCEPT ![p].granted = @ \cup {r}]
           /\ granted' = granted \cup {[pid |-> p, by |-> "operator", request |-> r]}
    OBVIOUS
  <2>2. PICK p \in Pid : \E r \in daemon[p].held : \E q :
          /\ q = [route |-> "grant", bearer |-> cli[c].secret[1], session |-> NoSession,
                  request |-> r]
          /\ daemon' = Handled(p, q)
          /\ granted' = granted \cup {[pid |-> p, by |-> "operator", request |-> r]}
    BY <2>1 DEF Approve, ListenersAt
  <2>3. PICK r \in daemon[p].held : \E q :
          /\ q = [route |-> "grant", bearer |-> cli[c].secret[1], session |-> NoSession,
                  request |-> r]
          /\ daemon' = Handled(p, q)
          /\ granted' = granted \cup {[pid |-> p, by |-> "operator", request |-> r]}
    BY <2>2
  <2>4. PICK q : /\ q = [route |-> "grant", bearer |-> cli[c].secret[1], session |-> NoSession,
                         request |-> r]
                 /\ daemon' = Handled(p, q)
    BY <2>3
  <2>5. q.route = "grant" /\ q.request = r
    BY <2>4
  <2>6. daemon' = [daemon EXCEPT ![p].granted = @ \cup {r}]
    BY <2>4, <2>5 DEF Handled
  <2> QED BY <2>3, <2>6
<1> QED BY <1>3, <1>4, <1>5

\* The agent safeloop run launches gets the session that was just started for it.
LEMMA LaunchKeeps ==
  ASSUME ServiceInvariant, NEW c \in Cli, NEW a \in Agent, Launch(c, a)
  PROVE  ServiceInvariant'
<1> USE DEF ServiceInvariant
<1>1. acted' = {} /\ UNCHANGED <<connection, operatorFile, granted>>
      /\ cli[c].does = "run" /\ cli[c].at = "started"
  BY DEF Launch
<1>2. CASE Go(c, "done") /\ UNCHANGED <<daemon, agent, requests>>
  <2>1. cli' \in [Cli -> Commands] /\ CommandsFit'
    <3>1. "done" \in CommandPhases
      BY DEF CommandPhases
    <3>2. cli \in [Cli -> Commands] /\ CommandsFit
      BY DEF ServiceTypes
    <3> QED BY <1>2, <3>1, <3>2, CommandMoves
  <2>2. ServiceTypes' /\ SecretsFit' /\ KeepsRequests
    BY <1>1, <1>2, <2>1 DEF ServiceTypes, SecretsFit, SecretsDiffer, Listening, KeepsRequests
  <2> QED BY <2>1, <2>2, QuietStep
<1>3. ASSUME NEW p \in Pid, NEW s, s = [id |-> requests + 1, agent |-> a, pid |-> p],
             daemon' = [daemon EXCEPT ![p].sessions = @ \cup {s}], requests' = requests + 1,
             cli' = [cli EXCEPT ![c].at = "launched", ![c].client = connection,
                                ![c].session = s],
             agent' = [agent EXCEPT ![a].conn = cli[c].read, ![a].at = "ready",
                                    ![a].session = s]
      PROVE  ServiceInvariant'
  <2>1. s \in Sessions /\ s.agent = a /\ s.pid = p /\ requests + 1 \in Nat
    BY <1>3 DEF Sessions, ServiceTypes
  <2>2. cli' \in [Cli -> Commands] /\ CommandsFit'
    <3>1. cli \in [Cli -> Commands] /\ CommandsFit /\ connection \in Maybe(Connections)
      BY DEF ServiceTypes
    <3>2. PICK d : d = [cli[c] EXCEPT !.client = connection, !.session = s]
      OBVIOUS
    <3>3. d \in Commands
      BY <2>1, <3>1, <3>2 DEF Commands
    <3>4. PICK new : new = [d EXCEPT !.at = "launched"]
      OBVIOUS
    <3>5. new \in Commands /\ new.at = "launched"
      <4>1. "launched" \in CommandPhases
        BY DEF CommandPhases
      <4> QED BY <3>3, <3>4, <4>1 DEF Commands
    <3>6. cli' = [cli EXCEPT ![c] = new]
      BY <1>3, <3>1, <3>2, <3>4
    <3> QED BY <3>1, <3>5, <3>6, CommandUpdated
  <2>3. cli[c].read \in Maybe(Connections) /\ cli[c].read # <<>>
    BY <1>1 DEF ServiceTypes, Commands, CommandsFit
  <2>4. /\ agent' \in [Agent -> Clients]
        /\ \A b \in Agent : b # a => agent'[b] = agent[b]
        /\ agent'[a].conn = cli[c].read /\ agent'[a].at = "ready" /\ agent'[a].session = s
    <3>1. agent \in [Agent -> Clients]
      BY DEF ServiceTypes
    <3>2. PICK d : d = [agent[a] EXCEPT !.conn = cli[c].read, !.session = s]
      OBVIOUS
    <3>3. d \in Clients /\ d.conn = cli[c].read /\ d.session = s
      BY <2>1, <2>3, <3>1, <3>2 DEF Clients
    <3>4. PICK new : new = [d EXCEPT !.at = "ready"]
      OBVIOUS
    <3>5. new \in Clients /\ new.conn = cli[c].read /\ new.session = s /\ new.at = "ready"
      BY <3>3, <3>4 DEF Clients, ClientPhases
    <3>6. agent' = [agent EXCEPT ![a] = new]
      BY <1>3, <3>1, <3>2, <3>4
    <3> QED BY <3>1, <3>5, <3>6
  <2>11. daemon \in [Pid -> Daemons]
    BY DEF ServiceTypes
  <2>12. PICK new : new = [daemon[p] EXCEPT !.sessions = @ \cup {s}]
    OBVIOUS
  <2>13. /\ new \in Daemons /\ new.sessions = daemon[p].sessions \cup {s}
         /\ new.phase = daemon[p].phase /\ new.cred = daemon[p].cred /\ new.op = daemon[p].op
         /\ new.granted = daemon[p].granted /\ new.held = daemon[p].held
         /\ new.redeemed = daemon[p].redeemed
    BY <2>1, <2>11, <2>12 DEF Daemons
  <2>14. daemon' = [daemon EXCEPT ![p] = new]
    BY <1>3, <2>12
  <2>5. daemon' \in [Pid -> Daemons]
    BY <2>11, <2>13, <2>14
  <2>6. /\ \A q \in Pid : /\ daemon'[q].phase = daemon[q].phase
                          /\ daemon'[q].cred = daemon[q].cred
                          /\ daemon'[q].op = daemon[q].op
                          /\ daemon'[q].granted = daemon[q].granted
                          /\ daemon'[q].held = daemon[q].held
                          /\ daemon'[q].redeemed = daemon[q].redeemed
                          /\ q # p => daemon'[q].sessions = daemon[q].sessions
        /\ daemon'[p].sessions = daemon[p].sessions \cup {s}
    BY <2>11, <2>13, <2>14
  <2>7. ServiceTypes' /\ SecretsFit'
    BY <1>1, <1>3, <2>1, <2>2, <2>4, <2>5, <2>6 DEF ServiceTypes, SecretsFit, SecretsDiffer,
                                                    Listening
  <2>8. RequestsFit'
    <3>1. requests \in Nat /\ \A q \in Pid : daemon[q].held \in SUBSET Nat
      BY DEF ServiceTypes, Daemons
    <3> QED BY <1>1, <1>3, <2>1, <2>6, <3>1 DEF RequestsFit
  <2>9. ClientsFit'
    BY <2>1, <2>3, <2>4, <2>6 DEF ClientsFit, ServiceTypes, Clients, Sessions
  <2>10. ApprovalsAreTheOperators'
    BY <1>1 DEF ApprovalsAreTheOperators
  <2> QED BY <2>2, <2>7, <2>8, <2>9, <2>10
<1>4. \/ Go(c, "done") /\ UNCHANGED <<daemon, agent, requests>>
      \/ \E p \in Pid : \E s :
           /\ s = [id |-> requests + 1, agent |-> a, pid |-> p]
           /\ daemon' = [daemon EXCEPT ![p].sessions = @ \cup {s}]
           /\ requests' = requests + 1
           /\ cli' = [cli EXCEPT ![c].at = "launched", ![c].client = connection,
                                 ![c].session = s]
           /\ agent' = [agent EXCEPT ![a].conn = cli[c].read, ![a].at = "ready",
                                     ![a].session = s]
  <2>1. SUFFICES ASSUME ~(Go(c, "done") /\ UNCHANGED <<daemon, agent, requests>>)
                 PROVE  \E p \in Pid : \E s :
           /\ s = [id |-> requests + 1, agent |-> a, pid |-> p]
           /\ daemon' = [daemon EXCEPT ![p].sessions = @ \cup {s}]
           /\ requests' = requests + 1
           /\ cli' = [cli EXCEPT ![c].at = "launched", ![c].client = connection,
                                 ![c].session = s]
           /\ agent' = [agent EXCEPT ![a].conn = cli[c].read, ![a].at = "ready",
                                     ![a].session = s]
    OBVIOUS
  <2>2. PICK p \in Pid : \E q :
          /\ q = [route |-> "start", bearer |-> connection[1].cred, request |-> 0,
                  session |-> [id |-> requests + 1, agent |-> a, pid |-> p]]
          /\ daemon' = Handled(p, q) /\ requests' = requests + 1
          /\ cli' = [cli EXCEPT ![c].at = "launched", ![c].client = connection,
                                ![c].session = q.session]
          /\ agent' = [agent EXCEPT ![a].conn = cli[c].read, ![a].at = "ready",
                                    ![a].session = q.session]
    <3>1. PICK at : at = IF connection = <<>> THEN {} ELSE ListenersAt(connection[1].port)
      OBVIOUS
    <3>2. at \subseteq Pid
      BY <3>1 DEF ListenersAt
    <3> DEFINE q(p) == [route |-> "start", bearer |-> connection[1].cred, request |-> 0,
                        session |-> [id |-> requests + 1, agent |-> a, pid |-> p]]
    <3>3. PICK p \in at :
          /\ daemon' = Handled(p, q(p)) /\ requests' = requests + 1
          /\ cli' = [cli EXCEPT ![c].at = "launched", ![c].client = connection,
                                ![c].session = q(p).session]
          /\ agent' = [agent EXCEPT ![a].conn = cli[c].read, ![a].at = "ready",
                                    ![a].session = q(p).session]
      <4>1. Launch(c, a) <=>
              /\ cli[c].does = "run" /\ cli[c].at = "started" /\ requests < MaxRequests
              /\ \/ \E p \in at :
                      /\ Status(p, q(p)) = 200 /\ agent[a].at = "out"
                      /\ daemon' = Handled(p, q(p)) /\ requests' = requests + 1
                      /\ cli' = [cli EXCEPT ![c].at = "launched", ![c].client = connection,
                                            ![c].session = q(p).session]
                      /\ agent' = [agent EXCEPT ![a].conn = cli[c].read, ![a].at = "ready",
                                                ![a].session = q(p).session]
                 \/ /\ \A p \in at : Status(p, q(p)) # 200
                    /\ Go(c, "done") /\ UNCHANGED <<daemon, agent, requests>>
              /\ acted' = {} /\ UNCHANGED <<connection, operatorFile, granted, faults>>
        BY <3>1 DEF Launch
      <4> HIDE DEF q
      <4> QED BY <2>1, <4>1
    <3>4. PICK r : r = q(p)
      OBVIOUS
    <3> QED BY <3>2, <3>3, <3>4
  <2>3. PICK q :
          /\ q = [route |-> "start", bearer |-> connection[1].cred, request |-> 0,
                  session |-> [id |-> requests + 1, agent |-> a, pid |-> p]]
          /\ daemon' = Handled(p, q) /\ requests' = requests + 1
          /\ cli' = [cli EXCEPT ![c].at = "launched", ![c].client = connection,
                                ![c].session = q.session]
          /\ agent' = [agent EXCEPT ![a].conn = cli[c].read, ![a].at = "ready",
                                    ![a].session = q.session]
    BY <2>2
  <2>4. q.route = "start" /\ q.session = [id |-> requests + 1, agent |-> a, pid |-> p]
    BY <2>3
  <2>5. daemon' = [daemon EXCEPT ![p].sessions = @ \cup {q.session}]
    BY <2>3, <2>4 DEF Handled
  <2> QED BY <2>3, <2>4, <2>5
<1> QED BY <1>2, <1>3, <1>4

\* The session of an agent that has exited is finished where its daemon still runs.
LEMMA LeaveKeeps ==
  ASSUME ServiceInvariant, NEW c \in Cli, Leave(c)
  PROVE  ServiceInvariant'
<1> USE DEF ServiceInvariant
<1>1. PICK b : b = cli[c].session.agent
  OBVIOUS
<1>2. /\ acted' = {} /\ UNCHANGED <<connection, operatorFile, granted, requests>>
      /\ cli' = [cli EXCEPT ![c].at = "done"]
      /\ agent' = [agent EXCEPT ![b].at = "gone"]
  BY <1>1 DEF Leave, Go
<1>3. \/ UNCHANGED daemon
      \/ \E p \in Pid : \E s : daemon' = [daemon EXCEPT ![p].sessions = @ \ {s}]
  BY DEF Leave, ListenersAt, Handled
<1>4. cli' \in [Cli -> Commands] /\ CommandsFit'
  <2>1. "done" \in CommandPhases
    BY DEF CommandPhases
  <2>2. cli \in [Cli -> Commands] /\ CommandsFit /\ Go(c, "done")
    BY <1>2 DEF ServiceTypes, Go
  <2> QED BY <2>1, <2>2, CommandMoves
<1>5. /\ daemon' \in [Pid -> Daemons]
      /\ \A q \in Pid : /\ daemon'[q].phase = daemon[q].phase
                        /\ daemon'[q].cred = daemon[q].cred
                        /\ daemon'[q].op = daemon[q].op
                        /\ daemon'[q].granted = daemon[q].granted
                        /\ daemon'[q].held = daemon[q].held
                        /\ daemon'[q].redeemed = daemon[q].redeemed
                        /\ daemon'[q].sessions \subseteq daemon[q].sessions
  BY <1>3 DEF ServiceTypes, Daemons
<1>6. /\ agent' \in [Agent -> Clients]
      /\ \A k \in Agent : /\ agent'[k].conn = agent[k].conn
                          /\ agent'[k].session = agent[k].session
                          /\ agent'[k].request = agent[k].request
                          /\ agent'[k].at \in {agent[k].at, "gone"}
  BY <1>2 DEF ServiceTypes, Clients, ClientPhases
<1>7. ServiceTypes' /\ SecretsFit'
  BY <1>2, <1>4, <1>5, <1>6 DEF ServiceTypes, SecretsFit, SecretsDiffer, Listening
<1>8. RequestsFit'
  BY <1>2, <1>5 DEF RequestsFit
<1>9. ClientsFit'
  BY <1>5, <1>6 DEF ClientsFit, ServiceTypes, Clients, Sessions
<1>10. ApprovalsAreTheOperators'
  BY <1>2 DEF ApprovalsAreTheOperators
<1> QED BY <1>4, <1>7, <1>8, <1>9, <1>10

-----------------------------------------------------------------------------
(* What clients send, and what daemons answer.                             *)

\* The request a carries to a daemon p that listens on the port it knows.
Query(a, p, route, holds) ==
  [route |-> route, bearer |-> agent[a].conn[1].cred, holds |-> holds,
   session |-> IF route = "start" THEN [id |-> requests + 1, agent |-> a, pid |-> p]
               ELSE agent[a].session,
   request |-> IF route = "propose" THEN requests + 1 ELSE agent[a].request]

\* Nobody listens, or one daemon answers.
LEMMA SendReaches ==
  ASSUME ServiceTypes, NEW a \in Agent, NEW route, NEW holds, NEW next,
         Send(a, route, holds, next)
  PROVE  /\ UNCHANGED <<connection, operatorFile, cli>>
         /\ requests' = IF route \in {"start", "propose"} THEN requests + 1 ELSE requests
         /\ \/ /\ agent' = [agent EXCEPT ![a].at = "ready"] /\ acted' = {}
               /\ UNCHANGED <<daemon, granted>>
            \/ \E p \in Pid : Listening(p) /\ Reply(a, p, Query(a, p, route, holds), next)
<1>1. UNCHANGED <<connection, operatorFile, cli>>
      /\ requests' = IF route \in {"start", "propose"} THEN requests + 1 ELSE requests
  BY DEF Send
<1>2. PICK q : q = [route |-> route, bearer |-> agent[a].conn[1].cred, holds |-> holds,
            session |-> IF route = "start" THEN [id |-> requests + 1, agent |-> a, pid |-> 0]
                        ELSE agent[a].session,
            request |-> IF route = "propose" THEN requests + 1 ELSE agent[a].request]
  OBVIOUS
<1>3. ASSUME NEW p \in Pid
      PROVE  [q EXCEPT !.session.pid = IF route = "start" THEN p ELSE @]
               = Query(a, p, route, holds)
  <2>1. PICK s : s = q.session
    OBVIOUS
  <2>2. agent[a].session = [id |-> agent[a].session.id, agent |-> agent[a].session.agent,
                            pid |-> agent[a].session.pid]
    <3>1. agent[a].session \in Sessions \cup {NoSession}
      BY DEF ServiceTypes, Clients
    <3>2. \A t \in Sessions : t = [id |-> t.id, agent |-> t.agent, pid |-> t.pid]
      BY DEF Sessions
    <3>3. NoSession = [id |-> NoSession.id, agent |-> NoSession.agent, pid |-> NoSession.pid]
      BY DEF NoSession
    <3> QED BY <3>1, <3>2, <3>3
  <2>3. [q.session EXCEPT !.pid = IF route = "start" THEN p ELSE @]
          = IF route = "start" THEN [id |-> requests + 1, agent |-> a, pid |-> p]
            ELSE agent[a].session
    <3>1. CASE route = "start"
      BY <1>2, <3>1
    <3>2. CASE route # "start"
      BY <1>2, <2>2, <3>2
    <3> QED BY <3>1, <3>2
  <2> QED BY <1>2, <2>3 DEF Query
<1>4. \/ /\ agent' = [agent EXCEPT ![a].at = "ready"] /\ acted' = {}
         /\ UNCHANGED <<daemon, granted>>
      \/ \E p \in ListenersAt(agent[a].conn[1].port) :
           Reply(a, p, [q EXCEPT !.session.pid = IF route = "start" THEN p ELSE @], next)
  BY <1>2 DEF Send
<1> QED BY <1>1, <1>3, <1>4 DEF ListenersAt

\* Whatever is answered, the client keeps its connection; it goes on to what it wanted
\* where the answer is 200 and arrives.
LEMMA ReplyTells ==
  ASSUME ServiceTypes, NEW a \in Agent, NEW p \in Pid, NEW q, NEW next \in ClientPhases,
         Reply(a, p, q, next), q.session \in Sessions \cup {NoSession}, q.request \in Nat
  PROVE  /\ agent' \in [Agent -> Clients]
         /\ \A b \in Agent : b # a => agent'[b] = agent[b]
         /\ agent'[a].conn = agent[a].conn
         /\ \/ agent'[a].at = "ready"
            \/ Status(p, q) = 200 /\ agent'[a].at = next
               /\ agent'[a].request = (IF q.route = "propose" THEN q.request ELSE agent[a].request)
         /\ agent'[a].session \in {agent[a].session} \cup (IF q.route = "start" THEN {q.session}
                                                           ELSE {})
<1>1. PICK at, s, r :
        /\ at = IF Status(p, q) = 200 THEN next ELSE "ready"
        /\ s = IF q.route = "start" /\ Status(p, q) = 200 THEN q.session ELSE agent[a].session
        /\ r = IF q.route = "propose" THEN q.request ELSE agent[a].request
  OBVIOUS
<1>2. at \in ClientPhases /\ s \in Sessions \cup {NoSession} /\ r \in Nat
  BY <1>1 DEF ServiceTypes, Clients, ClientPhases
<1>3. \/ agent' = [agent EXCEPT ![a].at = "ready"]
      \/ agent' = [agent EXCEPT ![a].at = at, ![a].session = s, ![a].request = r]
  BY <1>1 DEF Reply, ServiceTypes
<1>4. CASE agent' = [agent EXCEPT ![a].at = "ready"]
  BY <1>4 DEF ServiceTypes, Clients, ClientPhases
<1>5. CASE agent' = [agent EXCEPT ![a].at = at, ![a].session = s, ![a].request = r]
  <2>1. PICK d : d = [agent EXCEPT ![a].session = s, ![a].request = r]
    OBVIOUS
  <2>2. /\ d \in [Agent -> Clients] /\ \A b \in Agent : b # a => d[b] = agent[b]
        /\ d[a].conn = agent[a].conn /\ d[a].session = s /\ d[a].request = r
    BY <1>2, <2>1 DEF ServiceTypes, Clients
  <2>3. agent' = [d EXCEPT ![a].at = at]
    BY <1>5, <2>1 DEF ServiceTypes, Clients
  <2>4. /\ agent' \in [Agent -> Clients] /\ \A b \in Agent : b # a => agent'[b] = agent[b]
        /\ agent'[a].conn = agent[a].conn /\ agent'[a].session = s /\ agent'[a].request = r
        /\ agent'[a].at = at
    BY <1>2, <2>2, <2>3 DEF Clients
  <2> QED BY <1>1, <2>4
<1> QED BY <1>3, <1>4, <1>5

\* What a daemon that answers 200 has checked.
LEMMA StatusTells ==
  ASSUME NEW p \in Pid, NEW q, Status(p, q) = 200
  PROVE  /\ q.route \in SessionRoutes => /\ q.bearer = daemon[p].cred
                                         /\ q.session \in daemon[p].sessions
         /\ q.route = "start" => q.bearer = daemon[p].cred
         /\ q.route = "grant" => q.bearer = daemon[p].op /\ q.request \in daemon[p].held
         /\ q.route = "redeem" => q.request \in daemon[p].granted
BY RoutesAsk DEF Status, Admitted, SessionRoutes

\* A request that changes nothing but its sender keeps the invariant.
LEMMA FruitlessKeeps ==
  ASSUME ServiceInvariant, NEW a \in Agent, acted' = {}, requests' \in {requests, requests + 1},
         UNCHANGED <<connection, operatorFile, daemon, cli, granted>>,
         agent' \in [Agent -> Clients], \A b \in Agent : b # a => agent'[b] = agent[b],
         agent'[a].conn = agent[a].conn, agent'[a].at = "ready", agent[a].conn # <<>>,
         agent'[a].session \in {agent[a].session} \cup {s \in Sessions : s.agent = a}
  PROVE  ServiceInvariant'
<1> USE DEF ServiceInvariant
<1>1. requests \in Nat /\ \A p \in Pid : daemon[p].held \in SUBSET Nat
  BY DEF ServiceTypes, Daemons
<1>2. /\ ServiceTypes' /\ SecretsFit' /\ CommandsFit'
      /\ ApprovalsAreTheOperators'
  <2>1. ServiceTypes'
    BY <1>1 DEF ServiceTypes
  <2>2. SecretsFit' /\ CommandsFit'
    BY DEF SecretsFit, SecretsDiffer, Listening, CommandsFit
  <2>3. ApprovalsAreTheOperators'
    BY DEF ApprovalsAreTheOperators
  <2> QED BY <2>1, <2>2, <2>3
<1>3. RequestsFit'
  BY <1>1 DEF RequestsFit
<1>4. ClientsFit'
  BY DEF ClientsFit
<1> QED BY <1>2, <1>3, <1>4

\* So does one that a daemon carries out, if what it did fits.
LEMMA AnsweredKeeps ==
  ASSUME ServiceInvariant, NEW a \in Agent, NEW p \in Pid,
         requests' \in {requests, requests + 1}, UNCHANGED <<connection, operatorFile, cli, granted>>,
         agent' \in [Agent -> Clients], \A b \in Agent : b # a => agent'[b] = agent[b],
         agent'[a].conn = agent[a].conn, agent[a].conn # <<>>,
         agent'[a].session \in {agent[a].session} \cup {s \in Sessions : s.agent = a},
         agent'[a].at \notin {"held", "redeemed"} \/ ClientsFit',
         daemon' \in [Pid -> Daemons],
         \A q \in Pid : /\ daemon'[q].phase = daemon[q].phase
                        /\ daemon'[q].cred = daemon[q].cred /\ daemon'[q].op = daemon[q].op
                        /\ daemon'[q].granted = daemon[q].granted
                        /\ daemon[q].held \subseteq daemon'[q].held
                        /\ daemon[q].redeemed \subseteq daemon'[q].redeemed,
         RequestsFit', ApprovalsAreTheOperators'
  PROVE  ServiceInvariant'
<1> USE DEF ServiceInvariant
<1>1. ServiceTypes' /\ SecretsFit' /\ CommandsFit'
  BY DEF ServiceTypes, SecretsFit, SecretsDiffer, Listening, CommandsFit
<1>2. ASSUME agent'[a].at \notin {"held", "redeemed"}
      PROVE  ClientsFit'
  <2>1. \A b \in Agent : agent[b].session \in Sessions \/ agent[b].session = NoSession
    BY DEF ServiceTypes, Clients
  <2> QED BY <1>2, <2>1 DEF ClientsFit, Sessions
<1> QED BY <1>1, <1>2

\* What a daemon carries out for a client comes from its own connection and session.
LEMMA DeedsFit ==
  ASSUME ServiceInvariant, NEW a \in Agent, NEW p \in Pid, Listening(p), agent[a].conn # <<>>, NEW q,
         q.route \in SessionRoutes \cup {"start"}, q.bearer = agent[a].conn[1].cred,
         q.session = IF q.route = "start" THEN [id |-> requests + 1, agent |-> a, pid |-> p]
                     ELSE agent[a].session,
         Status(p, q) = 200
  PROVE  /\ agent[a].conn[1].cred = CredentialOf(p)
         /\ MadeUp(p) => agent[a].conn[1].pid = p
         /\ q.session.agent = a /\ q.session.pid = p /\ q.session \in Sessions
<1> USE DEF ServiceInvariant
<1>1. PICK route : route = q.route
  OBVIOUS
<1>2. (route # "start" => q.session = agent[a].session)
      /\ (route = "start" => q.session = [id |-> requests + 1, agent |-> a, pid |-> p])
  BY <1>1
<1>3. q.bearer = daemon[p].cred /\ (route # "start" => q.session \in daemon[p].sessions)
  BY <1>1, StatusTells
<1>4. daemon[p].cred = CredentialOf(p)
  BY DEF SecretsFit, Listening
<1>5. agent[a].conn[1] \in Connections
  BY MaybeIs DEF ServiceTypes, Clients
<1>6. MadeUp(p) => agent[a].conn[1].pid = p
  <2>1. PICK k : k = agent[a].conn[1]
    OBVIOUS
  <2>2. k.pid \in Pid /\ k.cred = CredentialOf(k.pid)
    BY <1>5, <2>1 DEF Connections
  <2>3. CredentialOf(k.pid) = CredentialOf(p)
    BY <1>3, <1>4, <2>1, <2>2
  <2>4. ASSUME MadeUp(p) PROVE k.pid = p
    <3>1. k.pid \in Pid
      BY <2>2
    <3> HIDE DEF ServiceInvariant
    <3> QED BY <2>3, <2>4, <3>1, MadeUpSecretsDiffer
  <2> QED BY <2>1, <2>4
<1>7. CASE route = "start"
  <2>1. requests + 1 \in Nat \ {0}
    BY DEF ServiceTypes
  <2>2. q.session \in Sessions /\ q.session.agent = a /\ q.session.pid = p
    BY <1>2, <1>7, <2>1 DEF Sessions
  <2> QED BY <1>1, <1>2, <1>3, <1>4, <1>6, <2>2
<1>8. CASE route # "start"
  <2>1. agent[a].session \in daemon[p].sessions /\ daemon[p].sessions \in SUBSET Sessions
    BY <1>2, <1>3, <1>8 DEF ServiceTypes, Daemons
  <2>2. agent[a].session.pid = p /\ agent[a].session # NoSession
    <3>1. \A s \in daemon[p].sessions : s.pid = p
      BY DEF RequestsFit
    <3>2. NoSession \notin Sessions
      BY DEF Sessions, NoSession
    <3> QED BY <2>1, <3>1, <3>2
  <2>3. agent[a].session.agent = a
    BY <2>2 DEF ClientsFit
  <2> QED BY <1>1, <1>2, <1>3, <1>4, <1>6, <1>8, <2>1, <2>2, <2>3
<1> QED BY <1>7, <1>8

\* How a daemon changes when it carries a request out: its sessions, requests and
\* redemptions alone.
LEMMA HandlingTells ==
  ASSUME ServiceTypes, NEW p \in Pid, NEW q, q.route # "grant", q.session \in Sessions,
         q.request \in Nat, daemon' = Handled(p, q)
  PROVE  /\ daemon' \in [Pid -> Daemons]
         /\ \A o \in Pid : /\ daemon'[o].phase = daemon[o].phase
                           /\ daemon'[o].cred = daemon[o].cred /\ daemon'[o].op = daemon[o].op
                           /\ daemon'[o].granted = daemon[o].granted
                           /\ o # p => daemon'[o] = daemon[o]
         /\ daemon'[p].held = IF q.route = "propose" /\ q.holds
                              THEN daemon[p].held \cup {q.request} ELSE daemon[p].held
         /\ daemon'[p].redeemed = IF q.route = "redeem"
                                  THEN daemon[p].redeemed \cup {q.request}
                                  ELSE daemon[p].redeemed
         /\ daemon'[p].sessions \subseteq daemon[p].sessions \cup
              (IF q.route = "start" THEN {q.session} ELSE {})
<1> USE DEF ServiceTypes, Daemons
<1>1. CASE q.route = "start"
  <2>1. daemon' = [daemon EXCEPT ![p].sessions = @ \cup {q.session}]
    BY <1>1 DEF Handled
  <2> QED BY <1>1, <2>1
<1>2. CASE q.route = "finish"
  <2>1. daemon' = [daemon EXCEPT ![p].sessions = @ \ {q.session}]
    BY <1>2 DEF Handled
  <2> QED BY <1>2, <2>1
<1>3. CASE q.route = "propose" /\ q.holds
  <2>1. daemon' = [daemon EXCEPT ![p].held = @ \cup {q.request}]
    BY <1>3 DEF Handled
  <2> QED BY <1>3, <2>1
<1>4. CASE q.route = "redeem"
  <2>1. daemon' = [daemon EXCEPT ![p].redeemed = @ \cup {q.request}]
    BY <1>4 DEF Handled
  <2> QED BY <1>4, <2>1
<1>5. CASE q.route \notin {"start", "finish", "redeem"} /\ ~(q.route = "propose" /\ q.holds)
  <2>1. daemon' = daemon
    BY <1>5 DEF Handled
  <2> QED BY <1>5, <2>1
<1> QED BY <1>1, <1>2, <1>3, <1>4, <1>5

\* Any request of a client, in a phase that sends it.
LEMMA SendKeeps ==
  ASSUME ServiceInvariant, NEW a \in Agent, NEW holds \in BOOLEAN, NEW next \in ClientPhases,
         NEW route \in {"start", "propose", "execute", "redeem", "finish", "grant"},
         agent[a].at \notin {"out", "gone"}, Send(a, route, holds, next),
         route = "grant" => agent[a].at = "held",
         route = "execute" /\ holds => agent[a].at = "redeemed",
         next = "held" => route = "grant" \/ (route = "propose" /\ holds),
         next = "redeemed" => route = "redeem"
  PROVE  ServiceInvariant'
<1> USE DEF ServiceInvariant
<1>1. agent[a].conn # <<>> /\ requests \in Nat
  BY DEF ClientsFit, ServiceTypes
<1>2. /\ UNCHANGED <<connection, operatorFile, cli>>
      /\ requests' \in {requests, requests + 1}
      /\ route = "propose" => requests' = requests + 1
      /\ \/ /\ agent' = [agent EXCEPT ![a].at = "ready"] /\ acted' = {}
            /\ UNCHANGED <<daemon, granted>>
         \/ \E p \in Pid : Listening(p) /\ Reply(a, p, Query(a, p, route, holds), next)
  BY SendReaches
<1>3. CASE /\ agent' = [agent EXCEPT ![a].at = "ready"] /\ acted' = {}
           /\ UNCHANGED <<daemon, granted>>
  <2>1. /\ agent' \in [Agent -> Clients] /\ \A b \in Agent : b # a => agent'[b] = agent[b]
        /\ agent'[a].conn = agent[a].conn /\ agent'[a].at = "ready"
        /\ agent'[a].session = agent[a].session
    BY <1>3 DEF ServiceTypes, Clients, ClientPhases
  <2> HIDE DEF ServiceInvariant
  <2> QED BY <1>1, <1>2, <1>3, <2>1, FruitlessKeeps
<1>4. ASSUME NEW p \in Pid, Listening(p), Reply(a, p, Query(a, p, route, holds), next)
      PROVE  ServiceInvariant'
  <2>1. PICK q : q = Query(a, p, route, holds)
    OBVIOUS
  <2>2. /\ q.route = route /\ q.holds = holds /\ q.bearer = agent[a].conn[1].cred
        /\ q.session = IF route = "start" THEN [id |-> requests + 1, agent |-> a, pid |-> p]
                       ELSE agent[a].session
        /\ q.request = IF route = "propose" THEN requests + 1 ELSE agent[a].request
    BY <2>1 DEF Query
  <2>3. agent[a].session \in Sessions \cup {NoSession} /\ agent[a].request \in Nat
    BY DEF ServiceTypes, Clients
  <2>4. q.session \in Sessions \cup {NoSession} /\ q.request \in Nat
        /\ (route = "start" => q.session \in Sessions /\ q.session.agent = a)
    <3>1. requests + 1 \in Nat \ {0}
      BY <1>1
    <3>2. [id |-> requests + 1, agent |-> a, pid |-> p] \in Sessions
      BY <3>1 DEF Sessions
    <3> QED BY <2>2, <2>3, <3>1, <3>2
  <2>5. /\ agent' \in [Agent -> Clients] /\ \A b \in Agent : b # a => agent'[b] = agent[b]
        /\ agent'[a].conn = agent[a].conn
        /\ \/ agent'[a].at = "ready"
           \/ /\ Status(p, q) = 200 /\ agent'[a].at = next
              /\ agent'[a].request = q.request
        /\ route # "start" => agent'[a].session = agent[a].session
        /\ agent'[a].session \in {agent[a].session} \cup {s \in Sessions : s.agent = a}
    BY <1>4, <2>1, <2>2, <2>4, ReplyTells
  <2>6. CASE Status(p, q) # 200
    <3>1. acted' = {} /\ UNCHANGED <<daemon, granted>> /\ agent'[a].at = "ready"
      BY <1>4, <2>1, <2>5, <2>6 DEF Reply
    <3> HIDE DEF ServiceInvariant
    <3> QED BY <1>1, <1>2, <2>5, <3>1, FruitlessKeeps
  <2>7. CASE Status(p, q) = 200
    <3>1. daemon[p].cred = CredentialOf(p) /\ daemon[p].cred # daemon[p].op
      BY <1>4 DEF SecretsFit, Listening, SecretsDiffer
    <3>2. route # "grant"
      <4>1. SUFFICES ASSUME route = "grant" PROVE FALSE
        OBVIOUS
      <4>2. PICK s : s = agent[a].session
        OBVIOUS
      <4>3. /\ s # NoSession /\ agent[a].request \in daemon[s.pid].held
            /\ agent[a].conn[1].cred = CredentialOf(s.pid)
        BY <4>1, <4>2 DEF ClientsFit
      <4>4. s.pid \in Pid
        BY <2>3, <4>2, <4>3 DEF Sessions
      <4>5. agent[a].conn[1].cred = daemon[p].op /\ agent[a].request \in daemon[p].held
        BY <2>2, <2>7, <4>1, StatusTells
      <4>6. s.pid = p
        BY <4>3, <4>4, <4>5 DEF RequestsFit
      <4> QED BY <3>1, <4>3, <4>5, <4>6
    <3>3. /\ agent[a].conn[1].cred = CredentialOf(p)
          /\ MadeUp(p) => agent[a].conn[1].pid = p
          /\ q.session.agent = a /\ q.session.pid = p /\ q.session \in Sessions
      <4>1. route \in SessionRoutes \cup {"start"}
        BY <3>2 DEF SessionRoutes
      <4>2. /\ q.route \in SessionRoutes \cup {"start"} /\ q.bearer = agent[a].conn[1].cred
            /\ q.session = IF q.route = "start"
                           THEN [id |-> requests + 1, agent |-> a, pid |-> p]
                           ELSE agent[a].session
        BY <2>2, <4>1
      <4> HIDE DEF ServiceInvariant
      <4> QED BY <1>1, <1>4, <2>7, <4>2, DeedsFit
    <3>4. daemon' = Handled(p, q) /\ granted' = granted
      BY <1>4, <2>1, <2>2, <2>7, <3>2 DEF Reply
    <3>5. /\ daemon' \in [Pid -> Daemons]
          /\ \A o \in Pid : /\ daemon'[o].phase = daemon[o].phase
                            /\ daemon'[o].cred = daemon[o].cred
                            /\ daemon'[o].op = daemon[o].op
                            /\ daemon'[o].granted = daemon[o].granted
                            /\ o # p => daemon'[o] = daemon[o]
          /\ daemon'[p].held = IF route = "propose" /\ holds
                               THEN daemon[p].held \cup {q.request} ELSE daemon[p].held
          /\ daemon'[p].redeemed = IF route = "redeem" THEN daemon[p].redeemed \cup {q.request}
                                   ELSE daemon[p].redeemed
          /\ daemon'[p].sessions \subseteq daemon[p].sessions \cup
               (IF route = "start" THEN {q.session} ELSE {})
      <4>1. q.route # "grant" /\ q.session \in Sessions /\ q.request \in Nat
        BY <2>2, <2>4, <3>2, <3>3
      <4>2. /\ daemon' \in [Pid -> Daemons]
            /\ \A o \in Pid : /\ daemon'[o].phase = daemon[o].phase
                              /\ daemon'[o].cred = daemon[o].cred
                              /\ daemon'[o].op = daemon[o].op
                              /\ daemon'[o].granted = daemon[o].granted
                              /\ o # p => daemon'[o] = daemon[o]
            /\ daemon'[p].held = IF q.route = "propose" /\ q.holds
                                 THEN daemon[p].held \cup {q.request} ELSE daemon[p].held
            /\ daemon'[p].redeemed = IF q.route = "redeem"
                                     THEN daemon[p].redeemed \cup {q.request}
                                     ELSE daemon[p].redeemed
            /\ daemon'[p].sessions \subseteq daemon[p].sessions \cup
                 (IF q.route = "start" THEN {q.session} ELSE {})
        BY <3>4, <4>1, HandlingTells
      <4> HIDE DEF ServiceInvariant
      <4> QED BY <2>2, <4>2
    <3>6. ApprovalsAreTheOperators'
      <4>1. PICK x : x = [pid |-> p, by |-> a, conn |-> agent[a].conn[1], route |-> route,
                          session |-> q.session, holds |-> holds, request |-> q.request]
        OBVIOUS
      <4>2. acted' = {x} \/ acted' = {}
        BY <1>4, <2>1, <2>2, <2>7, <4>1 DEF Reply
      <4>3. route = "execute" /\ holds =>
              \E g \in granted : g.pid = p /\ g.request = q.request
        <5>1. SUFFICES ASSUME route = "execute", holds
                       PROVE  \E g \in granted : g.pid = p /\ g.request = q.request
          OBVIOUS
        <5>2. q.session = agent[a].session /\ q.request = agent[a].request
          BY <2>2, <5>1
        <5>3. q.request \in daemon[p].redeemed
          BY <3>3, <5>1, <5>2 DEF ClientsFit
        <5> QED BY <5>3 DEF RequestsFit
      <4>4. /\ x.session = q.session /\ x.by = a /\ x.pid = p /\ x.conn = agent[a].conn[1]
            /\ x.route = route /\ x.holds = holds /\ x.request = q.request
        BY <4>1
      <4>5. /\ x.session.agent = x.by
            /\ MadeUp(x.pid) => x.conn.pid = x.pid
            /\ x.session.pid = x.pid
            /\ x.route = "execute" /\ x.holds =>
                 \E g \in granted : g.pid = x.pid /\ g.request = x.request
        BY <3>3, <4>3, <4>4
      <4>6. \A g \in granted : g.by = "operator"
        BY DEF ApprovalsAreTheOperators
      <4> HIDE DEF ServiceInvariant
      <4>7. CASE acted' = {}
        BY <3>4, <4>6, <4>7 DEF ApprovalsAreTheOperators
      <4>8. CASE acted' = {x}
        BY <3>4, <4>5, <4>6, <4>8 DEF ApprovalsAreTheOperators, MadeUp
      <4> QED BY <4>2, <4>7, <4>8
    <3>7. RequestsFit'
      <4>1. \A o \in Pid : /\ \A s \in daemon'[o].sessions : s.pid = o
                           /\ \A r \in daemon'[o].granted :
                                \E g \in granted' : g.pid = o /\ g.request = r
        <5>1. \A o \in Pid : /\ \A s \in daemon[o].sessions : s.pid = o
                             /\ \A r \in daemon[o].granted :
                                  \E g \in granted : g.pid = o /\ g.request = r
          BY DEF RequestsFit
        <5>2. \A s \in daemon'[p].sessions : s.pid = p
          BY <3>3, <3>5, <5>1
        <5> HIDE DEF ServiceInvariant
        <5>3. \A o \in Pid : \A s \in daemon'[o].sessions : s.pid = o
          <6>1. \A o \in Pid : o # p => daemon'[o].sessions = daemon[o].sessions
            BY <3>5
          <6> QED BY <5>1, <5>2, <6>1
        <5>4. \A o \in Pid : daemon'[o].granted = daemon[o].granted
          BY <3>5
        <5>5. \A o \in Pid : \A r \in daemon'[o].granted :
                \E g \in granted' : g.pid = o /\ g.request = r
          BY <3>4, <5>1, <5>4
        <5> QED BY <5>3, <5>5
      <4>2. \A o \in Pid : daemon'[o].redeemed \subseteq daemon'[o].granted
        <5>1. route = "redeem" => q.request \in daemon[p].granted
          BY <2>2, <2>7, StatusTells
        <5> QED BY <3>5, <5>1 DEF RequestsFit
      <4>3. \A o \in Pid : daemon[o].held \in SUBSET Nat
        BY DEF ServiceTypes, Daemons
      <4>4. \A o \in Pid : \A r \in daemon[o].held : r <= requests
        BY DEF RequestsFit
      <4>5. \A o \in Pid : \A r \in daemon'[o].held : r <= requests'
        BY <1>1, <1>2, <2>2, <3>5, <4>3, <4>4
      <4>6. \A o, i \in Pid : \A r \in daemon'[o].held \cap daemon'[i].held : o = i
        <5>1. \A o, i \in Pid : \A r \in daemon[o].held \cap daemon[i].held : o = i
          BY DEF RequestsFit
        <5>2. route = "propose" => \A o \in Pid : q.request \notin daemon[o].held
          <6>1. route = "propose" => q.request = requests + 1
            BY <2>2
          <6> HIDE DEF ServiceInvariant
          <6>2. SUFFICES ASSUME route = "propose", NEW o \in Pid, q.request \in daemon[o].held
                         PROVE  FALSE
            OBVIOUS
          <6>3. q.request \in Nat /\ q.request <= requests
            BY <4>3, <4>4, <6>2
          <6>4. requests \in Nat
            BY <1>1 DEF ServiceInvariant, ServiceTypes
          <6>5. q.request = requests + 1
            BY <6>1, <6>2
          <6> QED BY <6>3, <6>4, <6>5
        <5> HIDE DEF ServiceInvariant
        <5>3. CASE route = "propose" /\ holds
          BY <3>5, <5>1, <5>2, <5>3
        <5>4. CASE ~(route = "propose" /\ holds)
          BY <3>5, <5>1, <5>4
        <5> QED BY <5>3, <5>4
      <4> QED BY <4>1, <4>2, <4>5, <4>6 DEF RequestsFit
    <3>8. /\ \A o \in Pid : /\ daemon[o].held \subseteq daemon'[o].held
                            /\ daemon[o].redeemed \subseteq daemon'[o].redeemed
      BY <3>5
    <3>9. agent'[a].at \notin {"held", "redeemed"} \/ ClientsFit'
      <4>1. SUFFICES ASSUME agent'[a].at \in {"held", "redeemed"} PROVE ClientsFit'
        OBVIOUS
      <4>2. agent'[a].at = next /\ agent'[a].request = q.request
        BY <2>5, <4>1
      <4>3. route # "start" /\ agent'[a].session = q.session
        BY <2>2, <2>5, <4>1, <4>2
      <4>4. q.session # NoSession
        <5>1. NoSession \notin Sessions
          BY DEF Sessions, NoSession
        <5> QED BY <3>3, <5>1
      <4>5. next = "held" => q.request \in daemon'[p].held
        BY <3>2, <3>5
      <4>6. next = "redeemed" => q.request \in daemon'[p].redeemed
        BY <3>5
      <4>7. ASSUME NEW b \in Agent, b # a
            PROVE  /\ agent'[b].at \notin {"out", "gone"} => agent'[b].conn # <<>>
                   /\ agent'[b].session # NoSession => agent'[b].session.agent = b
                   /\ agent'[b].at = "held" =>
                        /\ agent'[b].session # NoSession
                        /\ agent'[b].request \in daemon'[agent'[b].session.pid].held
                        /\ agent'[b].conn[1].cred = CredentialOf(agent'[b].session.pid)
                   /\ agent'[b].at = "redeemed" =>
                        /\ agent'[b].session # NoSession
                        /\ agent'[b].request \in daemon'[agent'[b].session.pid].redeemed
        <5>1. agent'[b] = agent[b]
          BY <2>5, <4>7
        <5>2. agent[b].session # NoSession => agent[b].session.pid \in Pid
          BY DEF ServiceTypes, Clients, Sessions
        <5> QED BY <3>8, <5>1, <5>2 DEF ClientsFit
      <4>8. /\ agent'[a].conn # <<>> /\ agent'[a].session # NoSession
            /\ agent'[a].session.agent = a /\ agent'[a].session.pid = p
            /\ agent'[a].conn[1].cred = CredentialOf(p)
            /\ agent'[a].at = "held" => agent'[a].request \in daemon'[p].held
            /\ agent'[a].at = "redeemed" => agent'[a].request \in daemon'[p].redeemed
        BY <1>1, <2>5, <3>3, <4>2, <4>3, <4>4, <4>5, <4>6
      <4> QED BY <4>7, <4>8 DEF ClientsFit
    <3> HIDE DEF ServiceInvariant
    <3> QED BY <1>1, <1>2, <2>5, <3>4, <3>5, <3>6, <3>7, <3>8, <3>9, AnsweredKeeps
  <2> QED BY <2>6, <2>7
<1> QED BY <1>2, <1>3, <1>4

-----------------------------------------------------------------------------
\* A client that has not connected sends nothing; then it keeps one connection.
LEMMA ClientsKeep ==
  ASSUME ServiceInvariant, NEW a \in Agent,
         \/ Connect(a) \/ StartSession(a) \/ \E h \in BOOLEAN : Propose(a, h)
         \/ Execute(a) \/ Resume(a) \/ ExecuteApproved(a) \/ Finish(a) \/ GrantItself(a)
  PROVE  ServiceInvariant'
<1>1. CASE Connect(a)
  <2> USE <1>1 DEF ServiceInvariant
  <2>1. /\ agent' \in [Agent -> Clients] /\ \A b \in Agent : b # a => agent'[b] = agent[b]
        /\ agent'[a].conn = connection /\ agent'[a].at = "start" /\ connection # <<>>
        /\ agent'[a].session = agent[a].session
    BY DEF Connect, ServiceTypes, Clients, ClientPhases
  <2>2. UNCHANGED <<connection, operatorFile, daemon, cli, granted, requests>> /\ acted' = {}
    BY DEF Connect
  <2>3. ServiceTypes' /\ SecretsFit' /\ RequestsFit' /\ CommandsFit'
    BY <2>1, <2>2 DEF ServiceTypes, SecretsFit, SecretsDiffer, Listening, RequestsFit, CommandsFit
  <2>4. ClientsFit'
    BY <2>1, <2>2 DEF ClientsFit
  <2>5. ApprovalsAreTheOperators'
    BY <2>2 DEF ApprovalsAreTheOperators
  <2> QED BY <2>3, <2>4, <2>5
<1>2. CASE StartSession(a)
  BY <1>2, SendKeeps DEF StartSession, ClientPhases
<1>3. ASSUME NEW h \in BOOLEAN, Propose(a, h)
      PROVE  ServiceInvariant'
  <2>1. CASE h = TRUE
    BY <1>3, <2>1, SendKeeps DEF Propose, ClientPhases
  <2>2. CASE h = FALSE
    BY <1>3, <2>2, SendKeeps DEF Propose, ClientPhases
  <2> QED BY <2>1, <2>2
<1>4. CASE Execute(a)
  BY <1>4, SendKeeps DEF Execute, ClientPhases
<1>5. CASE Resume(a)
  BY <1>5, SendKeeps DEF Resume, ClientPhases
<1>6. CASE ExecuteApproved(a)
  BY <1>6, SendKeeps DEF ExecuteApproved, ClientPhases
<1>7. CASE Finish(a)
  BY <1>7, SendKeeps DEF Finish, ClientPhases
<1>8. CASE GrantItself(a)
  BY <1>8, SendKeeps DEF GrantItself, ClientPhases
<1> QED BY <1>1, <1>2, <1>3, <1>4, <1>5, <1>6, <1>7, <1>8

\* The invariant holds initially and is kept by every step.
LEMMA ServiceInductive == ServiceSpec => []ServiceInvariant
<1>1. ServiceInit => ServiceInvariant
  <2> SUFFICES ASSUME ServiceInit PROVE ServiceInvariant
    OBVIOUS
  <2>1. Unborn \in Daemons /\ Unconnected \in Clients
    BY MaybeIs DEF Unborn, Unconnected, Daemons, Clients, Secrets, DaemonPhases, ClientPhases
  <2>2. [does |-> "", at |-> "begin", read |-> <<>>, secret |-> <<>>, client |-> <<>>,
         session |-> NoSession] \in Commands
    BY MaybeIs DEF Commands, CommandPhases, Duties
  <2>3. ServiceTypes
    BY <2>1, <2>2, MaybeIs DEF ServiceInit, ServiceTypes
  <2>4. SecretsFit /\ RequestsFit
    BY DEF ServiceInit, SecretsFit, RequestsFit, Listening, Unborn
  <2>5. ClientsFit /\ CommandsFit /\ ApprovalsAreTheOperators
    BY DEF ServiceInit, ClientsFit, CommandsFit, ApprovalsAreTheOperators, Unconnected
  <2> QED BY <2>3, <2>4, <2>5 DEF ServiceInvariant
<1>2. ASSUME ServiceInvariant, [ServiceNext]_serviceVars
      PROVE  ServiceInvariant'
  <2>1. CASE UNCHANGED serviceVars
    <3>1. ServiceTypes'
      BY <1>2, <2>1 DEF serviceVars, ServiceInvariant, ServiceTypes
    <3>2. SecretsFit'
      BY <1>2, <2>1 DEF serviceVars, ServiceInvariant, SecretsFit, SecretsDiffer, Listening
    <3>3. RequestsFit'
      BY <1>2, <2>1 DEF serviceVars, ServiceInvariant, RequestsFit
    <3>4. ClientsFit'
      BY <1>2, <2>1 DEF serviceVars, ServiceInvariant, ClientsFit
    <3>5. CommandsFit'
      BY <1>2, <2>1 DEF serviceVars, ServiceInvariant, CommandsFit
    <3>6. ApprovalsAreTheOperators'
      BY <1>2, <2>1 DEF serviceVars, ServiceInvariant, ApprovalsAreTheOperators
    <3> QED BY <3>1, <3>2, <3>3, <3>4, <3>5, <3>6 DEF ServiceInvariant
  <2>2. CASE DaemonStep
    BY <1>2, <2>2, DaemonsKeep
  <2>3. CASE \E c \in Cli : \/ FileStep(c) \/ Approve(c) \/ Leave(c)
                            \/ \E a \in Agent : Launch(c, a)
    BY <1>2, <2>3, CommandsKeep, ApproveKeeps, LeaveKeeps, LaunchKeeps
  <2>4. CASE \E a \in Agent :
               \/ Connect(a) \/ StartSession(a) \/ \E h \in BOOLEAN : Propose(a, h)
               \/ Execute(a) \/ Resume(a) \/ ExecuteApproved(a) \/ Finish(a) \/ GrantItself(a)
    BY <1>2, <2>4, ClientsKeep
  <2> QED BY <1>2, <2>1, <2>2, <2>3, <2>4 DEF ServiceNext, DaemonStep, FileStep
<1> QED BY <1>1, <1>2, PTL DEF ServiceSpec

(* What a daemon carries out comes from the client that connected to it,   *)
(* in a session it opened for that client; and no agent approves its own   *)
(* request, whatever the secrets were configured to be: the routes of      *)
(* daemon.ts and the check of startDaemon that the two secrets differ.     *)
THEOREM OperatorsApprove == ServiceSpec => []ApprovalsAreTheOperators
<1>1. ServiceInvariant => ApprovalsAreTheOperators
  BY DEF ServiceInvariant
<1> QED BY <1>1, ServiceInductive, PTL

-----------------------------------------------------------------------------
(* What a verified execution has done.                                     *)

\* An execution that has been permitted, with what it holds.
IsExecution ==
  \E at, action, path, to, repository :
    ex = [at |-> at, action |-> action, path |-> path, to |-> to, repository |-> repository]

\* Once the system call, the request or the process has begun, the execution has
\* reached something, unless it is a process without a directory; and git has one.
BegunHasLanded ==
  /\ ex.at \in {"acted", "sent"} => landed # {}
  /\ ex.at = "running" => ex.path = Nothing \/ landed # {}
  /\ ex.at \in {"guarded", "running"} /\ ex.action.kind = "git" => ex.path # Nothing

ExecutionInvariant ==
  /\ ex = Idle \/ IsExecution
  /\ BegunHasLanded
  /\ VerifiedMeansDone

\* Where a step leaves an execution that does not end.
LEMMA ExecutionGoes ==
  ASSUME IsExecution, NEW at, ex' = [ex EXCEPT !.at = at]
  PROVE  /\ IsExecution'
         /\ ex'.at = at /\ ex'.action = ex.action
         /\ ex'.path = ex.path /\ ex'.to = ex.to
BY DEF IsExecution

\* An execution ends with a proof that says VERIFIED only if it was carried out.
LEMMA EndingKeeps ==
  ASSUME ExecutionInvariant, ex # Idle, UNCHANGED landed, NEW status, NEW proof,
         ExecutionEnds(status, proof),
         proof = "VERIFIED" => status = "EXECUTED" /\ landed # {}
  PROVE  ExecutionInvariant'
<1>1. IsExecution' /\ ex'.at = "done"
  BY ExecutionGoes DEF ExecutionInvariant, ExecutionEnds
<1>2. outcome'.proof = proof /\ outcome'.status = status
  BY DEF ExecutionEnds
<1> QED BY <1>1, <1>2 DEF ExecutionInvariant, BegunHasLanded, VerifiedMeansDone

LEMMA FailingKeeps ==
  ASSUME ExecutionInvariant, ex # Idle, UNCHANGED landed,
         Refuses \/ \E proof \in {"none", "FAILED", "NOT_VERIFIABLE"} : Fails(proof)
  PROVE  ExecutionInvariant'
BY EndingKeeps DEF Refuses, Fails

\* An execution that has landed, and goes on.
LEMMA LandingKeeps ==
  ASSUME ExecutionInvariant, ex # Idle, UNCHANGED outcome,
         NEW at \in {"acted", "sent"}, Goes(at), NEW places, places # {}, Reaches(places)
  PROVE  ExecutionInvariant'
<1>1. IsExecution' /\ ex'.at = at
  BY ExecutionGoes DEF ExecutionInvariant, Goes
<1>2. landed' # {} /\ landed \subseteq landed'
  BY DEF Reaches
<1> QED BY <1>1, <1>2 DEF ExecutionInvariant, BegunHasLanded, VerifiedMeansDone

LEMMA FilesKeep ==
  ASSUME ExecutionInvariant, FsGuard \/ FsGuardDestination \/ FsCheck \/ FsAct \/ FsObserve
  PROVE  ExecutionInvariant'
<1>1. ex # Idle /\ ex.action.kind # "git" /\ IsExecution
  <2>1. Runs({"filesystem"}, ex.at) /\ ex.at # "idle"
    BY DEF FsGuard, FsGuardDestination, FsCheck, FsAct, FsObserve, Runs
  <2> QED BY <2>1 DEF Runs, Idle, ExecutionInvariant
<1>2. CASE FsGuard
  <2>1. CASE Refuses
    BY <1>1, <2>1, FailingKeeps DEF Refuses
  <2>2. ASSUME NEW at \in {"moving", "guarded"}, NEW path,
               ex' = [ex EXCEPT !.at = at, !.path = path], UNCHANGED <<outcome, landed>>
        PROVE  ExecutionInvariant'
    <3>1. IsExecution' /\ ex'.at = at /\ ex'.action = ex.action
      BY <1>1, <2>2 DEF IsExecution
    <3> QED BY <1>1, <2>2, <3>1 DEF ExecutionInvariant, BegunHasLanded, VerifiedMeansDone
  <2> QED BY <1>2, <2>1, <2>2 DEF FsGuard, Holds
<1>3. CASE FsGuardDestination
  <2>1. CASE Refuses
    BY <1>1, <2>1, FailingKeeps DEF Refuses
  <2>2. ASSUME NEW to, ex' = [ex EXCEPT !.at = "guarded", !.to = to],
               UNCHANGED <<outcome, landed>>
        PROVE  ExecutionInvariant'
    <3>1. IsExecution' /\ ex'.at = "guarded" /\ ex'.action = ex.action
      BY <1>1, <2>2 DEF IsExecution
    <3> QED BY <1>1, <2>2, <3>1 DEF ExecutionInvariant, BegunHasLanded, VerifiedMeansDone
  <2> QED BY <1>3, <2>1, <2>2 DEF FsGuardDestination, Holds, Quiet
<1>4. CASE FsCheck
  <2>1. UNCHANGED landed
    BY <1>4 DEF FsCheck, Quiet
  <2>2. CASE Fails("none")
    BY <1>1, <2>1, <2>2, FailingKeeps
  <2>3. CASE Goes("checked") /\ UNCHANGED outcome
    <3>1. IsExecution' /\ ex'.at = "checked"
      BY <1>1, <2>3, ExecutionGoes DEF Goes
    <3> QED BY <2>1, <2>3, <3>1 DEF ExecutionInvariant, BegunHasLanded, VerifiedMeansDone
  <2> QED BY <1>4, <2>2, <2>3 DEF FsCheck
<1>5. CASE FsAct
  <2>1. \/ Fails("none") /\ UNCHANGED landed
        \/ \E places : /\ places # {} /\ Reaches(places)
                        /\ Goes("acted") /\ UNCHANGED outcome
    <3>1. FsDeletes \/ FsMoves \/ FsReads \/ FsWrites
      BY <1>5 DEF FsAct
    <3>2. CASE FsDeletes
      BY <3>2 DEF FsDeletes
    <3>3. CASE FsMoves
      <4>1. \A from, to : {from, to} # {}
        OBVIOUS
      <4> QED BY <3>3, <4>1 DEF FsMoves
    <3>4. CASE FsReads
      BY <3>4 DEF FsReads
    <3>5. CASE FsWrites
      BY <3>5 DEF FsWrites
    <3> QED BY <3>1, <3>2, <3>3, <3>4, <3>5
  <2> QED BY <1>1, <2>1, FailingKeeps, LandingKeeps
<1>6. CASE FsObserve
  <2>1. ExecutionEnds("EXECUTED", FsProof) /\ landed # {} /\ UNCHANGED landed
    BY <1>6 DEF FsObserve, Quiet, Runs, ExecutionInvariant, BegunHasLanded
  <2> QED BY <1>1, <2>1, EndingKeeps
<1> QED BY <1>2, <1>3, <1>4, <1>5, <1>6

LEMMA ProcessesKeep ==
  ASSUME ExecutionInvariant, ProcessGuard \/ Spawn \/ Close
  PROVE  ExecutionInvariant'
<1>1. ex # Idle /\ IsExecution /\ ex.action.kind \in {"shell", "git"}
  BY DEF ProcessGuard, Spawn, Close, Runs, Idle, ExecutionInvariant
<1>2. CASE ProcessGuard
  <2>1. CASE Refuses
    BY <1>1, <2>1, FailingKeeps DEF Refuses
  <2>2. ASSUME NEW cwd, NEW repository, ex.action.kind = "git" => cwd # Nothing,
               ex' = [ex EXCEPT !.at = "guarded", !.path = cwd, !.repository = repository],
               UNCHANGED <<outcome, landed>>
        PROVE  ExecutionInvariant'
    <3>1. IsExecution' /\ ex'.at = "guarded" /\ ex'.action = ex.action /\ ex'.path = cwd
      BY <1>1, <2>2 DEF IsExecution
    <3> QED BY <2>2, <3>1 DEF ExecutionInvariant, BegunHasLanded, VerifiedMeansDone
  <2> QED BY <1>2, <2>1, <2>2 DEF ProcessGuard, SameRepository
<1>3. CASE Spawn
  <2>1. CASE Fails("FAILED") /\ UNCHANGED landed
    BY <1>1, <2>1, FailingKeeps
  <2>2. CASE Goes("running") /\ UNCHANGED outcome
    <3>1. /\ IsExecution' /\ ex'.at = "running"
          /\ ex'.action = ex.action /\ ex'.path = ex.path
      BY <1>1, <2>2, ExecutionGoes DEF Goes
    <3>2. landed \subseteq landed' /\ (ex.path = Nothing \/ landed' # {})
      <4>1. ~Fails("FAILED")
        BY <2>2, <3>1, ExecutionGoes DEF Fails, ExecutionEnds, IsExecution
      <4>2. IF ex.path = Nothing THEN UNCHANGED landed ELSE Reaches({Reached})
        BY <1>3, <4>1 DEF Spawn
      <4> QED BY <4>2 DEF Reaches
    <3>3. ex.action.kind = "git" => ex.path # Nothing
      BY <1>3 DEF Spawn, Runs, ExecutionInvariant, BegunHasLanded
    <3> QED BY <2>2, <3>1, <3>2, <3>3
            DEF ExecutionInvariant, BegunHasLanded, VerifiedMeansDone
  <2> QED BY <1>3, <2>1, <2>2 DEF Spawn
<1>4. CASE Close
  <2>1. PICK status, proof :
          /\ ExecutionEnds(status, proof)
          /\ status = (IF timedOut THEN "TIMED_OUT" ELSE IF code = 0 THEN "EXECUTED" ELSE "FAILED")
          /\ proof = ProcessProof(ex.action)
    BY <1>4 DEF Close
  <2>2. proof = "VERIFIED" => status = "EXECUTED" /\ ex.action.kind = "git"
    BY <1>1, <2>1 DEF ProcessProof
  <2>3. ex.action.kind = "git" => landed # {}
    BY <1>4 DEF Close, Runs, ExecutionInvariant, BegunHasLanded
  <2> QED BY <1>1, <1>4, <2>1, <2>2, <2>3, EndingKeeps DEF Close, Quiet
<1> QED BY <1>2, <1>3, <1>4

LEMMA RequestsKeep ==
  ASSUME ExecutionInvariant, HttpSend \/ HttpAnswer \/ HttpTimeout \/ McpCall \/ McpAnswer
  PROVE  ExecutionInvariant'
<1>1. ex # Idle
  BY DEF HttpSend, HttpAnswer, HttpTimeout, McpCall, McpAnswer, Runs, Idle
<1>2. CASE HttpSend \/ McpCall
  <2>1. \/ \E proof \in {"none", "NOT_VERIFIABLE"} : Fails(proof) /\ UNCHANGED landed
        \/ Goes("sent") /\ Reaches({ex.action.target}) /\ UNCHANGED outcome
    BY <1>2 DEF HttpSend, McpCall
  <2> QED BY <1>1, <2>1, FailingKeeps, LandingKeeps
<1>3. CASE HttpAnswer \/ HttpTimeout \/ McpAnswer
  <2>1. UNCHANGED landed /\ landed # {}
    BY <1>3 DEF HttpAnswer, HttpTimeout, McpAnswer, Quiet, Runs, ExecutionInvariant,
                BegunHasLanded
  <2>2. \/ ExecutionEnds("EXECUTED", "VERIFIED") \/ Fails("FAILED")
        \/ ExecutionEnds("TIMED_OUT", "FAILED") \/ ExecutionEnds("EXECUTED", "PARTIALLY_VERIFIED")
    BY <1>3 DEF HttpAnswer, HttpTimeout, McpAnswer
  <2> QED BY <1>1, <2>1, <2>2, EndingKeeps, FailingKeeps
<1> QED BY <1>2, <1>3

\* A proof says VERIFIED only of executions that were carried out and reached
\* something, whatever the host does meanwhile and whatever the tree looks like.
THEOREM VerifiedIsDone == ExecutionSpec => []VerifiedMeansDone
<1>1. ExecutionInit => ExecutionInvariant
  BY DEF ExecutionInit, ExecutionInvariant, BegunHasLanded, VerifiedMeansDone, Idle, NoOutcome
<1>2. ExecutionInvariant /\ [ExecutionNext]_executionVars => ExecutionInvariant'
  <2> SUFFICES ASSUME ExecutionInvariant, [ExecutionNext]_executionVars
               PROVE  ExecutionInvariant'
    OBVIOUS
  <2>1. CASE Permit
    <3>1. PICK a : ex' = [at |-> "permitted", action |-> a, path |-> Nothing,
                          to |-> Nothing, repository |-> Nothing]
      BY <2>1 DEF Permit, Issue
    <3>2. IsExecution' /\ ex'.at = "permitted"
      BY <3>1 DEF IsExecution
    <3> QED BY <2>1, <3>2
            DEF Permit, Issue, ExecutionInvariant, BegunHasLanded, VerifiedMeansDone
  <2>2. CASE Executor
    BY <2>2, FilesKeep, ProcessesKeep, RequestsKeep DEF Executor
  <2>3. CASE UNCHANGED <<ex, outcome, landed>>
    BY <2>3 DEF ExecutionInvariant, IsExecution, BegunHasLanded, VerifiedMeansDone, Idle
  <2>4. CASE ChildExits \/ OutputCloses \/ TimerFires \/ Host
    BY <2>3, <2>4 DEF ChildExits, OutputCloses, TimerFires, Host, Relink, RemoveFile,
                      MakeRepository, MoveHead, Changed
  <2>5. CASE UNCHANGED executionVars
    BY <2>3, <2>5 DEF executionVars, exVars
  <2> QED BY <2>1, <2>2, <2>4, <2>5 DEF ExecutionNext
<1>3. ExecutionInvariant => VerifiedMeansDone
  BY DEF ExecutionInvariant
<1> QED BY <1>1, <1>2, <1>3, PTL DEF ExecutionSpec

-----------------------------------------------------------------------------
(* Sequences: beginnings and ends, and folds over their elements.          *)

\* The beginnings of a sequence, and of its beginnings.
LEMMA Beginnings ==
  ASSUME NEW S, NEW p \in Seq(S), NEW n \in 0 .. Len(p), NEW q, q = SubSeq(p, 1, n)
  PROVE  /\ q \in Seq(S) /\ Len(q) = n
         /\ \A i \in 1 .. n : q[i] = p[i]
         /\ \A i \in 0 .. n : SubSeq(q, 1, i) = SubSeq(p, 1, i)
<1>1. Len(p) \in Nat /\ n \in Nat /\ \A i \in 1 .. n : p[i] \in S
  BY LenProperties
<1>2. /\ q \in Seq(S) /\ Len(q) = n
      /\ \A i \in 1 .. n : q[i] = p[i]
  <2>1. \A i \in 1 .. n : p[i] \in S
    BY <1>1
  <2>2. /\ q \in Seq(S)
        /\ Len(q) = IF 1 <= n THEN n - 1 + 1 ELSE 0
        /\ \A i \in 1 .. n - 1 + 1 : q[i] = p[1 + i - 1]
    BY <1>1, <2>1, SubSeqProperties
  <2> QED BY <1>1, <2>2
<1>3. ASSUME NEW i \in 0 .. n PROVE SubSeq(q, 1, i) = SubSeq(p, 1, i)
  <2>1. CASE i = 0
    BY <2>1, SubSeqEmpty
  <2>2. CASE i # 0
    <3>1. /\ i \in 1 .. n - 1 + 1 /\ 1 \in 1 .. n - 1 + 1 /\ n \in 1 .. Len(p) /\ 1 \in 1 .. Len(p)
          /\ 1 + i - 1 = i /\ 1 + 1 - 1 = 1
      BY <1>1, <2>2
    <3>2. SubSeq(SubSeq(p, 1, n), 1, i) = SubSeq(p, 1 + 1 - 1, 1 + i - 1)
      BY <3>1, SubSeqOfSubSeq
    <3> QED BY <3>1, <3>2
  <2> QED BY <2>1, <2>2
<1> QED BY <1>2, <1>3

\* A sequence with one element more.
LEMMA OneMore ==
  ASSUME NEW S, NEW s \in Seq(S), NEW e, NEW p, p = Append(s, e)
  PROVE  /\ p # <<>> /\ Len(p) = Len(s) + 1 /\ p[Len(p)] = e
         /\ \A i \in 1 .. Len(s) : p[i] = s[i]
         /\ Front(p) = s /\ Last(p) = e
         /\ \A i \in 0 .. Len(s) : SubSeq(p, 1, i) = SubSeq(s, 1, i)
<1>1. PICK T : T = S \cup {e}
  OBVIOUS
<1>2. s \in Seq(T) /\ e \in T
  BY <1>1, SeqMonotonic
<1>3. /\ p \in Seq(T) /\ p # <<>> /\ Len(p) = Len(s) + 1 /\ p[Len(p)] = e
      /\ \A i \in 1 .. Len(s) : p[i] = s[i]
  BY <1>2, AppendProperties
<1>4. Len(s) \in Nat
  BY LenProperties
<1>5. ASSUME NEW i \in 0 .. Len(s) PROVE SubSeq(p, 1, i) = SubSeq(s, 1, i)
  <2>1. i \in 0 .. Len(p) /\ i \in Nat
    BY <1>3, <1>4
  <2>2. PICK a, b : a = SubSeq(p, 1, i) /\ b = SubSeq(s, 1, i)
    OBVIOUS
  <2>3. a \in Seq(T) /\ Len(a) = i /\ \A j \in 1 .. i : a[j] = p[j]
    BY <1>3, <2>1, <2>2, Beginnings
  <2>4. b \in Seq(T) /\ Len(b) = i /\ \A j \in 1 .. i : b[j] = s[j]
    BY <1>2, <2>2, Beginnings
  <2>5. \A j \in 1 .. i : a[j] = b[j]
    BY <1>3, <1>4, <2>1, <2>3, <2>4
  <2>6. a = b
    BY <2>3, <2>4, <2>5, SeqEqual
  <2> QED BY <2>2, <2>6
<1>6. Front(p) = s
  <2>1. Len(p) - 1 = Len(s) /\ Len(s) \in 0 .. Len(s)
    BY <1>3, <1>4
  <2>2. Front(p) = SubSeq(s, 1, Len(s))
    BY <1>5, <2>1 DEF Front
  <2> QED BY <2>2, SubSeqFull
<1> QED BY <1>3, <1>5, <1>6 DEF Last

\* A sequence that is not empty ends in an element.
LEMMA WithoutLast ==
  ASSUME NEW S, NEW p \in Seq(S), p # <<>>
  PROVE  /\ Front(p) \in Seq(S) /\ Len(Front(p)) = Len(p) - 1 /\ Len(p) \in Nat \ {0}
         /\ Last(p) \in S /\ p = Append(Front(p), Last(p))
<1>1. PICK s \in Seq(S), e \in S : p = Append(s, e)
  BY SequenceEmptyOrAppend
<1>2. Front(p) = s /\ Last(p) = e /\ Len(p) = Len(s) + 1 /\ Len(s) \in Nat
  BY <1>1, OneMore, LenProperties
<1> QED BY <1>1, <1>2

\* A sequence is its beginning and its rest; what comes after leaves a beginning alone.
LEMMA Joining ==
  ASSUME NEW S, NEW p \in Seq(S), NEW n \in 0 .. Len(p)
  PROVE  SubSeq(p, 1, n) \o SubSeq(p, n + 1, Len(p)) = p
<1>1. Len(p) \in Nat /\ n \in Nat
  BY LenProperties
<1>2. 1 \in 1 .. Len(p) + 1 /\ n \in 1 - 1 .. Len(p) /\ Len(p) \in n .. Len(p)
  BY <1>1
<1>3. SubSeq(p, 1, n) \o SubSeq(p, n + 1, Len(p)) = SubSeq(p, 1, Len(p))
  BY <1>2, ConcatAdjacentSubSeq
<1> QED BY <1>3, SubSeqFull

\* What is left of a sequence after its first n elements.
LEMMA RestOf ==
  ASSUME NEW S, NEW p \in Seq(S), NEW n \in 0 .. Len(p), NEW r, r = SubSeq(p, n + 1, Len(p))
  PROVE  /\ r \in Seq(S) /\ Len(r) = Len(p) - n
         /\ n < Len(p) => r[1] = p[n + 1]
<1>1. Len(p) \in Nat /\ n \in Nat /\ \A i \in n + 1 .. Len(p) : p[i] \in S
  BY LenProperties
<1>2. /\ r \in Seq(S) /\ Len(r) = IF n + 1 <= Len(p) THEN Len(p) - (n + 1) + 1 ELSE 0
      /\ \A i \in 1 .. Len(p) - (n + 1) + 1 : r[i] = p[n + 1 + i - 1]
  BY <1>1, SubSeqProperties
<1> QED BY <1>1, <1>2

\* The beginnings of two sequences joined.
LEMMA JoinedBeginnings ==
  ASSUME NEW S, NEW p \in Seq(S), NEW q \in Seq(S), NEW r, r = p \o q
  PROVE  /\ r \in Seq(S) /\ Len(r) = Len(p) + Len(q)
         /\ \A i \in 0 .. Len(p) : SubSeq(r, 1, i) = SubSeq(p, 1, i)
         /\ q # <<>> => SubSeq(r, 1, Len(p) + 1) = Append(p, q[1])
<1>1. Len(p) \in Nat /\ Len(q) \in Nat
  BY LenProperties
<1>2. /\ r \in Seq(S) /\ Len(r) = Len(p) + Len(q)
      /\ \A i \in 1 .. Len(p) + Len(q) : r[i] = IF i <= Len(p) THEN p[i] ELSE q[i - Len(p)]
  BY ConcatProperties
<1>3. ASSUME NEW i \in 0 .. Len(p) PROVE SubSeq(r, 1, i) = SubSeq(p, 1, i)
  <2>1. i \in 0 .. Len(r) /\ i \in Nat
    BY <1>1, <1>2
  <2>2. PICK a, b : a = SubSeq(r, 1, i) /\ b = SubSeq(p, 1, i)
    OBVIOUS
  <2>3. a \in Seq(S) /\ Len(a) = i /\ \A j \in 1 .. i : a[j] = r[j]
    BY <1>2, <2>1, <2>2, Beginnings
  <2>4. b \in Seq(S) /\ Len(b) = i /\ \A j \in 1 .. i : b[j] = p[j]
    BY <2>2, Beginnings
  <2>5. \A j \in 1 .. i : a[j] = b[j]
    BY <1>1, <1>2, <2>1, <2>3, <2>4
  <2>6. a = b
    BY <2>3, <2>4, <2>5, SeqEqual
  <2> QED BY <2>2, <2>6
<1>4. ASSUME q # <<>> PROVE SubSeq(r, 1, Len(p) + 1) = Append(p, q[1])
  <2>1. Len(q) >= 1 /\ q[1] \in S
    <3>1. Len(q) \in Nat \ {0}
      BY <1>4, EmptySeq
    <3>2. 1 \in 1 .. Len(q)
      BY <3>1
    <3> QED BY <3>1, <3>2, ElementOfSeq
  <2>2. PICK a, b : a = SubSeq(r, 1, Len(p) + 1) /\ b = Append(p, q[1])
    OBVIOUS
  <2>3. Len(p) + 1 \in 0 .. Len(r)
    BY <1>1, <1>2, <2>1
  <2>4. a \in Seq(S) /\ Len(a) = Len(p) + 1 /\ \A j \in 1 .. Len(p) + 1 : a[j] = r[j]
    BY <1>2, <2>2, <2>3, Beginnings
  <2>5. /\ b \in Seq(S) /\ Len(b) = Len(p) + 1 /\ b[Len(p) + 1] = q[1]
        /\ \A j \in 1 .. Len(p) : b[j] = p[j]
    BY <2>1, <2>2, AppendProperties
  <2>6. ASSUME NEW j \in 1 .. Len(p) + 1 PROVE a[j] = b[j]
    <3>1. CASE j = Len(p) + 1
      BY <1>1, <1>2, <2>1, <2>4, <2>5, <3>1
    <3>2. CASE j \in 1 .. Len(p)
      BY <1>1, <1>2, <2>4, <2>5, <3>2
    <3> QED BY <1>1, <3>1, <3>2
  <2>7. a = b
    BY <2>4, <2>5, <2>6, SeqEqual
  <2> QED BY <2>2, <2>7
<1> QED BY <1>2, <1>3, <1>4

\* A fold over the elements of a sequence, for all sequences at once.
IsFold(f, S, a, g) ==
  /\ f[<<>>] = a
  /\ \A p \in Seq(S) : p # <<>> => f[p] = g[<<f[Front(p)], Last(p)>>]

\* A fold has a function: the values for the sequences of one length are a recursion.
LEMMA FoldExists ==
  ASSUME NEW V, NEW S, NEW a \in V, NEW g \in [V \X S -> V]
  PROVE  \E f \in [Seq(S) -> V] : IsFold(f, S, a, g)
<1> DEFINE IsRun(r, p) == /\ r \in [0 .. Len(p) -> V] /\ r[0] = a
                          /\ \A i \in 1 .. Len(p) : r[i] = g[<<r[i - 1], p[i]>>]
<1>1. ASSUME NEW p \in Seq(S) PROVE \E r : IsRun(r, p)
  <2>1. PICK n \in Nat : n = Len(p)
    BY LenProperties
  <2>2. PICK k : k = [q \in (1 .. n) \X V |-> g[<<q[2], p[q[1]]>>]]
    OBVIOUS
  <2>3. ASSUME NEW i \in 1 .. n, NEW v \in V
        PROVE  k[<<i, v>>] = g[<<v, p[i]>>] /\ k[<<i, v>>] \in V
    <3>1. p[i] \in S
      BY <2>1, ElementOfSeq
    <3>2. <<i, v>> \in (1 .. n) \X V /\ <<v, p[i]>> \in V \X S
      BY <3>1
    <3>3. k[<<i, v>>] = g[<<v, p[i]>>]
      BY <2>2, <3>2
    <3> QED BY <3>2, <3>3
  <2>4. k \in [(1 .. n) \X V -> V]
    BY <2>2, <2>3
  <2>5. PICK r \in [0 .. n -> V] : Recursion(r, n, a, k)
    BY <2>4, RecursionExists
  <2>6. \A i \in 1 .. n : i - 1 \in 0 .. n
    OBVIOUS
  <2>7. IsRun(r, p)
    BY <2>1, <2>3, <2>5, <2>6 DEF Recursion
  <2> QED BY <2>7
<1>2. PICK f : f = [p \in Seq(S) |-> (CHOOSE r : IsRun(r, p))[Len(p)]]
  OBVIOUS
<1>3. ASSUME NEW p \in Seq(S) PROVE \E r : IsRun(r, p) /\ f[p] = r[Len(p)]
  <2>1. IsRun(CHOOSE r : IsRun(r, p), p)
    BY <1>1
  <2>2. f[p] = (CHOOSE r : IsRun(r, p))[Len(p)]
    BY <1>2
  <2> QED BY <2>1, <2>2
<1>4. f \in [Seq(S) -> V]
  <2>1. ASSUME NEW p \in Seq(S) PROVE f[p] \in V
    <3>1. PICK r : IsRun(r, p) /\ f[p] = r[Len(p)]
      BY <1>3
    <3>2. Len(p) \in 0 .. Len(p)
      BY LenProperties
    <3> QED BY <3>1, <3>2
  <2> QED BY <1>2, <2>1
<1>5. f[<<>>] = a
  <2>1. <<>> \in Seq(S) /\ Len(<<>>) = 0
    BY EmptySeq
  <2>2. PICK r : IsRun(r, <<>>) /\ f[<<>>] = r[Len(<<>>)]
    BY <1>3, <2>1
  <2> QED BY <2>1, <2>2
<1>6. ASSUME NEW p \in Seq(S), p # <<>> PROVE f[p] = g[<<f[Front(p)], Last(p)>>]
  <2>1. PICK q \in Seq(S), e \in S, n \in Nat :
          /\ p = Append(q, e) /\ q = Front(p) /\ e = Last(p) /\ n = Len(q) /\ Len(p) = n + 1
    <3>1. /\ Front(p) \in Seq(S) /\ Len(Front(p)) = Len(p) - 1 /\ Len(p) \in Nat \ {0}
          /\ Last(p) \in S /\ p = Append(Front(p), Last(p))
      BY <1>6, WithoutLast
    <3>2. Len(p) - 1 \in Nat /\ Len(p) = (Len(p) - 1) + 1
      BY <3>1
    <3> QED BY <3>1, <3>2
  <2>2. p[n + 1] = e /\ \A i \in 1 .. n : p[i] = q[i]
    BY <2>1, OneMore
  <2>3. PICK r : IsRun(r, p) /\ f[p] = r[Len(p)]
    BY <1>3
  <2>4. PICK s : IsRun(s, q) /\ f[q] = s[Len(q)]
    BY <1>3
  <2>5. r[0] = a /\ \A i \in 1 .. n + 1 : r[i] = g[<<r[i - 1], p[i]>>]
    BY <2>1, <2>3
  <2>6. s[0] = a /\ \A i \in 1 .. n : s[i] = g[<<s[i - 1], q[i]>>]
    BY <2>1, <2>4
  <2>7. \A i \in 1 .. n : s[i - 1] = r[i - 1] => s[i] = r[i]
    <3>1. \A i \in 1 .. n : i \in 1 .. n + 1
      OBVIOUS
    <3> QED BY <2>2, <2>5, <2>6, <3>1
  <2>8. StepAlike(s, r, n)
    BY <2>5, <2>6, <2>7 DEF StepAlike
  <2>9. s[n] = r[n]
    <3>1. n \in 0 .. n
      OBVIOUS
    <3> QED BY <2>8, <3>1, RecursionsAgree
  <2>10. n + 1 \in 1 .. n + 1 /\ (n + 1) - 1 = n
    OBVIOUS
  <2>11. r[n + 1] = g[<<r[n], e>>]
    BY <2>2, <2>5, <2>10
  <2> QED BY <2>1, <2>3, <2>4, <2>9, <2>11
<1> QED BY <1>4, <1>5, <1>6 DEF IsFold

-----------------------------------------------------------------------------
(* Where the kernel arrives.                                               *)

\* A tree the lookups are about.
IsTree(t) ==
  /\ <<>> \in DOMAIN t /\ t[<<>>].type = "dir" /\ Gone \notin DOMAIN t
  /\ DOMAIN t \subseteq Seq(STRING)
  /\ \A q \in DOMAIN t : /\ t[q].type = "link" => t[q].to \in Seq(STRING)
                         /\ q # <<>> => Front(q) \in DOMAIN t /\ t[Front(q)].type = "dir"

\* One name more, from where the names before it lead.
Walked(dir, e, hops, lookup) == Step(dir, Append(dir, e), hops, lookup)

\* The set of one directory stands for a LET.
LEMMA OneStep ==
  ASSUME NEW x, NEW e, NEW h, NEW lookup
  PROVE  The({Step(dir, Append(dir, e), h, lookup) : dir \in {x}}) = Walked(x, e, h, lookup)
<1>1. PICK S : S = {Step(dir, Append(dir, e), h, lookup) : dir \in {x}}
  OBVIOUS
<1>2. \A y : y \in S <=> y = Walked(x, e, h, lookup)
  BY <1>1 DEF Walked
<1>3. The(S) \in S
  BY <1>2 DEF The
<1> QED BY <1>1, <1>2, <1>3

Walks(f) ==
  \A p \in Seq(STRING), h \in Nat :
    f[<<p, h>>] = IF p = <<>> THEN p ELSE Walked(f[<<Front(p), h>>], Last(p), h, f)

LEMMA Sentinels == Gone \in Seq(STRING) /\ Refused \in Seq(STRING) /\ Nothing \in Seq(STRING)
BY HostAssumption

\* The lookups with h hops, given those with one hop less.
IsRow(row, h, lower) ==
  /\ row[<<>>] = <<>>
  /\ \A p \in Seq(STRING) : p # <<>> =>
       row[p] = IF row[Front(p)] \notin DOMAIN fs \/ fs[row[Front(p)]].type # "dir" THEN Gone
                ELSE IF \/ Append(row[Front(p)], Last(p)) \notin DOMAIN fs
                        \/ fs[Append(row[Front(p)], Last(p))].type # "link"
                     THEN Append(row[Front(p)], Last(p))
                ELSE IF h = 0 THEN Gone ELSE lower[fs[Append(row[Front(p)], Last(p))].to]

\* The lookups with h hops, as a fold over the names.
LEMMA RowExists ==
  ASSUME IsTree(fs), NEW h \in Nat, NEW lower \in [Seq(STRING) -> Seq(STRING)]
  PROVE  \E row \in [Seq(STRING) -> Seq(STRING)] : IsRow(row, h, lower)
<1>1. PICK P : P = Seq(STRING)
  OBVIOUS
<1> DEFINE Arrives(dir, e) ==
      IF dir \notin DOMAIN fs \/ fs[dir].type # "dir" THEN Gone
      ELSE IF Append(dir, e) \notin DOMAIN fs \/ fs[Append(dir, e)].type # "link"
           THEN Append(dir, e)
      ELSE IF h = 0 THEN Gone ELSE lower[fs[Append(dir, e)].to]
<1>2. ASSUME NEW dir \in P, NEW e \in STRING PROVE Arrives(dir, e) \in P
  <2>1. Append(dir, e) \in P
    BY <1>1, AppendProperties
  <2>2. Gone \in P
    BY <1>1, Sentinels
  <2>3. Append(dir, e) \in DOMAIN fs /\ fs[Append(dir, e)].type = "link" =>
          fs[Append(dir, e)].to \in P
    BY <1>1 DEF IsTree
  <2>4. \A q \in P : lower[q] \in P
    BY <1>1
  <2> QED BY <2>1, <2>2, <2>3, <2>4
<1>3. PICK g : g = [x \in P \X STRING |-> Arrives(x[1], x[2])]
  OBVIOUS
<1>4. ASSUME NEW dir \in P, NEW e \in STRING PROVE g[<<dir, e>>] = Arrives(dir, e)
  <2> HIDE DEF Arrives
  <2>1. <<dir, e>> \in P \X STRING
    OBVIOUS
  <2> QED BY <1>3, <2>1
<1>5. g \in [P \X STRING -> P]
  <2> HIDE DEF Arrives
  <2>1. ASSUME NEW x \in P \X STRING PROVE g[x] \in P
    <3>1. x[1] \in P /\ x[2] \in STRING /\ x = <<x[1], x[2]>>
      OBVIOUS
    <3> QED BY <1>2, <1>4, <3>1
  <2> QED BY <1>3, <2>1
<1>6. <<>> \in P
  BY <1>1
<1>7. PICK row \in [Seq(STRING) -> P] :
        /\ row[<<>>] = <<>>
        /\ \A p \in Seq(STRING) : p # <<>> => row[p] = g[<<row[Front(p)], Last(p)>>]
  <2>1. PICK N, e : N = STRING /\ e = <<>>
    OBVIOUS
  <2>2. e \in P /\ g \in [P \X N -> P]
    BY <1>5, <1>6, <2>1
  <2>3. PICK row \in [Seq(N) -> P] : IsFold(row, N, e, g)
    BY ONLY <2>2, FoldExists
  <2> QED BY <2>1, <2>3 DEF IsFold
<1>8. ASSUME NEW p \in Seq(STRING), p # <<>> PROVE row[p] = Arrives(row[Front(p)], Last(p))
  <2> HIDE DEF Arrives
  <2>1. Front(p) \in Seq(STRING) /\ Last(p) \in STRING
    BY <1>8, WithoutLast
  <2>2. row[Front(p)] \in P
    BY <1>7, <2>1
  <2> QED BY <1>4, <1>7, <1>8, <2>1, <2>2
<1>9. row \in [Seq(STRING) -> Seq(STRING)]
  BY <1>1, <1>7
<1>10. IsRow(row, h, lower)
  BY <1>7, <1>8 DEF IsRow
<1> QED BY <1>9, <1>10

\* The lookups, as a recursion over the hops.
LEMMA WalksExist ==
  ASSUME IsTree(fs)
  PROVE  \E f : f = [x \in Seq(STRING) \X Nat |-> f[x]] /\ Walks(f)
<1>1. PICK V : V = [Seq(STRING) -> Seq(STRING)]
  OBVIOUS
<1>2. PICK bottom \in V : IsRow(bottom, 0, [p \in Seq(STRING) |-> <<>>])
  <2>1. [p \in Seq(STRING) |-> <<>>] \in [Seq(STRING) -> Seq(STRING)]
    BY EmptySeq
  <2> QED BY <1>1, <2>1, RowExists
<1>3. PICK g : g = [x \in Nat \X V |-> CHOOSE row \in V : IsRow(row, x[1] + 1, x[2])]
  OBVIOUS
<1>4. ASSUME NEW n \in Nat, NEW lower \in V
      PROVE  g[<<n, lower>>] \in V /\ IsRow(g[<<n, lower>>], n + 1, lower)
  <2>1. g[<<n, lower>>] = CHOOSE row \in V : IsRow(row, n + 1, lower)
    <3>1. <<n, lower>> \in Nat \X V
      OBVIOUS
    <3> QED BY <1>3, <3>1
  <2>2. \E row \in V : IsRow(row, n + 1, lower)
    <3>1. n + 1 \in Nat
      OBVIOUS
    <3> QED BY <1>1, <3>1, RowExists
  <2> QED BY <2>1, <2>2
<1>5. g \in [Nat \X V -> V]
  <2>1. ASSUME NEW x \in Nat \X V PROVE g[x] \in V
    <3>1. x[1] \in Nat /\ x[2] \in V /\ x = <<x[1], x[2]>>
      OBVIOUS
    <3> QED BY <1>4, <3>1
  <2> QED BY <1>3, <2>1
<1>6. PICK rows \in [Nat -> V] :
        rows[0] = bottom /\ \A n \in Nat : rows[n + 1] = g[<<n, rows[n]>>]
  <2>1. bottom \in V
    BY <1>2
  <2>2. PICK rows \in [Nat -> V] : GoesOn(rows, bottom, g)
    BY ONLY <1>5, <2>1, RecursionGoesOn
  <2> QED BY <2>2 DEF GoesOn
<1>7. PICK f : f = [x \in Seq(STRING) \X Nat |-> rows[x[2]][x[1]]]
  OBVIOUS
<1>8. \A p \in Seq(STRING), h \in Nat : f[<<p, h>>] = rows[h][p]
  BY <1>7
<1>9. ASSUME NEW h \in Nat
      PROVE  \E lower : IsRow(rows[h], h, lower) /\ (h # 0 => lower = rows[h - 1])
  <2>1. CASE h = 0
    BY <1>2, <1>6, <2>1
  <2>2. CASE h # 0
    <3>1. h - 1 \in Nat /\ (h - 1) + 1 = h
      BY <2>2
    <3>2. rows[h - 1] \in V /\ rows[(h - 1) + 1] = g[<<h - 1, rows[h - 1]>>]
      BY <1>6, <3>1
    <3>3. IsRow(rows[h], h, rows[h - 1])
      BY <1>4, <3>1, <3>2
    <3> QED BY <3>3
  <2> QED BY <2>1, <2>2
<1>10. ASSUME NEW p \in Seq(STRING), NEW h \in Nat
       PROVE  f[<<p, h>>] = IF p = <<>> THEN p ELSE Walked(f[<<Front(p), h>>], Last(p), h, f)
  <2>1. PICK lower : IsRow(rows[h], h, lower) /\ (h # 0 => lower = rows[h - 1])
    BY <1>9
  <2>2. CASE p = <<>>
    BY <1>8, <2>1, <2>2 DEF IsRow
  <2>3. CASE p # <<>>
    <3>1. Front(p) \in Seq(STRING) /\ Last(p) \in STRING
      BY <2>3, WithoutLast
    <3>2. PICK dir : dir = rows[h][Front(p)]
      OBVIOUS
    <3>3. f[<<Front(p), h>>] = dir /\ f[<<p, h>>] = rows[h][p]
      BY <1>8, <3>1, <3>2
    <3>4. PICK q : q = Append(dir, Last(p))
      OBVIOUS
    <3>5. rows[h][p] = IF dir \notin DOMAIN fs \/ fs[dir].type # "dir" THEN Gone
                       ELSE IF q \notin DOMAIN fs \/ fs[q].type # "link" THEN q
                       ELSE IF h = 0 THEN Gone ELSE lower[fs[q].to]
      BY <2>1, <2>3, <3>2, <3>4 DEF IsRow
    <3>6. ASSUME h # 0, q \in DOMAIN fs, fs[q].type = "link"
          PROVE  lower[fs[q].to] = f[<<fs[q].to, h - 1>>]
      <4>1. fs[q].to \in Seq(STRING) /\ h - 1 \in Nat
        BY <3>6 DEF IsTree
      <4> QED BY <1>8, <2>1, <3>6, <4>1
    <3>7. Walked(dir, Last(p), h, f) = IF dir \notin DOMAIN fs \/ fs[dir].type # "dir" THEN Gone
                       ELSE IF q \notin DOMAIN fs \/ fs[q].type # "link" THEN q
                       ELSE IF h = 0 THEN Gone ELSE f[<<fs[q].to, h - 1>>]
      BY <3>4 DEF Walked, Step
    <3> QED BY <2>3, <3>3, <3>5, <3>6, <3>7
  <2> QED BY <2>2, <2>3
<1>11. f = [x \in Seq(STRING) \X Nat |-> f[x]]
  BY <1>7
<1>12. Walks(f)
  BY <1>10 DEF Walks
<1> QED BY <1>11, <1>12

\* What a lookup is, one name and one hop at a time.
LEMMA LookupsWalk ==
  ASSUME IsTree(fs)
  PROVE  Walks(At)
<1> DEFINE Follows(f, x) ==
      IF x[1] = <<>> THEN x[1]
      ELSE The({Step(dir, Append(dir, Last(x[1])), x[2], f) : dir \in {f[<<Front(x[1]), x[2]>>]}})
<1>1. ASSUME NEW f, NEW p, NEW h
      PROVE  Follows(f, <<p, h>>) =
               IF p = <<>> THEN p ELSE Walked(f[<<Front(p), h>>], Last(p), h, f)
  BY OneStep
<1> HIDE DEF Follows
<1>2. PICK f : f = [x \in Seq(STRING) \X Nat |-> f[x]] /\ Walks(f)
  BY WalksExist
<1>3. f = [x \in Seq(STRING) \X Nat |-> Follows(f, x)]
  <2>1. ASSUME NEW x \in Seq(STRING) \X Nat PROVE f[x] = Follows(f, x)
    <3>1. x[1] \in Seq(STRING) /\ x[2] \in Nat /\ x = <<x[1], x[2]>>
      OBVIOUS
    <3>2. PICK p \in Seq(STRING), h \in Nat : x = <<p, h>>
      BY <3>1
    <3>3. f[<<p, h>>] = Follows(f, <<p, h>>)
      <4>1. Walks(f)
        BY <1>2
      <4>2. f[<<p, h>>] = IF p = <<>> THEN p ELSE Walked(f[<<Front(p), h>>], Last(p), h, f)
        BY ONLY <4>1, p \in Seq(STRING), h \in Nat DEF Walks
      <4> QED BY ONLY <1>1, <4>2
    <3> QED BY <3>2, <3>3
  <2> QED BY <1>2, <2>1
<1>4. At = [x \in Seq(STRING) \X Nat |-> Follows(At, x)]
  <2>1. At = CHOOSE g : g = [x \in Seq(STRING) \X Nat |-> Follows(g, x)]
    BY DEF At, Follows
  <2> QED BY <1>3, <2>1
<1>5. ASSUME NEW p \in Seq(STRING), NEW h \in Nat
      PROVE  At[<<p, h>>] = IF p = <<>> THEN p ELSE Walked(At[<<Front(p), h>>], Last(p), h, At)
  <2>1. <<p, h>> \in Seq(STRING) \X Nat
    OBVIOUS
  <2>2. At[<<p, h>>] = Follows(At, <<p, h>>)
    BY <1>4, <2>1
  <2> QED BY <1>1, <2>2
<1> QED BY <1>5 DEF Walks

\* What holds of a lookup if it holds of those with fewer hops, and of the one
\* without the last name, holds of all lookups.
LEMMA LookupInduction ==
  ASSUME NEW Q,
         \A p \in Seq(STRING), h \in Nat :
           /\ h # 0 => \A q \in Seq(STRING) : <<q, h - 1>> \in Q
           /\ p # <<>> => <<Front(p), h>> \in Q
           => <<p, h>> \in Q
  PROVE  \A p \in Seq(STRING), h \in Nat : <<p, h>> \in Q
<1>1. PICK T : T = {h \in Nat : \A p \in Seq(STRING) : <<p, h>> \in Q}
  OBVIOUS
<1>2. ASSUME NEW h \in Nat, h # 0 => h - 1 \in T PROVE h \in T
  <2>1. PICK U : U = {n \in Nat : \A p \in Seq(STRING) : Len(p) = n => <<p, h>> \in Q}
    OBVIOUS
  <2>2. h # 0 => \A q \in Seq(STRING) : <<q, h - 1>> \in Q
    BY <1>1, <1>2
  <2>3. 0 \in U
    <3>1. ASSUME NEW p \in Seq(STRING), Len(p) = 0 PROVE <<p, h>> \in Q
      <4>1. p = <<>>
        BY <3>1, EmptySeq
      <4> QED BY <2>2, <4>1
    <3> QED BY <2>1, <3>1
  <2>4. ASSUME NEW n \in U PROVE n + 1 \in U
    <3>1. n \in Nat /\ \A p \in Seq(STRING) : Len(p) = n => <<p, h>> \in Q
      BY <2>1, <2>4
    <3>2. ASSUME NEW p \in Seq(STRING), Len(p) = n + 1 PROVE <<p, h>> \in Q
      <4>1. p # <<>>
        BY <3>1, <3>2, EmptySeq
      <4>2. Front(p) \in Seq(STRING) /\ Len(Front(p)) = n
        BY <3>1, <3>2, <4>1, WithoutLast
      <4> QED BY <2>2, <3>1, <4>2
    <3>3. n + 1 \in Nat
      BY <3>1
    <3> QED BY <2>1, <3>2, <3>3
  <2>5. U = Nat
    BY <2>1, <2>3, <2>4, NaturalInduction
  <2>6. ASSUME NEW p \in Seq(STRING) PROVE <<p, h>> \in Q
    <3>1. Len(p) \in U
      BY <2>5, LenProperties
    <3> QED BY <2>1, <3>1
  <2> QED BY <1>1, <2>6
<1>3. 0 \in T
  BY <1>2
<1>4. ASSUME NEW h \in T PROVE h + 1 \in T
  <2>1. h \in Nat /\ h + 1 \in Nat /\ (h + 1) - 1 = h
    BY <1>1
  <2> QED BY <1>2, <1>4, <2>1
<1>5. T = Nat
  BY <1>1, <1>3, <1>4, NaturalInduction
<1> QED BY <1>1, <1>5

\* One name more, case by case: dir is where the names before it lead, and q what it
\* names there.
StepTells(p, h) ==
  \E dir, q, found :
    /\ dir = At[<<Front(p), h>>] /\ q = Append(dir, Last(p)) /\ found = At[<<p, h>>]
    /\ \/ (dir \notin DOMAIN fs \/ fs[dir].type # "dir") /\ found = Gone
       \/ /\ dir \in DOMAIN fs /\ fs[dir].type = "dir"
          /\ \/ (q \notin DOMAIN fs \/ fs[q].type # "link") /\ found = q
             \/ q \in DOMAIN fs /\ fs[q].type = "link" /\ h = 0 /\ found = Gone
             \/ /\ q \in DOMAIN fs /\ fs[q].type = "link" /\ h # 0
                /\ found = At[<<fs[q].to, h - 1>>]

\* A lookup goes one name at a time.
LEMMA LookupStep ==
  ASSUME IsTree(fs), NEW p \in Seq(STRING), p # <<>>, NEW h \in Nat
  PROVE  StepTells(p, h)
<1>1. Walks(At)
  BY LookupsWalk
<1>2. PICK dir, q, found :
        dir = At[<<Front(p), h>>] /\ q = Append(dir, Last(p)) /\ found = At[<<p, h>>]
  OBVIOUS
<1>3. found = Walked(dir, Last(p), h, At)
  BY <1>1, <1>2 DEF Walks
<1>4. \/ (dir \notin DOMAIN fs \/ fs[dir].type # "dir") /\ found = Gone
      \/ /\ dir \in DOMAIN fs /\ fs[dir].type = "dir"
         /\ \/ (q \notin DOMAIN fs \/ fs[q].type # "link") /\ found = q
            \/ q \in DOMAIN fs /\ fs[q].type = "link" /\ h = 0 /\ found = Gone
            \/ /\ q \in DOMAIN fs /\ fs[q].type = "link" /\ h # 0
               /\ found = At[<<fs[q].to, h - 1>>]
  BY <1>2, <1>3 DEF Walked, Step
<1> QED BY <1>2, <1>4 DEF StepTells

LEMMA RootFound ==
  ASSUME IsTree(fs), NEW h \in Nat
  PROVE  At[<<(<<>>), h>>] = <<>>
BY LookupsWalk, EmptySeq DEF Walks

\* Lookups end in names.
LEMMA LookupsAreNames ==
  ASSUME IsTree(fs)
  PROVE  \A p \in Seq(STRING), h \in Nat : At[<<p, h>>] \in Seq(STRING)
<1>1. PICK Q : Q = {x \in Seq(STRING) \X Nat : At[x] \in Seq(STRING)}
  OBVIOUS
<1>2. \A p \in Seq(STRING), h \in Nat : <<p, h>> \in Q <=> At[<<p, h>>] \in Seq(STRING)
  BY <1>1
<1>3. ASSUME NEW p \in Seq(STRING), NEW h \in Nat,
             h # 0 => \A q \in Seq(STRING) : <<q, h - 1>> \in Q,
             p # <<>> => <<Front(p), h>> \in Q
      PROVE  <<p, h>> \in Q
  <2>1. CASE p = <<>>
    BY <1>2, <2>1, RootFound
  <2>2. CASE p # <<>>
    <3>1. Front(p) \in Seq(STRING) /\ Last(p) \in STRING
      BY <2>2, WithoutLast
    <3>2. PICK dir, q, found :
            /\ dir = At[<<Front(p), h>>] /\ q = Append(dir, Last(p)) /\ found = At[<<p, h>>]
            /\ \/ (dir \notin DOMAIN fs \/ fs[dir].type # "dir") /\ found = Gone
               \/ /\ dir \in DOMAIN fs /\ fs[dir].type = "dir"
                  /\ \/ (q \notin DOMAIN fs \/ fs[q].type # "link") /\ found = q
                     \/ q \in DOMAIN fs /\ fs[q].type = "link" /\ h = 0 /\ found = Gone
                     \/ /\ q \in DOMAIN fs /\ fs[q].type = "link" /\ h # 0
                        /\ found = At[<<fs[q].to, h - 1>>]
      BY <2>2, LookupStep DEF StepTells
    <3>3. dir \in Seq(STRING)
      BY <1>2, <1>3, <2>2, <3>1, <3>2
    <3>4. q \in Seq(STRING)
      BY <3>1, <3>2, <3>3, AppendProperties
    <3>5. \/ found = Gone \/ found = q
          \/ q \in DOMAIN fs /\ fs[q].type = "link" /\ h # 0
                   /\ found = At[<<fs[q].to, h - 1>>]
      BY <3>2
    <3>6. ASSUME q \in DOMAIN fs, fs[q].type = "link", h # 0
          PROVE  At[<<fs[q].to, h - 1>>] \in Seq(STRING)
      <4>1. fs[q].to \in Seq(STRING) /\ h - 1 \in Nat
        BY <3>6 DEF IsTree
      <4> QED BY <1>2, <1>3, <3>6, <4>1
    <3>7. found \in Seq(STRING)
      BY <3>4, <3>5, <3>6, Sentinels
    <3> QED BY <1>2, <3>2, <3>7
  <2> QED BY <2>1, <2>2
<1>4. \A p \in Seq(STRING), h \in Nat : <<p, h>> \in Q
  BY <1>3, LookupInduction
<1> QED BY <1>2, <1>4

\* An entry that is reached through directories alone.
Stands(t, p) ==
  /\ p \in Seq(STRING)
  /\ \A i \in 0 .. Len(p) :
       /\ SubSeq(p, 1, i) \in DOMAIN t /\ t[SubSeq(p, 1, i)].type # "link"
       /\ i < Len(p) => t[SubSeq(p, 1, i)].type = "dir"

LEMMA RootStands == ASSUME IsTree(fs) PROVE Stands(fs, <<>>)
<1>1. <<>> \in Seq(STRING) /\ Len(<<>>) = 0
  BY EmptySeq
<1>2. \A i \in 0 .. 0 : i = 0 /\ SubSeq(<<>>, 1, i) = <<>>
  BY SubSeqEmpty
<1> QED BY <1>1, <1>2 DEF Stands, IsTree

LEMMA StandingTells ==
  ASSUME NEW p, Stands(fs, p)
  PROVE  p \in Seq(STRING) /\ p \in DOMAIN fs /\ fs[p].type # "link"
<1>1. p \in Seq(STRING) /\ Len(p) \in 0 .. Len(p)
  BY LenProperties DEF Stands
<1>2. SubSeq(p, 1, Len(p)) = p
  BY <1>1, SubSeqFull
<1> QED BY <1>1, <1>2 DEF Stands

\* One name more, unless it is a link.
LEMMA OneFurther ==
  ASSUME NEW dir, Stands(fs, dir), fs[dir].type = "dir", NEW e \in STRING,
         NEW q, q = Append(dir, e), q \in DOMAIN fs, fs[q].type # "link"
  PROVE  Stands(fs, q)
<1>1. dir \in Seq(STRING) /\ Len(dir) \in Nat
  BY LenProperties DEF Stands
<1>2. /\ q \in Seq(STRING) /\ Len(q) = Len(dir) + 1
      /\ \A i \in 0 .. Len(dir) : SubSeq(q, 1, i) = SubSeq(dir, 1, i)
  BY <1>1, OneMore, AppendProperties
<1>3. SubSeq(q, 1, Len(q)) = q /\ SubSeq(dir, 1, Len(dir)) = dir
  BY <1>1, <1>2, SubSeqFull
<1>4. ASSUME NEW i \in 0 .. Len(q)
      PROVE  /\ SubSeq(q, 1, i) \in DOMAIN fs /\ fs[SubSeq(q, 1, i)].type # "link"
             /\ i < Len(q) => fs[SubSeq(q, 1, i)].type = "dir"
  <2>1. CASE i = Len(q)
    <3>1. SubSeq(q, 1, i) = q
      BY <1>3, <2>1
    <3>2. ~(i < Len(q))
      BY <1>1, <1>2, <2>1
    <3> QED BY <3>1, <3>2
  <2>2. CASE i = Len(dir)
    <3>1. SubSeq(q, 1, i) = dir
      BY <1>1, <1>2, <1>3, <2>2
    <3> QED BY <3>1, StandingTells
  <2>3. CASE i \in 0 .. Len(dir) /\ i < Len(dir)
    <3>1. SubSeq(q, 1, i) = SubSeq(dir, 1, i)
      BY <1>2, <2>3
    <3> QED BY <2>3, <3>1 DEF Stands
  <2> QED BY <1>1, <1>2, <2>1, <2>2, <2>3
<1> QED BY <1>2, <1>4 DEF Stands

\* What is found stands.
LEMMA FoundStands ==
  ASSUME IsTree(fs)
  PROVE  \A p \in Seq(STRING), h \in Nat : At[<<p, h>>] \in DOMAIN fs => Stands(fs, At[<<p, h>>])
<1>1. PICK Q : Q = {x \in Seq(STRING) \X Nat : At[x] \in DOMAIN fs => Stands(fs, At[x])}
  OBVIOUS
<1>2. \A p \in Seq(STRING), h \in Nat :
        <<p, h>> \in Q <=> (At[<<p, h>>] \in DOMAIN fs => Stands(fs, At[<<p, h>>]))
  BY <1>1
<1>3. ASSUME NEW p \in Seq(STRING), NEW h \in Nat,
             h # 0 => \A q \in Seq(STRING) : <<q, h - 1>> \in Q,
             p # <<>> => <<Front(p), h>> \in Q
      PROVE  <<p, h>> \in Q
  <2>1. CASE p = <<>>
    BY <1>2, <2>1, RootFound, RootStands
  <2>2. CASE p # <<>>
    <3>1. Front(p) \in Seq(STRING) /\ Last(p) \in STRING
      BY <2>2, WithoutLast
    <3>2. PICK dir, q, found :
            /\ dir = At[<<Front(p), h>>] /\ q = Append(dir, Last(p)) /\ found = At[<<p, h>>]
            /\ \/ (dir \notin DOMAIN fs \/ fs[dir].type # "dir") /\ found = Gone
               \/ /\ dir \in DOMAIN fs /\ fs[dir].type = "dir"
                  /\ \/ (q \notin DOMAIN fs \/ fs[q].type # "link") /\ found = q
                     \/ q \in DOMAIN fs /\ fs[q].type = "link" /\ h = 0 /\ found = Gone
                     \/ /\ q \in DOMAIN fs /\ fs[q].type = "link" /\ h # 0
                        /\ found = At[<<fs[q].to, h - 1>>]
      BY <2>2, LookupStep DEF StepTells
    <3>3. dir \in DOMAIN fs => Stands(fs, dir)
      BY <1>2, <1>3, <2>2, <3>1, <3>2
    <3>4. \/ found = Gone
          \/ /\ dir \in DOMAIN fs /\ fs[dir].type = "dir"
             /\ \/ (q \notin DOMAIN fs \/ fs[q].type # "link") /\ found = q
                \/ q \in DOMAIN fs /\ fs[q].type = "link" /\ h # 0
                   /\ found = At[<<fs[q].to, h - 1>>]
      BY <3>2
    <3>5. ASSUME q \in DOMAIN fs, fs[q].type = "link", h # 0, found = At[<<fs[q].to, h - 1>>]
          PROVE  found \in DOMAIN fs => Stands(fs, found)
      <4>1. fs[q].to \in Seq(STRING) /\ h - 1 \in Nat
        BY <3>5 DEF IsTree
      <4> QED BY <1>2, <1>3, <3>5, <4>1
    <3>6. ASSUME dir \in DOMAIN fs, fs[dir].type = "dir",
                 q \notin DOMAIN fs \/ fs[q].type # "link", found = q
          PROVE  found \in DOMAIN fs => Stands(fs, found)
      BY <3>1, <3>2, <3>3, <3>6, OneFurther
    <3>7. found \in DOMAIN fs => Stands(fs, found)
      BY <3>4, <3>5, <3>6 DEF IsTree
    <3> QED BY <1>2, <3>2, <3>7
  <2> QED BY <2>1, <2>2
<1>4. \A p \in Seq(STRING), h \in Nat : <<p, h>> \in Q
  BY <1>3, LookupInduction
<1> QED BY <1>2, <1>4

\* What is found is found with one hop more.
LEMMA FoundLasts ==
  ASSUME IsTree(fs)
  PROVE  \A p \in Seq(STRING), h \in Nat :
           At[<<p, h>>] \in DOMAIN fs => At[<<p, h + 1>>] = At[<<p, h>>]
<1>1. PICK Q : Q = {x \in Seq(STRING) \X Nat :
                    At[x] \in DOMAIN fs => At[<<x[1], x[2] + 1>>] = At[x]}
  OBVIOUS
<1>2. \A p \in Seq(STRING), h \in Nat :
        <<p, h>> \in Q <=> (At[<<p, h>>] \in DOMAIN fs => At[<<p, h + 1>>] = At[<<p, h>>])
  BY <1>1
<1>3. ASSUME NEW p \in Seq(STRING), NEW h \in Nat,
             h # 0 => \A q \in Seq(STRING) : <<q, h - 1>> \in Q,
             p # <<>> => <<Front(p), h>> \in Q
      PROVE  <<p, h>> \in Q
  <2>1. h + 1 \in Nat /\ h + 1 # 0 /\ (h + 1) - 1 = h
    OBVIOUS
  <2>2. CASE p = <<>>
    BY <1>2, <2>1, <2>2, RootFound
  <2>3. CASE p # <<>>
    <3>1. Front(p) \in Seq(STRING) /\ Last(p) \in STRING
      BY <2>3, WithoutLast
    <3>2. PICK dir, q, found :
            /\ dir = At[<<Front(p), h>>] /\ q = Append(dir, Last(p)) /\ found = At[<<p, h>>]
            /\ \/ (dir \notin DOMAIN fs \/ fs[dir].type # "dir") /\ found = Gone
               \/ /\ dir \in DOMAIN fs /\ fs[dir].type = "dir"
                  /\ \/ (q \notin DOMAIN fs \/ fs[q].type # "link") /\ found = q
                     \/ q \in DOMAIN fs /\ fs[q].type = "link" /\ h = 0 /\ found = Gone
                     \/ /\ q \in DOMAIN fs /\ fs[q].type = "link" /\ h # 0
                        /\ found = At[<<fs[q].to, h - 1>>]
      BY <2>3, LookupStep DEF StepTells
    <3>3. dir \in DOMAIN fs => At[<<Front(p), h + 1>>] = dir
      BY <1>2, <1>3, <2>3, <3>1, <3>2
    <3>4. \/ found = Gone
          \/ /\ dir \in DOMAIN fs /\ fs[dir].type = "dir"
             /\ \/ (q \notin DOMAIN fs \/ fs[q].type # "link") /\ found = q
                \/ q \in DOMAIN fs /\ fs[q].type = "link" /\ h # 0
                   /\ found = At[<<fs[q].to, h - 1>>]
      BY <3>2
    <3>5. PICK more : more = At[<<p, h + 1>>]
      OBVIOUS
    <3>6. ASSUME dir \in DOMAIN fs, fs[dir].type = "dir"
          PROVE  \/ (q \notin DOMAIN fs \/ fs[q].type # "link") /\ more = q
                 \/ q \in DOMAIN fs /\ fs[q].type = "link" /\ more = At[<<fs[q].to, h>>]
      <4>1. PICK n : n = h + 1
        OBVIOUS
      <4>2. n \in Nat /\ n # 0 /\ n - 1 = h /\ dir = At[<<Front(p), n>>] /\ more = At[<<p, n>>]
        BY <2>1, <3>3, <3>5, <3>6, <4>1
      <4>3. StepTells(p, n)
        BY <2>3, <4>2, LookupStep
      <4>4. \/ (dir \notin DOMAIN fs \/ fs[dir].type # "dir") /\ more = Gone
            \/ /\ dir \in DOMAIN fs /\ fs[dir].type = "dir"
               /\ \/ (q \notin DOMAIN fs \/ fs[q].type # "link") /\ more = q
                  \/ q \in DOMAIN fs /\ fs[q].type = "link" /\ n = 0 /\ more = Gone
                  \/ /\ q \in DOMAIN fs /\ fs[q].type = "link" /\ n # 0
                     /\ more = At[<<fs[q].to, n - 1>>]
        BY <3>2, <4>2, <4>3 DEF StepTells
      <4> QED BY <3>6, <4>2, <4>4
    <3>7. ASSUME q \in DOMAIN fs, fs[q].type = "link", h # 0, found = At[<<fs[q].to, h - 1>>],
                 found \in DOMAIN fs
          PROVE  At[<<fs[q].to, h>>] = found
      <4>1. fs[q].to \in Seq(STRING) /\ h - 1 \in Nat /\ (h - 1) + 1 = h
        BY <3>7 DEF IsTree
      <4> QED BY <1>2, <1>3, <3>7, <4>1
    <3>8. found \in DOMAIN fs => more = found
      BY <3>4, <3>6, <3>7 DEF IsTree
    <3> QED BY <1>2, <3>2, <3>5, <3>8
  <2> QED BY <2>2, <2>3
<1>4. \A p \in Seq(STRING), h \in Nat : <<p, h>> \in Q
  BY <1>3, LookupInduction
<1> QED BY <1>2, <1>4

\* What stands is found where it is.
LEMMA StandingFound ==
  ASSUME IsTree(fs), NEW p, Stands(fs, p), NEW h \in Nat
  PROVE  At[<<p, h>>] = p
<1>1. p \in Seq(STRING) /\ Len(p) \in Nat
  BY LenProperties DEF Stands
<1>2. PICK T : T = {i \in Nat : i <= Len(p) => At[<<SubSeq(p, 1, i), h>>] = SubSeq(p, 1, i)}
  OBVIOUS
<1>3. 0 \in T
  BY <1>2, RootFound, SubSeqEmpty
<1>4. ASSUME NEW i \in T PROVE i + 1 \in T
  <2>1. i \in Nat /\ i + 1 \in Nat
    BY <1>2
  <2> SUFFICES ASSUME i + 1 <= Len(p)
               PROVE  At[<<SubSeq(p, 1, i + 1), h>>] = SubSeq(p, 1, i + 1)
    BY <1>2, <2>1
  <2>2. PICK dir, q : dir = SubSeq(p, 1, i) /\ q = SubSeq(p, 1, i + 1)
    OBVIOUS
  <2>3. i \in 0 .. Len(p) /\ i + 1 \in 0 .. Len(p) /\ i < Len(p) /\ i \in 0 .. i + 1
    BY <1>1, <2>1
  <2>4. /\ q \in Seq(STRING) /\ Len(q) = i + 1
        /\ \A j \in 0 .. i + 1 : SubSeq(q, 1, j) = SubSeq(p, 1, j)
    BY <1>1, <2>2, <2>3, Beginnings
  <2>5. q # <<>>
    BY <2>1, <2>4, EmptySeq
  <2>6. Front(q) = dir /\ q = Append(dir, Last(q))
    <3>1. Front(q) = SubSeq(q, 1, i)
      BY <2>1, <2>4 DEF Front
    <3> QED BY <2>2, <2>3, <2>4, <2>5, <3>1, WithoutLast
  <2>7. dir \in DOMAIN fs /\ fs[dir].type = "dir" /\ fs[q].type # "link"
    BY <2>2, <2>3 DEF Stands
  <2>8. At[<<dir, h>>] = dir
    <3>1. i <= Len(p) => At[<<SubSeq(p, 1, i), h>>] = SubSeq(p, 1, i)
      BY <1>2, <1>4
    <3>2. i <= Len(p)
      BY <1>1, <2>3
    <3>3. At[<<SubSeq(p, 1, i), h>>] = SubSeq(p, 1, i)
      BY <3>1, <3>2
    <3> QED BY <2>2, <3>3
  <2>9. StepTells(q, h)
    BY <2>4, <2>5, LookupStep
  <2>10. At[<<q, h>>] = q
    BY <2>6, <2>7, <2>8, <2>9 DEF StepTells
  <2> QED BY <2>2, <2>10
<1>5. Len(p) \in T
  BY <1>1, <1>2, <1>3, <1>4, NaturalInduction
<1>6. SubSeq(p, 1, Len(p)) = p
  BY <1>1, SubSeqFull
<1>7. PICK n : n = Len(p)
  OBVIOUS
<1>8. PICK c : c = SubSeq(p, 1, n)
  OBVIOUS
<1>9. At[<<c, h>>] = c
  <2>1. n \in T /\ n <= Len(p)
    BY <1>1, <1>5, <1>7
  <2>2. At[<<SubSeq(p, 1, n), h>>] = SubSeq(p, 1, n)
    BY <1>2, <2>1
  <2> QED BY <1>8, <2>2
<1>10. c = p
  BY <1>6, <1>7, <1>8
<1> QED BY ONLY <1>9, <1>10

LEMMA Hops == MaxDepth \in Nat /\ MaxDepth + 1 \in Nat /\ MaxDepth + 2 = (MaxDepth + 1) + 1
BY HostAssumption

\* What exists has an entry, and so has the directory of what has one.
LEMMA ExistingHasEntry ==
  ASSUME IsTree(fs), NEW p \in Seq(STRING), Exists(p)
  PROVE  EntryExists(p)
<1>1. CASE p = <<>>
  BY <1>1 DEF EntryExists, Entry, IsTree
<1>2. CASE p # <<>>
  <2>1. PICK dir, q, found :
          /\ dir = At[<<Front(p), MaxDepth + 1>>] /\ q = Append(dir, Last(p))
          /\ found = At[<<p, MaxDepth + 1>>]
          /\ \/ (dir \notin DOMAIN fs \/ fs[dir].type # "dir") /\ found = Gone
             \/ /\ dir \in DOMAIN fs /\ fs[dir].type = "dir"
                /\ \/ (q \notin DOMAIN fs \/ fs[q].type # "link") /\ found = q
                   \/ q \in DOMAIN fs
    <3>1. StepTells(p, MaxDepth + 1)
      BY <1>2, Hops, LookupStep
    <3> QED BY <3>1 DEF StepTells
  <2>2. found \in DOMAIN fs
    BY <2>1 DEF Exists, Opened
  <2>3. dir \in DOMAIN fs /\ q \in DOMAIN fs
    BY <2>1, <2>2 DEF IsTree
  <2>4. Entry(p) = q
    BY <1>2, <2>1, <2>3 DEF Entry, Exists, Opened
  <2> QED BY <2>3, <2>4 DEF EntryExists
<1> QED BY <1>1, <1>2

\* An entry is in the directory that the names before it lead to.
LEMMA EntryHasDirectory ==
  ASSUME IsTree(fs), NEW p \in Seq(STRING), p # <<>>, EntryExists(p)
  PROVE  Exists(Front(p)) /\ Entry(p) = Append(Opened(Front(p)), Last(p))
BY DEF EntryExists, Entry, IsTree

\* An entry that cannot be opened is a link, whose end cannot be opened either.
LEMMA DanglingEntry ==
  ASSUME IsTree(fs), NEW p \in Seq(STRING), EntryExists(p), ~Exists(p)
  PROVE  /\ fs[Entry(p)].to \in Seq(STRING)
         /\ At[<<fs[Entry(p)].to, MaxDepth + 1>>] \in DOMAIN fs =>
              At[<<p, MaxDepth + 2>>] \in DOMAIN fs
<1>1. p # <<>>
  BY Hops, RootFound DEF Exists, Opened, IsTree
<1>2. PICK h \in Nat : h = MaxDepth + 1
  BY Hops
<1>3. Exists(Front(p)) /\ Entry(p) = Append(Opened(Front(p)), Last(p)) /\ Entry(p) \in DOMAIN fs
  BY <1>1, EntryHasDirectory DEF EntryExists
<1>4. PICK dir, q, found :
        /\ dir = At[<<Front(p), h>>] /\ q = Append(dir, Last(p)) /\ found = At[<<p, h>>]
        /\ \/ (dir \notin DOMAIN fs \/ fs[dir].type # "dir") /\ found = Gone
           \/ /\ dir \in DOMAIN fs /\ fs[dir].type = "dir"
              /\ \/ (q \notin DOMAIN fs \/ fs[q].type # "link") /\ found = q
                 \/ q \in DOMAIN fs /\ fs[q].type = "link"
  <2>1. StepTells(p, h)
    BY <1>1, LookupStep
  <2> QED BY <2>1 DEF StepTells
<1>5. dir \in DOMAIN fs /\ q = Entry(p) /\ q \in DOMAIN fs /\ found \notin DOMAIN fs
  BY <1>2, <1>3, <1>4 DEF Exists, Opened
<1>6. Front(p) \in Seq(STRING)
  BY <1>1, WithoutLast
<1>7. fs[dir].type = "dir" /\ fs[q].type = "link"
  <2>1. dir \in Seq(STRING)
    BY <1>5 DEF IsTree
  <2>2. q # <<>> /\ Front(q) = dir
    <3>1. PICK e : q = Append(dir, e)
      BY <1>4
    <3> QED BY ONLY <2>1, <3>1, OneMore
  <2>3. fs[dir].type = "dir"
    BY <1>5, <2>2 DEF IsTree
  <2> QED BY <1>4, <1>5, <2>3
<1>8. fs[q].to \in Seq(STRING)
  BY <1>5, <1>7 DEF IsTree
<1>9. ASSUME At[<<fs[q].to, h>>] \in DOMAIN fs PROVE At[<<p, h + 1>>] \in DOMAIN fs
  <2>1. At[<<Front(p), h + 1>>] = dir
    BY <1>4, <1>5, <1>6, FoundLasts
  <2>2. h + 1 \in Nat /\ h + 1 # 0 /\ (h + 1) - 1 = h
    OBVIOUS
  <2>3. StepTells(p, h + 1)
    BY <1>1, <2>2, LookupStep
  <2>4. PICK n : n = h + 1
    OBVIOUS
  <2>5. n # 0 /\ n - 1 = h /\ StepTells(p, n) /\ At[<<Front(p), n>>] = dir
    BY <2>1, <2>2, <2>3, <2>4
  <2>6. At[<<p, n>>] = At[<<fs[q].to, n - 1>>]
    <3>1. q = Append(dir, Last(p))
      BY <1>4
    <3> QED BY <1>5, <1>7, <2>5, <3>1 DEF StepTells
  <2> QED BY <1>9, <2>4, <2>5, <2>6
<1> QED BY <1>2, <1>5, <1>8, <1>9, Hops

-----------------------------------------------------------------------------
(* What a path is resolved to.                                             *)

\* How much of a path there is.
LEMMA DeepestTells ==
  ASSUME IsTree(fs), NEW p \in Seq(STRING)
  PROVE  /\ Deepest(p) \in 0 .. Len(p) /\ EntryExists(SubSeq(p, 1, Deepest(p)))
         /\ \A i \in 0 .. Len(p) : EntryExists(SubSeq(p, 1, i)) => i <= Deepest(p)
<1>1. PICK S : S = {i \in 0 .. Len(p) : EntryExists(SubSeq(p, 1, i))}
  OBVIOUS
<1>2. PICK n \in Nat : n = Len(p)
  BY LenProperties
<1>3. S \subseteq 0 .. n /\ 0 \in S
  <2>1. EntryExists(SubSeq(p, 1, 0))
    <3>1. EntryExists(<<>>)
      BY DEF EntryExists, Entry, IsTree
    <3>2. SubSeq(p, 1, 0) = <<>>
      BY SubSeqEmpty
    <3> QED BY <3>1, <3>2
  <2>2. 0 \in 0 .. n
    OBVIOUS
  <2> QED BY <1>1, <1>2, <2>1, <2>2
<1>4. PICK m \in S : \A y \in S : m >= y
  BY <1>3, GreatestOf
<1>5. Max(S) \in S /\ \A y \in S : Max(S) >= y
  BY <1>4 DEF Max
<1>6. Deepest(p) = Max(S)
  BY <1>1 DEF Deepest, The
<1>7. \A i \in S : i \in Nat
  BY <1>3
<1> QED BY <1>1, <1>5, <1>6, <1>7

\* The first name that is missing tells how much of a path there is.
LEMMA DeepestIs ==
  ASSUME IsTree(fs), NEW p \in Seq(STRING), NEW n \in 0 .. Len(p), EntryExists(SubSeq(p, 1, n)),
         \A i \in n + 1 .. Len(p) : ~EntryExists(SubSeq(p, 1, i))
  PROVE  Deepest(p) = n
<1>1. PICK d : d = Deepest(p)
  OBVIOUS
<1>2. d \in 0 .. Len(p) /\ EntryExists(SubSeq(p, 1, d)) /\ n <= d
  BY <1>1, DeepestTells
<1>3. Len(p) \in Nat
  BY LenProperties
<1>4. ~(d \in n + 1 .. Len(p))
  BY <1>2
<1> QED BY <1>1, <1>2, <1>3, <1>4

\* Where the first name that is missing, if any, leaves what is resolved before it.
Continued(p, lower) ==
  LET n == Deepest(p)
      found == SubSeq(p, 1, n)
      real == IF Exists(found) THEN Opened(found) ELSE lower[fs[Entry(found)].to]
  IN IF real = Refused THEN Refused ELSE real \o SubSeq(p, n + 1, Len(p))

Resolves(f) ==
  \A p \in Seq(STRING), d \in Nat :
    f[<<p, d>>] = IF d > MaxDepth THEN Refused
                  ELSE Continued(p, [q \in Seq(STRING) |-> f[<<q, d + 1>>]])

\* A path is resolved to a path.
LEMMA ContinuedIsPath ==
  ASSUME IsTree(fs), NEW p \in Seq(STRING), NEW lower \in [Seq(STRING) -> Seq(STRING)]
  PROVE  Continued(p, lower) \in Seq(STRING)
<1>1. PICK n : n = Deepest(p)
  OBVIOUS
<1>2. PICK found, rest : found = SubSeq(p, 1, n) /\ rest = SubSeq(p, n + 1, Len(p))
  OBVIOUS
<1>3. n \in 0 .. Len(p) /\ EntryExists(found)
  BY <1>1, <1>2, DeepestTells
<1>4. found \in Seq(STRING) /\ rest \in Seq(STRING)
  BY <1>2, <1>3, Beginnings, RestOf
<1>5. PICK real : real = IF Exists(found) THEN Opened(found) ELSE lower[fs[Entry(found)].to]
  OBVIOUS
<1>6. real \in Seq(STRING)
  <2>1. CASE Exists(found)
    BY <1>4, <1>5, <2>1, Hops, LookupsAreNames DEF Opened
  <2>2. CASE ~Exists(found)
    <3>1. fs[Entry(found)].to \in Seq(STRING)
      BY <1>3, <1>4, <2>2, DanglingEntry
    <3> QED BY <1>5, <2>2, <3>1
  <2> QED BY <2>1, <2>2
<1>7. real \o rest \in Seq(STRING)
  BY <1>4, <1>6, ConcatProperties
<1> QED BY <1>1, <1>2, <1>5, <1>7, Sentinels DEF Continued

\* Only the one target counts.
LEMMA ContinuedAlike ==
  ASSUME IsTree(fs), NEW p \in Seq(STRING), NEW one, NEW other,
         \A q \in Seq(STRING) : one[q] = other[q]
  PROVE  Continued(p, one) = Continued(p, other)
<1>1. PICK found : found = SubSeq(p, 1, Deepest(p))
  OBVIOUS
<1>2. found \in Seq(STRING) /\ EntryExists(found)
  BY <1>1, DeepestTells, Beginnings
<1>3. ~Exists(found) => fs[Entry(found)].to \in Seq(STRING)
  BY <1>2, DanglingEntry
<1>4. (IF Exists(found) THEN Opened(found) ELSE one[fs[Entry(found)].to])
        = IF Exists(found) THEN Opened(found) ELSE other[fs[Entry(found)].to]
  BY <1>3
<1> QED BY <1>1, <1>4 DEF Continued

\* The paths that are resolved, as a recursion over the depth, from MaxDepth down.
LEMMA ResolvesExist ==
  ASSUME IsTree(fs)
  PROVE  \E f : f = [x \in Seq(STRING) \X Nat |-> f[x]] /\ Resolves(f)
<1>1. PICK V : V = [Seq(STRING) -> Seq(STRING)]
  OBVIOUS
<1>2. PICK bottom : bottom = [p \in Seq(STRING) |-> Refused]
  OBVIOUS
<1>3. bottom \in V
  BY <1>1, <1>2, Sentinels
<1>4. PICK g : g = [x \in Nat \X V |-> [p \in Seq(STRING) |-> Continued(p, x[2])]]
  OBVIOUS
<1>5. ASSUME NEW n \in Nat, NEW lower \in V
      PROVE  g[<<n, lower>>] = [p \in Seq(STRING) |-> Continued(p, lower)] /\ g[<<n, lower>>] \in V
  <2>1. g[<<n, lower>>] = [p \in Seq(STRING) |-> Continued(p, lower)]
    <3>1. <<n, lower>> \in Nat \X V
      OBVIOUS
    <3> QED BY <1>4, <3>1
  <2>2. \A p \in Seq(STRING) : Continued(p, lower) \in Seq(STRING)
    BY <1>1, ContinuedIsPath
  <2> QED BY <1>1, <2>1, <2>2
<1>6. g \in [Nat \X V -> V]
  <2>1. ASSUME NEW x \in Nat \X V PROVE g[x] \in V
    <3>1. x[1] \in Nat /\ x[2] \in V /\ x = <<x[1], x[2]>>
      OBVIOUS
    <3>2. PICK n \in Nat, lower \in V : x = <<n, lower>>
      BY <3>1
    <3> QED BY <1>5, <3>2
  <2> QED BY <1>4, <2>1
<1>7. PICK rows \in [Nat -> V] : GoesOn(rows, bottom, g)
  BY ONLY <1>3, <1>6, RecursionGoesOn
<1>8. rows[0] = bottom /\ \A n \in Nat : rows[n + 1] = [p \in Seq(STRING) |-> Continued(p, rows[n])]
  <2>1. \A n \in Nat : rows[n] \in V
    BY <1>7
  <2> QED BY <1>5, <1>7, <2>1 DEF GoesOn
<1>9. PICK left : left = [d \in Nat |-> IF d > MaxDepth THEN 0 ELSE MaxDepth + 1 - d]
  OBVIOUS
<1>10. PICK f : f = [x \in Seq(STRING) \X Nat |-> rows[left[x[2]]][x[1]]]
  OBVIOUS
<1>11. ASSUME NEW p \in Seq(STRING), NEW d \in Nat PROVE f[<<p, d>>] = rows[left[d]][p]
  BY <1>10
<1>12. ASSUME NEW p \in Seq(STRING), NEW d \in Nat
       PROVE  f[<<p, d>>] = IF d > MaxDepth THEN Refused
                            ELSE Continued(p, [q \in Seq(STRING) |-> f[<<q, d + 1>>]])
  <2>1. CASE d > MaxDepth
    <3>1. left[d] = 0
      BY <1>9, <2>1
    <3>2. f[<<p, d>>] = rows[left[d]][p]
      BY <1>11
    <3> QED BY <1>2, <1>8, <2>1, <3>1, <3>2
  <2>2. CASE ~(d > MaxDepth)
    <3>1. PICK n \in Nat : n = left[d + 1] /\ left[d] = n + 1 /\ d + 1 \in Nat
      <4>1. d + 1 \in Nat /\ MaxDepth + 1 - d \in Nat
        BY <2>2, Hops
      <4>2. left[d] = MaxDepth + 1 - d
        BY <1>9, <2>2
      <4>3. left[d + 1] = MaxDepth - d
        BY <1>9, <2>2, <4>1, Hops
      <4>4. MaxDepth - d \in Nat /\ MaxDepth + 1 - d = (MaxDepth - d) + 1
        BY <2>2, Hops
      <4> QED BY <4>1, <4>2, <4>3, <4>4
    <3>2. f[<<p, d>>] = Continued(p, rows[n])
      <4>1. f[<<p, d>>] = rows[n + 1][p]
        BY <1>11, <3>1
      <4>2. rows[n + 1] = [q \in Seq(STRING) |-> Continued(q, rows[n])]
        BY <1>8
      <4> QED BY <4>1, <4>2
    <3>3. PICK lower : lower = [q \in Seq(STRING) |-> f[<<q, d + 1>>]]
      OBVIOUS
    <3>4. \A q \in Seq(STRING) : rows[n][q] = lower[q]
      BY <1>11, <3>1, <3>3
    <3>5. Continued(p, rows[n]) = Continued(p, lower)
      BY <3>4, ContinuedAlike
    <3> QED BY <2>2, <3>2, <3>3, <3>5
  <2> QED BY <2>1, <2>2
<1>13. f = [x \in Seq(STRING) \X Nat |-> f[x]]
  BY <1>10
<1> QED BY <1>12, <1>13 DEF Resolves

\* What resolveStrict() is, one dangling link at a time.
LEMMA ResolutionResolves ==
  ASSUME IsTree(fs)
  PROVE  Resolves(Resolve)
<1> DEFINE Follows(f, x) ==
      IF x[2] > MaxDepth THEN Refused
      ELSE Beyond(IF Exists(SubSeq(x[1], 1, Deepest(x[1])))
                  THEN Opened(SubSeq(x[1], 1, Deepest(x[1])))
                  ELSE f[<<fs[Entry(SubSeq(x[1], 1, Deepest(x[1])))].to, x[2] + 1>>],
                  SubSeq(x[1], Deepest(x[1]) + 1, Len(x[1])))
<1>1. ASSUME NEW real, NEW rest
      PROVE  Beyond(real, rest) = IF real = Refused THEN Refused ELSE real \o rest
  <2>1. PICK S : S = {IF r = Refused THEN r ELSE r \o rest : r \in {real}}
    OBVIOUS
  <2>2. \A y : y \in S <=> y = IF real = Refused THEN real ELSE real \o rest
    BY <2>1
  <2>3. The(S) \in S
    BY <2>2 DEF The
  <2> QED BY <2>1, <2>2, <2>3 DEF Beyond
<1>2. ASSUME NEW f, NEW p \in Seq(STRING), NEW d
      PROVE  Follows(f, <<p, d>>) = IF d > MaxDepth THEN Refused
                                    ELSE Continued(p, [q \in Seq(STRING) |-> f[<<q, d + 1>>]])
  <2>1. PICK found, rest :
          found = SubSeq(p, 1, Deepest(p)) /\ rest = SubSeq(p, Deepest(p) + 1, Len(p))
    OBVIOUS
  <2>2. found \in Seq(STRING) /\ EntryExists(found)
    BY <2>1, DeepestTells, Beginnings
  <2>3. PICK lower : lower = [q \in Seq(STRING) |-> f[<<q, d + 1>>]]
    OBVIOUS
  <2>4. ~Exists(found) => lower[fs[Entry(found)].to] = f[<<fs[Entry(found)].to, d + 1>>]
    BY <2>2, <2>3, DanglingEntry
  <2>5. PICK real :
          real = IF Exists(found) THEN Opened(found) ELSE f[<<fs[Entry(found)].to, d + 1>>]
    OBVIOUS
  <2>6. Continued(p, lower) = IF real = Refused THEN Refused ELSE real \o rest
    <3>1. real = IF Exists(found) THEN Opened(found) ELSE lower[fs[Entry(found)].to]
      BY <2>4, <2>5
    <3> QED BY <2>1, <3>1 DEF Continued
  <2>7. Follows(f, <<p, d>>) = IF d > MaxDepth THEN Refused ELSE Beyond(real, rest)
    BY <2>1, <2>5
  <2> HIDE DEF Follows
  <2> QED BY <1>1, <2>3, <2>6, <2>7
<1> HIDE DEF Follows
<1>3. PICK f : f = [x \in Seq(STRING) \X Nat |-> f[x]] /\ Resolves(f)
  BY ResolvesExist
<1>4. f = [x \in Seq(STRING) \X Nat |-> Follows(f, x)]
  <2>1. ASSUME NEW x \in Seq(STRING) \X Nat PROVE f[x] = Follows(f, x)
    <3>1. x[1] \in Seq(STRING) /\ x[2] \in Nat /\ x = <<x[1], x[2]>>
      OBVIOUS
    <3>2. PICK p \in Seq(STRING), d \in Nat : x = <<p, d>>
      BY <3>1
    <3>3. f[<<p, d>>] = Follows(f, <<p, d>>)
      <4>1. Resolves(f)
        BY <1>3
      <4>2. f[<<p, d>>] = IF d > MaxDepth THEN Refused
                          ELSE Continued(p, [q \in Seq(STRING) |-> f[<<q, d + 1>>]])
        BY ONLY <4>1, p \in Seq(STRING), d \in Nat DEF Resolves
      <4> QED BY <1>2, <4>2
    <3> QED BY <3>2, <3>3
  <2> QED BY <1>3, <2>1
<1>5. Resolve = [x \in Seq(STRING) \X Nat |-> Follows(Resolve, x)]
  <2>1. Resolve = CHOOSE g : g = [x \in Seq(STRING) \X Nat |-> Follows(g, x)]
    BY DEF Resolve, Follows
  <2> QED BY <1>4, <2>1
<1>6. ASSUME NEW p \in Seq(STRING), NEW d \in Nat
      PROVE  Resolve[<<p, d>>] = IF d > MaxDepth THEN Refused
                                 ELSE Continued(p, [q \in Seq(STRING) |-> Resolve[<<q, d + 1>>]])
  <2>1. <<p, d>> \in Seq(STRING) \X Nat
    OBVIOUS
  <2>2. Resolve[<<p, d>>] = Follows(Resolve, <<p, d>>)
    BY <1>5, <2>1
  <2> QED BY <1>2, <2>2
<1> QED BY <1>6 DEF Resolves

\* A path whose first names lead through directories, and whose next name is free.
Missing(t, p) ==
  /\ p \in Seq(STRING)
  /\ \E n \in 0 .. Len(p) : /\ n < Len(p) /\ Stands(t, SubSeq(p, 1, n))
                            /\ SubSeq(p, 1, n + 1) \notin DOMAIN t

\* A path without links in it.
Settled(t, p) == Stands(t, p) \/ Missing(t, p)

\* What comes after what is missing is missing too.
LEMMA StaysMissing ==
  ASSUME NEW p, Missing(fs, p), NEW rest \in Seq(STRING), NEW q, q = p \o rest
  PROVE  Missing(fs, q)
<1>1. p \in Seq(STRING) /\ Len(p) \in Nat /\ Len(rest) \in Nat
  BY LenProperties DEF Missing
<1>2. PICK n \in 0 .. Len(p) : /\ n < Len(p) /\ Stands(fs, SubSeq(p, 1, n))
                               /\ SubSeq(p, 1, n + 1) \notin DOMAIN fs
  BY DEF Missing
<1>3. /\ q \in Seq(STRING) /\ Len(q) = Len(p) + Len(rest)
      /\ \A i \in 0 .. Len(p) : SubSeq(q, 1, i) = SubSeq(p, 1, i)
  BY <1>1, JoinedBeginnings
<1>4. n \in 0 .. Len(p) /\ n + 1 \in 0 .. Len(p) /\ n \in 0 .. Len(q) /\ n < Len(q)
  BY <1>1, <1>2, <1>3
<1>5. Stands(fs, SubSeq(q, 1, n)) /\ SubSeq(q, 1, n + 1) \notin DOMAIN fs
  BY <1>2, <1>3, <1>4
<1> QED BY <1>3, <1>4, <1>5 DEF Missing

\* The names after the last one that there is are missing.
LEMMA MissingBeyond ==
  ASSUME NEW c, Stands(fs, c), NEW rest \in Seq(STRING), rest # <<>>,
         Append(c, rest[1]) \notin DOMAIN fs, NEW q, q = c \o rest
  PROVE  Missing(fs, q)
<1>1. c \in Seq(STRING) /\ Len(c) \in Nat /\ Len(rest) \in Nat \ {0}
  BY LenProperties, EmptySeq DEF Stands
<1>2. /\ q \in Seq(STRING) /\ Len(q) = Len(c) + Len(rest)
      /\ SubSeq(q, 1, Len(c) + 1) = Append(c, rest[1])
      /\ \A i \in 0 .. Len(c) : SubSeq(q, 1, i) = SubSeq(c, 1, i)
  BY <1>1, JoinedBeginnings
<1>3. SubSeq(q, 1, Len(c)) = c
  <2>1. Len(c) \in 0 .. Len(c)
    BY <1>1
  <2> QED BY <1>1, <1>2, <2>1, SubSeqFull
<1>4. PICK n : n = Len(c)
  OBVIOUS
<1>5. n \in 0 .. Len(q) /\ n < Len(q)
  BY <1>1, <1>2, <1>4
<1>6. Stands(fs, SubSeq(q, 1, n)) /\ SubSeq(q, 1, n + 1) \notin DOMAIN fs
  BY <1>2, <1>3, <1>4
<1> QED BY <1>2, <1>5, <1>6 DEF Missing

\* What stands can be opened where it is, and is there from end to end.
LEMMA StandingOpens ==
  ASSUME IsTree(fs), NEW p, Stands(fs, p)
  PROVE  Opened(p) = p /\ Exists(p) /\ EntryExists(p) /\ Deepest(p) = Len(p)
<1>1. p \in Seq(STRING) /\ p \in DOMAIN fs /\ Len(p) \in Nat /\ SubSeq(p, 1, Len(p)) = p
  BY StandingTells, LenProperties, SubSeqFull
<1>2. Opened(p) = p
  BY Hops, StandingFound DEF Opened
<1>3. Exists(p)
  BY <1>1, <1>2 DEF Exists
<1>4. EntryExists(p)
  BY <1>1, <1>3, ExistingHasEntry
<1>5. PICK n : n = Len(p)
  OBVIOUS
<1>6. n \in 0 .. Len(p) /\ EntryExists(SubSeq(p, 1, n))
      /\ \A i \in n + 1 .. Len(p) : ~EntryExists(SubSeq(p, 1, i))
  <2>1. n \in 0 .. Len(p) /\ \A i : ~(i \in n + 1 .. Len(p))
    BY <1>1, <1>5
  <2> QED BY <1>1, <1>4, <1>5, <2>1
<1>7. Deepest(p) = n
  BY <1>1, <1>6, DeepestIs
<1> QED BY <1>2, <1>3, <1>4, <1>5, <1>7

\* What is missing cannot be opened, and what is there of it is where it is.
LEMMA MissingTells ==
  ASSUME IsTree(fs), NEW p, Missing(fs, p)
  PROVE  ~Exists(p) /\ Stands(fs, SubSeq(p, 1, Deepest(p)))
<1>1. p \in Seq(STRING) /\ Len(p) \in Nat
  BY LenProperties DEF Missing
<1>2. PICK n \in Nat : /\ n < Len(p) /\ Stands(fs, SubSeq(p, 1, n))
                       /\ SubSeq(p, 1, n + 1) \notin DOMAIN fs
  BY DEF Missing
<1>3. PICK T : T = {j \in Nat : n + 1 + j <= Len(p) => ~EntryExists(SubSeq(p, 1, n + 1 + j))}
  OBVIOUS
<1>4. ASSUME NEW i \in 1 .. Len(p)
      PROVE  /\ SubSeq(p, 1, i) \in Seq(STRING) /\ SubSeq(p, 1, i) # <<>>
             /\ Front(SubSeq(p, 1, i)) = SubSeq(p, 1, i - 1)
             /\ SubSeq(p, 1, i) = Append(SubSeq(p, 1, i - 1), Last(SubSeq(p, 1, i)))
  <2>1. PICK q : q = SubSeq(p, 1, i)
    OBVIOUS
  <2>2. i \in 0 .. Len(p) /\ i - 1 \in 0 .. i /\ i \in Nat \ {0}
    BY <1>1
  <2>3. q \in Seq(STRING) /\ Len(q) = i /\ SubSeq(q, 1, i - 1) = SubSeq(p, 1, i - 1)
    BY <1>1, <2>1, <2>2, Beginnings
  <2>4. q # <<>> /\ Front(q) = SubSeq(p, 1, i - 1)
    BY <2>2, <2>3, EmptySeq DEF Front
  <2>5. q = Append(Front(q), Last(q))
    BY <2>3, <2>4, WithoutLast
  <2> QED BY <2>1, <2>3, <2>4, <2>5
<1>5. 0 \in T
  <2>1. PICK i \in 1 .. Len(p) : i = n + 1 /\ i - 1 = n
    BY <1>1, <1>2
  <2>2. PICK q : q = SubSeq(p, 1, i)
    OBVIOUS
  <2>3. PICK c : c = SubSeq(p, 1, n)
    OBVIOUS
  <2>4. q \in Seq(STRING) /\ q # <<>> /\ Front(q) = c /\ q = Append(c, Last(q))
      /\ q \notin DOMAIN fs
    BY <1>2, <1>4, <2>1, <2>2, <2>3
  <2>5. Opened(c) = c
    BY <1>2, <2>3, StandingOpens
  <2>6. ~EntryExists(q)
    BY <2>4, <2>5, EntryHasDirectory DEF EntryExists
  <2>7. ~EntryExists(SubSeq(p, 1, n + 1 + 0))
    BY <1>2, <2>1, <2>2, <2>6
  <2> QED BY <1>3, <2>7
<1>6. ASSUME NEW j \in T PROVE j + 1 \in T
  <2>1. j \in Nat /\ j + 1 \in Nat
    BY <1>3
  <2> SUFFICES ASSUME n + 1 + (j + 1) <= Len(p) PROVE ~EntryExists(SubSeq(p, 1, n + 1 + (j + 1)))
    BY <1>3, <2>1
  <2>2. PICK i \in 1 .. Len(p) : i = n + 1 + (j + 1) /\ i - 1 = n + 1 + j
                               /\ i - 1 <= Len(p) /\ i - 1 \in 0 .. Len(p)
    BY <1>1, <1>2, <2>1
  <2>3. PICK q, c : q = SubSeq(p, 1, i) /\ c = SubSeq(p, 1, i - 1)
    OBVIOUS
  <2>4. q \in Seq(STRING) /\ q # <<>> /\ Front(q) = c
    BY <1>4, <2>3
  <2>5. c \in Seq(STRING)
    BY <1>1, <2>2, <2>3, Beginnings
  <2>6. ~EntryExists(c)
    <3>1. n + 1 + j <= Len(p) => ~EntryExists(SubSeq(p, 1, n + 1 + j))
      BY <1>3, <1>6
    <3> QED BY <2>2, <2>3, <3>1
  <2>7. ~EntryExists(q)
    BY <2>4, <2>5, <2>6, EntryHasDirectory, ExistingHasEntry
  <2> QED BY <2>2, <2>3, <2>7
<1>7. T = Nat
  <2>1. T \subseteq Nat
    BY <1>3
  <2> QED BY <1>5, <1>6, <2>1, NaturalInduction
<1>8. ASSUME NEW i \in n + 1 .. Len(p) PROVE ~EntryExists(SubSeq(p, 1, i))
  <2>1. PICK j \in Nat : i = n + 1 + j
    <3>1. i - (n + 1) \in Nat /\ i = n + 1 + (i - (n + 1))
      BY <1>1, <1>2
    <3> QED BY <3>1
  <2>2. j \in T /\ n + 1 + j <= Len(p)
    BY <1>1, <1>7, <2>1
  <2> QED BY <1>3, <2>1, <2>2
<1>9. ~Exists(p)
  <2>1. Len(p) \in n + 1 .. Len(p) /\ SubSeq(p, 1, Len(p)) = p
    BY <1>1, <1>2, SubSeqFull
  <2> QED BY <1>1, <1>8, <2>1, ExistingHasEntry
<1>10. Deepest(p) = n
  <2>1. n \in 0 .. Len(p)
    BY <1>1, <1>2
  <2>2. EntryExists(SubSeq(p, 1, n))
    BY <1>2, StandingOpens
  <2> QED BY <1>1, <1>8, <2>1, <2>2, DeepestIs
<1> QED BY <1>2, <1>9, <1>10

\* What can be opened following one link more than the kernel does, the kernel opens.
OpensWhatItCan ==
  \A p \in Seq(STRING) : At[<<p, MaxDepth + 2>>] \in DOMAIN fs => Exists(p)

\* What a path is resolved to has no links in it.
ResolvesTo(p, r) ==
  r # Refused => \/ Exists(p) /\ Stands(fs, r)
                 \/ ~Exists(p) /\ Missing(fs, r)

\* So it is if the end of a dangling link is resolved to what has no links in it.
LEMMA ContinuedSettles ==
  ASSUME IsTree(fs), OpensWhatItCan, NEW p \in Seq(STRING), NEW lower,
         \A q \in Seq(STRING) : ResolvesTo(q, lower[q])
  PROVE  ResolvesTo(p, Continued(p, lower))
<1>1. PICK n \in 0 .. Len(p) : /\ n = Deepest(p) /\ EntryExists(SubSeq(p, 1, n))
                               /\ \A i \in 0 .. Len(p) : EntryExists(SubSeq(p, 1, i)) => i <= n
  BY DeepestTells
<1>2. PICK found, rest : found = SubSeq(p, 1, n) /\ rest = SubSeq(p, n + 1, Len(p))
  OBVIOUS
<1>3. /\ found \in Seq(STRING) /\ EntryExists(found) /\ Len(p) \in Nat /\ n \in Nat
      /\ rest \in Seq(STRING) /\ Len(rest) = Len(p) - n /\ (n < Len(p) => rest[1] = p[n + 1])
  BY <1>1, <1>2, Beginnings, RestOf, LenProperties
<1>4. PICK real : real = IF Exists(found) THEN Opened(found) ELSE lower[fs[Entry(found)].to]
  OBVIOUS
<1>5. Continued(p, lower) = IF real = Refused THEN Refused ELSE real \o rest
  BY <1>1, <1>2, <1>4 DEF Continued
<1>6. PICK r : r = real \o rest
  OBVIOUS
<1>7. CASE Exists(found)
  <2>1. Stands(fs, real)
    BY <1>3, <1>4, <1>7, Hops, FoundStands DEF Exists, Opened
  <2>2. real \in Seq(STRING)
    BY <2>1 DEF Stands
  <2>3. CASE n = Len(p)
    <3>1. found = p
      BY <1>2, <2>3, SubSeqFull
    <3>2. rest = <<>>
      BY <1>3, <2>3, EmptySeq
    <3>3. r = real
      BY <1>6, <2>2, <3>2, ConcatEmptySeq
    <3> QED BY <1>5, <1>6, <1>7, <2>1, <3>1, <3>3 DEF ResolvesTo
  <2>4. CASE n < Len(p)
    <3>1. rest # <<>> /\ n + 1 \in 0 .. Len(p) /\ ~(n + 1 <= n)
      BY <1>3, <2>4, EmptySeq
    <3>2. PICK q : q = SubSeq(p, 1, n + 1)
      OBVIOUS
    <3>3. q \in Seq(STRING) /\ Len(q) = n + 1 /\ q[n + 1] = p[n + 1] /\ SubSeq(q, 1, n) = found
      <4>1. n + 1 \in 1 .. n + 1 /\ n \in 0 .. n + 1
        BY <1>3
      <4> QED BY <1>2, <3>1, <3>2, <4>1, Beginnings
    <3>4. q # <<>> /\ Front(q) = found /\ Last(q) = rest[1]
      BY <1>3, <2>4, <3>3, EmptySeq DEF Front, Last
    <3>5. ~EntryExists(q)
      BY <1>1, <3>1, <3>2
    <3>6. Append(real, rest[1]) \notin DOMAIN fs
      BY <1>4, <1>7, <3>4, <3>5 DEF EntryExists, Entry
    <3>7. Missing(fs, r)
      BY <1>3, <1>6, <2>1, <3>1, <3>6, MissingBeyond
    <3>8. ~Exists(p)
      <4>1. SubSeq(p, 1, Len(p)) = p /\ Len(p) \in 0 .. Len(p) /\ ~(Len(p) <= n)
        BY <1>3, <2>4, SubSeqFull
      <4>2. ~EntryExists(p)
        BY <1>1, <4>1
      <4> QED BY <4>2, ExistingHasEntry
    <3> QED BY <1>5, <1>6, <3>7, <3>8 DEF ResolvesTo
  <2> QED BY <1>3, <2>3, <2>4
<1>8. CASE ~Exists(found)
  <2>1. PICK to : to = fs[Entry(found)].to
    OBVIOUS
  <2>2. to \in Seq(STRING) /\ ~Exists(to)
    <3>1. to \in Seq(STRING)
      BY <1>3, <1>8, <2>1, DanglingEntry
    <3>2. At[<<to, MaxDepth + 1>>] \in DOMAIN fs => At[<<found, MaxDepth + 2>>] \in DOMAIN fs
      BY <1>3, <1>8, <2>1, DanglingEntry
    <3> QED BY <1>3, <1>8, <3>1, <3>2 DEF OpensWhatItCan, Exists, Opened
  <2>3. real # Refused => Missing(fs, real)
    BY <1>4, <1>8, <2>1, <2>2 DEF ResolvesTo
  <2>4. real # Refused => Missing(fs, r)
    BY <1>3, <1>6, <2>3, StaysMissing
  <2>5. real # Refused => ~Exists(p)
    <3>1. ASSUME Exists(p) PROVE FALSE
      <4>1. Len(p) \in 0 .. Len(p) /\ SubSeq(p, 1, Len(p)) = p
        BY <1>3, SubSeqFull
      <4>2. EntryExists(p)
        BY <3>1, ExistingHasEntry
      <4>3. Len(p) <= n
        BY <1>1, <4>1, <4>2
      <4>4. n = Len(p)
        BY <1>3, <4>3
      <4>5. found = p
        BY <1>2, <4>1, <4>4
      <4> QED BY <1>8, <3>1, <4>5
    <3> QED BY <3>1
  <2> QED BY <1>5, <1>6, <2>4, <2>5 DEF ResolvesTo
<1> QED BY <1>7, <1>8

\* The answer of resolveStrict() has no links in it, if there is one.
LEMMA StrictSettles ==
  ASSUME IsTree(fs), OpensWhatItCan, NEW p \in Seq(STRING), Strict(p) # Refused
  PROVE  Settled(fs, Strict(p))
<1>1. Resolves(Resolve)
  BY ResolutionResolves
<1>2. PICK T : T = {k \in Nat : \A d \in Nat : d + k = MaxDepth + 1 =>
                      \A q \in Seq(STRING) : ResolvesTo(q, Resolve[<<q, d>>])}
  OBVIOUS
<1>3. 0 \in T
  <2>1. ASSUME NEW d \in Nat, d + 0 = MaxDepth + 1, NEW q \in Seq(STRING)
        PROVE  ResolvesTo(q, Resolve[<<q, d>>])
    <3>1. d > MaxDepth
      BY <2>1, Hops
    <3>2. Resolve[<<q, d>>] = Refused
      BY <1>1, <3>1 DEF Resolves
    <3> QED BY <3>2 DEF ResolvesTo
  <2> QED BY <1>2, <2>1
<1>4. ASSUME NEW k \in T PROVE k + 1 \in T
  <2>1. k \in Nat /\ k + 1 \in Nat
    BY <1>2
  <2>2. ASSUME NEW d \in Nat, d + (k + 1) = MaxDepth + 1, NEW q \in Seq(STRING)
        PROVE  ResolvesTo(q, Resolve[<<q, d>>])
    <3>1. ~(d > MaxDepth) /\ d + 1 \in Nat /\ (d + 1) + k = MaxDepth + 1
      BY <2>1, <2>2, Hops
    <3>2. PICK lower : lower = [s \in Seq(STRING) |-> Resolve[<<s, d + 1>>]]
      OBVIOUS
    <3>3. Resolve[<<q, d>>] = Continued(q, lower)
      BY <1>1, <3>1, <3>2 DEF Resolves
    <3>4. \A s \in Seq(STRING) : ResolvesTo(s, Resolve[<<s, d + 1>>])
      BY <1>2, <1>4, <3>1
    <3>5. \A s \in Seq(STRING) : ResolvesTo(s, lower[s])
      BY <3>2, <3>4
    <3> QED BY <3>3, <3>5, ContinuedSettles
  <2> QED BY <1>2, <2>1, <2>2
<1>5. T = Nat
  <2>1. T \subseteq Nat
    BY <1>2
  <2> QED BY <1>3, <1>4, <2>1, NaturalInduction
<1>6. ResolvesTo(p, Strict(p))
  <2>1. MaxDepth + 1 \in T /\ 0 + (MaxDepth + 1) = MaxDepth + 1
    BY <1>5, Hops
  <2>2. \A q \in Seq(STRING) : ResolvesTo(q, Resolve[<<q, 0>>])
    BY <1>2, <2>1
  <2> QED BY <2>2 DEF Strict
<1> QED BY <1>6 DEF ResolvesTo, Settled

-----------------------------------------------------------------------------
(* What the guards let pass.                                               *)

\* An entry in a directory whose path has no links in it.
NamesEntry(t, p) == \E dir, e : p = Append(dir, e) /\ Settled(t, dir)

\* A path without links is opened where it is, and made where it is.
LEMMA SettledOpens ==
  ASSUME IsTree(fs), NEW p, Settled(fs, p)
  PROVE  /\ p \in Seq(STRING)
         /\ Exists(p) => Opened(p) = p /\ Stands(fs, p)
         /\ Opened(SubSeq(p, 1, Deepest(p))) \o SubSeq(p, Deepest(p) + 1, Len(p)) = p
<1>1. p \in Seq(STRING)
  BY DEF Settled, Stands, Missing
<1>2. Exists(p) => Opened(p) = p /\ Stands(fs, p)
  BY StandingOpens, MissingTells DEF Settled
<1>3. PICK n \in 0 .. Len(p) : n = Deepest(p)
  BY <1>1, DeepestTells
<1>4. Stands(fs, SubSeq(p, 1, n))
  <2>1. CASE Stands(fs, p)
    <3>1. n = Len(p)
      BY <1>3, <2>1, StandingOpens
    <3> QED BY <1>1, <2>1, <3>1, SubSeqFull
  <2>2. CASE Missing(fs, p)
    BY <1>3, <2>2, MissingTells
  <2> QED BY <2>1, <2>2 DEF Settled
<1>5. Opened(SubSeq(p, 1, n)) = SubSeq(p, 1, n)
  BY <1>4, StandingOpens
<1>6. SubSeq(p, 1, n) \o SubSeq(p, n + 1, Len(p)) = p
  BY <1>1, Joining
<1> QED BY <1>1, <1>2, <1>3, <1>5, <1>6

\* Its entry is itself.
LEMMA SettledEntry ==
  ASSUME IsTree(fs), NEW p, NamesEntry(fs, p), Entry(p) # Gone
  PROVE  Entry(p) = p
<1>1. PICK dir, e : p = Append(dir, e) /\ Settled(fs, dir)
  BY DEF NamesEntry
<1>2. dir \in Seq(STRING)
  BY <1>1, SettledOpens
<1>3. p # <<>> /\ Front(p) = dir /\ Last(p) = e
  BY <1>1, <1>2, OneMore
<1>4. Exists(dir) /\ Entry(p) = Append(Opened(dir), e)
  BY <1>3 DEF Entry
<1>5. Opened(dir) = dir
  BY <1>1, <1>4, SettledOpens
<1> QED BY <1>1, <1>4, <1>5

LEMMA ActionPaths ==
  ASSUME NEW a \in Action
  PROVE  a.cwd \in Seq(STRING) /\ a.target \in Seq(STRING) /\ a.to \in Seq(STRING)
BY HostAssumption

\* The directory to run in is the one the permit was issued for.
LEMMA VerifiedCwdTells ==
  ASSUME IsTree(fs), OpensWhatItCan, NEW a \in Action
  PROVE  /\ VerifiedCwd(a) \in Seq(STRING)
         /\ VerifiedCwd(a) \notin {Refused, Nothing} =>
              VerifiedCwd(a) = bound.cwd /\ Settled(fs, bound.cwd)
<1>1. PICK c : c = Strict(a.cwd)
  OBVIOUS
<1>2. c # Refused => Settled(fs, c) /\ c \in Seq(STRING)
  BY <1>1, ActionPaths, StrictSettles, SettledOpens
<1>3. Cwd(a) \in {Nothing, Refused} \/ (Cwd(a) = c /\ c # Refused)
  BY <1>1 DEF Cwd
<1>4. VerifiedCwd(a) \in {Nothing, Refused} \/ (VerifiedCwd(a) = bound.cwd /\ Cwd(a) = bound.cwd)
  BY DEF VerifiedCwd
<1>5. Nothing \in Seq(STRING) /\ Refused \in Seq(STRING)
  BY Sentinels
<1> QED BY <1>2, <1>3, <1>4, <1>5

LEMMA AbsoluteIsPath ==
  ASSUME NEW p \in Seq(STRING), NEW c \in Seq(STRING)
  PROVE  Absolute(p, c) \in Seq(STRING) /\ Front(Absolute(p, c)) \in Seq(STRING)
<1>1. PICK q : q = Absolute(p, c)
  OBVIOUS
<1>2. q \in Seq(STRING)
  <2>1. CASE p = <<>>
    BY <1>1, <2>1 DEF Absolute
  <2>2. CASE p # <<>>
    <3>1. Tail(p) \in Seq(STRING)
      BY <2>2, HeadTailProperties
    <3>2. c \o Tail(p) \in Seq(STRING)
      BY <3>1, ConcatProperties
    <3> QED BY <1>1, <3>2 DEF Absolute
  <2> QED BY <2>1, <2>2
<1>3. Front(q) \in Seq(STRING)
  <2>1. CASE q = <<>>
    BY <2>1, SubSeqEmpty, EmptySeq DEF Front
  <2>2. CASE q # <<>>
    BY <1>2, <2>2, WithoutLast
  <2> QED BY <2>1, <2>2
<1> QED BY <1>1, <1>2, <1>3

\* A path the guard lets pass is the one the permit was issued for, and where it leads.
LEMMA GuardedTells ==
  ASSUME IsTree(fs), OpensWhatItCan, NEW a \in Action, NEW p \in Seq(STRING),
         NEW follow \in BOOLEAN, NEW authorized,
         NEW path, path = Guarded(a, p, follow, authorized), path # Refused
  PROVE  /\ path = authorized
         /\ follow => Settled(fs, path)
         /\ ~follow => NamesEntry(fs, path)
<1>1. PICK q : q = Absolute(p, VerifiedCwd(a))
  OBVIOUS
<1>2. q \in Seq(STRING) /\ Front(q) \in Seq(STRING)
  BY <1>1, AbsoluteIsPath, VerifiedCwdTells
<1>3. PICK c : c = Containment(q, follow)
  OBVIOUS
<1>4. path = c.path /\ c.verifiable /\ path = authorized
  BY <1>1, <1>3 DEF Guarded, SamePath
<1>5. c.verifiable => c.path # Refused
  BY <1>3 DEF Containment
<1>6. ASSUME follow PROVE Settled(fs, path)
  <2>1. c.path = Strict(q)
    BY <1>3, <1>6 DEF Containment
  <2> QED BY <1>2, <1>4, <1>5, <2>1, StrictSettles
<1>7. ASSUME ~follow PROVE NamesEntry(fs, path)
  <2>1. PICK dir : dir = Strict(Front(q))
    OBVIOUS
  <2>2. c.path = IF dir = Refused THEN Refused ELSE Append(dir, Last(q))
    BY <1>3, <1>7, <2>1 DEF Containment
  <2>3. dir # Refused /\ path = Append(dir, Last(q))
    BY <1>4, <1>5, <2>2
  <2>4. Settled(fs, dir)
    BY <1>2, <2>1, <2>3, StrictSettles
  <2> QED BY <2>3, <2>4 DEF NamesEntry
<1> QED BY <1>4, <1>6, <1>7

-----------------------------------------------------------------------------
(* Where an execution lands.                                               *)

\* The links there are and those that others may put somewhere.
Links == {p \in DOMAIN World : World[p].type = "link"} \cup DOMAIN LinkTo

\* The tree, whatever others have done to the links in it.
TreeFits ==
  /\ DOMAIN fs \subseteq DOMAIN World \cup DOMAIN LinkTo
  /\ \A p \in DOMAIN World \ DOMAIN LinkTo : World[p] = Dir => p \in DOMAIN fs /\ fs[p] = Dir
  /\ \A p \in DOMAIN fs : /\ fs[p].type = "dir" => p \in DOMAIN World
                          /\ fs[p].type = "link" => p \in Links /\ fs[p].to \in Seq(STRING)

Repositories == {p[1] : p \in DOMAIN World \ {<<>>}} \X BOOLEAN

\* What an execution holds has been looked at: the file its permit names, or
\* its entry for those that do not follow it.
FilesFit ==
  ex.at \in {"moving", "guarded", "checked"} /\ ex.action.kind = "filesystem" =>
    /\ ex.path = bound.target
    /\ IF ex.action.op \in NoFollowFinal THEN NamesEntry(fs, ex.path) ELSE Settled(fs, ex.path)
    /\ ex.at # "moving" /\ ex.action.op = "move" => ex.to = bound.to /\ NamesEntry(fs, ex.to)

\* The directory a process is to run in, and the repository and HEAD git finds there.
ProcessesFit ==
  ex.at = "guarded" /\ ex.action.kind \in {"shell", "git"} =>
    /\ ex.path # Nothing => ex.path = bound.cwd /\ Settled(fs, ex.path)
    /\ ex.action.kind = "git" =>
         /\ ex.path # Nothing
         /\ bound.repository # Nothing /\ Repository(ex.path) = bound.repository
         /\ ex.action.op \notin HeadIndependent => bound.head = head[bound.repository]

LandingInvariant ==
  /\ ex = Idle \/ (IsExecution /\ ex.action \in Action /\ ex.at # "idle")
  /\ ex.at \in {"idle", "permitted", "moving", "guarded", "checked"} => TreeFits /\ landed = {}
  /\ DOMAIN head = Repositories
  /\ ~moved => FilesFit /\ ProcessesFit
  /\ LandsWherePermitted

LEMMA FittingTree == TreeFits => IsTree(fs)
<1> SUFFICES ASSUME TreeFits PROVE IsTree(fs)
  OBVIOUS
<1>1. Dir.type = "dir"
  BY DEF Dir
<1>2. <<>> \in DOMAIN fs /\ fs[<<>>].type = "dir"
  BY <1>1, HostAssumption DEF TreeFits
<1>3. DOMAIN fs \subseteq Seq(STRING) /\ Gone \notin DOMAIN fs
  BY HostAssumption DEF TreeFits
<1>4. ASSUME NEW q \in DOMAIN fs, q # <<>>
      PROVE  Front(q) \in DOMAIN fs /\ fs[Front(q)].type = "dir"
  <2>1. Front(q) \in DOMAIN World \ DOMAIN LinkTo /\ World[Front(q)] = Dir
    BY <1>4, HostAssumption DEF TreeFits
  <2> QED BY <1>1, <2>1 DEF TreeFits
<1> QED BY <1>2, <1>3, <1>4 DEF IsTree, TreeFits

\* An execution that has acted, or ends.
LEMMA ActingKeeps ==
  ASSUME LandingInvariant, ex # Idle, NEW at \in {"acted", "running", "sent", "done"}, Goes(at),
         DOMAIN head' = DOMAIN head, (~moved => landed \subseteq Permitted)'
  PROVE  LandingInvariant'
<1>1. /\ IsExecution' /\ ex'.at = at /\ ex'.action \in Action
  BY ExecutionGoes DEF LandingInvariant, Goes
<1>2. FilesFit' /\ ProcessesFit'
  BY <1>1 DEF FilesFit, ProcessesFit
<1>3. LandsWherePermitted'
  BY DEF LandsWherePermitted
<1>4. (DOMAIN head = Repositories)'
  BY DEF LandingInvariant, Repositories
<1>5. ex'.at \notin {"idle", "permitted", "moving", "guarded", "checked"}
  BY <1>1
<1> QED BY <1>1, <1>2, <1>3, <1>4, <1>5 DEF LandingInvariant

LEMMA EndKeeps ==
  ASSUME LandingInvariant, ex # Idle, UNCHANGED <<head, bound, landed, moved>>,
         Refuses \/ \E status, proof : ExecutionEnds(status, proof)
  PROVE  LandingInvariant'
<1>1. Goes("done")
  BY DEF Refuses, ExecutionEnds, Goes
<1>2. ex'.action = ex.action /\ ex.at # "idle"
  BY <1>1, ExecutionGoes DEF Goes, LandingInvariant
<1>3. Permitted' = Permitted
  BY <1>2 DEF Permitted
<1> QED BY <1>1, <1>2, <1>3, ActingKeeps DEF LandingInvariant, LandsWherePermitted

\* Nothing an execution is judged by has changed.
LEMMA StandingStill ==
  ASSUME LandingInvariant, UNCHANGED <<hostVars, ex, bound, landed, moved>>
  PROVE  LandingInvariant'
BY DEF LandingInvariant, hostVars, IsExecution, TreeFits, FilesFit, ProcessesFit, Repository,
       LandsWherePermitted, Permitted

\* What an execution stands in.
LEMMA Begun ==
  ASSUME LandingInvariant, ex.at # "idle"
  PROVE  ex # Idle /\ IsExecution /\ ex.action \in Action
BY DEF LandingInvariant, Idle

LEMMA IssueKeeps == ASSUME LandingInvariant, Permit PROVE LandingInvariant'
<1>1. PICK a \in Action : Issue(a)
  BY DEF Permit
<1>2. /\ ex' = [at |-> "permitted", action |-> a, path |-> Nothing, to |-> Nothing,
                repository |-> Nothing]
      /\ ex.at = "idle" /\ UNCHANGED <<fs, head, landed, moved>>
  BY <1>1 DEF Issue, hostVars
<1>3. IsExecution' /\ ex'.action \in Action /\ ex'.at = "permitted"
  BY <1>2 DEF IsExecution
<1>4. TreeFits /\ landed = {} /\ DOMAIN head = Repositories
  BY <1>2 DEF LandingInvariant
<1>5. TreeFits' /\ landed' = {} /\ (DOMAIN head = Repositories)'
  BY <1>2, <1>4 DEF TreeFits, Repositories
<1>6. FilesFit' /\ ProcessesFit'
  BY <1>3 DEF FilesFit, ProcessesFit
<1>7. LandsWherePermitted'
  BY <1>5 DEF LandsWherePermitted
<1> QED BY <1>3, <1>5, <1>6, <1>7 DEF LandingInvariant

\* The guard of an executor looks at the file again.
LEMMA FsGuardKeeps == ASSUME LandingInvariant, OpensWhatItCan, FsGuard PROVE LandingInvariant'
<1>1. ex.at = "permitted" /\ ex.action.kind = "filesystem"
  BY DEF FsGuard, Runs
<1>2. ex # Idle /\ IsExecution /\ ex.action \in Action
  BY <1>1, Begun
<1>3. TreeFits /\ landed = {} /\ DOMAIN head = Repositories /\ IsTree(fs)
  BY <1>1, FittingTree DEF LandingInvariant
<1>4. PICK path :
        path = Guarded(ex.action, ex.action.target, ex.action.op \notin NoFollowFinal, bound.target)
  OBVIOUS
<1>5. CASE path = Refused
  <2>1. Refuses
    BY <1>4, <1>5 DEF FsGuard
  <2> QED BY <1>2, <2>1, EndKeeps DEF Refuses, hostVars
<1>6. CASE path # Refused
  <2>1. PICK at : at = IF ex.action.op = "move" THEN "moving" ELSE "guarded"
    OBVIOUS
  <2>2. /\ ex' = [ex EXCEPT !.at = at, !.path = path]
        /\ UNCHANGED <<fs, nested, head, bound, landed>>
    BY <1>4, <1>6, <2>1 DEF FsGuard, Holds, hostVars
  <2>3. IsExecution' /\ ex'.action = ex.action /\ ex'.at = at /\ ex'.path = path
    BY <1>2, <2>2 DEF IsExecution
  <2>4. PICK follow \in BOOLEAN : follow = (ex.action.op \notin NoFollowFinal)
    OBVIOUS
  <2>5. /\ path = bound.target
        /\ follow => Settled(fs, path)
        /\ ~follow => NamesEntry(fs, path)
    <3>1. path = Guarded(ex.action, ex.action.target, follow, bound.target)
      BY <1>4, <2>4
    <3>2. ex.action.target \in Seq(STRING)
      BY <1>2, ActionPaths
    <3> QED BY <1>2, <1>3, <1>6, <3>1, <3>2, GuardedTells
  <2>6. FilesFit'
    BY <2>1, <2>2, <2>3, <2>4, <2>5 DEF FilesFit
  <2>7. ProcessesFit'
    BY <1>1, <2>3 DEF ProcessesFit
  <2>8. TreeFits' /\ landed' = {} /\ (DOMAIN head = Repositories)'
    BY <1>3, <2>2 DEF TreeFits, Repositories
  <2>9. LandsWherePermitted'
    BY <2>8 DEF LandsWherePermitted
  <2>10. ex'.at # "idle" /\ ex'.action \in Action
    BY <1>2, <2>1, <2>3
  <2> QED BY <2>3, <2>6, <2>7, <2>8, <2>9, <2>10 DEF LandingInvariant
<1> QED BY <1>5, <1>6

LEMMA FsGuardDestinationKeeps ==
  ASSUME LandingInvariant, OpensWhatItCan, FsGuardDestination
  PROVE  LandingInvariant'
<1>1. ex.at = "moving" /\ ex.action.kind = "filesystem"
  BY DEF FsGuardDestination, Runs
<1>2. ex # Idle /\ IsExecution /\ ex.action \in Action
  BY <1>1, Begun
<1>3. TreeFits /\ landed = {} /\ DOMAIN head = Repositories /\ IsTree(fs)
  BY <1>1, FittingTree DEF LandingInvariant
<1>4. PICK to : to = Guarded(ex.action, ex.action.to, FALSE, bound.to)
  OBVIOUS
<1>5. CASE to = Refused
  <2>1. Refuses
    BY <1>4, <1>5 DEF FsGuardDestination
  <2> QED BY <1>2, <2>1, EndKeeps DEF Refuses, hostVars
<1>6. CASE to # Refused
  <2>1. /\ ex' = [ex EXCEPT !.at = "guarded", !.to = to]
        /\ UNCHANGED <<fs, nested, head, bound, landed, moved>>
    BY <1>4, <1>6 DEF FsGuardDestination, Holds, Quiet, hostVars
  <2>2. IsExecution' /\ ex'.action = ex.action /\ ex'.at = "guarded"
      /\ ex'.path = ex.path /\ ex'.to = to
    BY <1>2, <2>1 DEF IsExecution
  <2>3. to = bound.to /\ NamesEntry(fs, to)
    <3>1. ex.action.to \in Seq(STRING)
      BY <1>2, ActionPaths
    <3>2. PICK a \in Action : a = ex.action
      BY <1>2
    <3>3. PICK p \in Seq(STRING) : p = ex.action.to
      BY <3>1
    <3>4. PICK follow \in BOOLEAN : follow = FALSE
      OBVIOUS
    <3>5. to = Guarded(a, p, follow, bound.to)
      BY <1>4, <3>2, <3>3, <3>4
    <3>6. IsTree(fs)
      BY <1>3
    <3>7. to = bound.to /\ (~follow => NamesEntry(fs, to))
      BY <1>6, <3>5, <3>6, GuardedTells
    <3> QED BY <3>4, <3>7
  <2>4. (~moved => FilesFit)'
    <3>1. ~moved => FilesFit
      BY DEF LandingInvariant
    <3> QED BY <1>1, <2>1, <2>2, <2>3, <3>1 DEF FilesFit
  <2>5. ProcessesFit'
    BY <1>1, <2>2 DEF ProcessesFit
  <2>6. TreeFits' /\ landed' = {} /\ (DOMAIN head = Repositories)'
    BY <1>3, <2>1 DEF TreeFits, Repositories
  <2>7. LandsWherePermitted'
    BY <2>6 DEF LandsWherePermitted
  <2>8. ex'.at # "idle" /\ ex'.action \in Action
    BY <1>2, <2>2
  <2> QED BY <2>2, <2>4, <2>5, <2>6, <2>7, <2>8 DEF LandingInvariant
<1> QED BY <1>5, <1>6

LEMMA FsCheckKeeps == ASSUME LandingInvariant, FsCheck PROVE LandingInvariant'
<1>1. ex.at = "guarded" /\ ex.action.kind = "filesystem"
  BY DEF FsCheck, Runs
<1>2. ex # Idle /\ IsExecution /\ ex.action \in Action
  BY <1>1, Begun
<1>3. UNCHANGED <<fs, nested, head, bound, landed, moved>>
  BY DEF FsCheck, Quiet, hostVars
<1>4. CASE Fails("none")
  BY <1>2, <1>3, <1>4, EndKeeps DEF Fails
<1>5. CASE Goes("checked")
  <2>1. /\ IsExecution' /\ ex'.action = ex.action /\ ex'.at = "checked"
        /\ ex'.path = ex.path /\ ex'.to = ex.to
    BY <1>2, <1>5, ExecutionGoes DEF Goes
  <2>2. TreeFits /\ landed = {} /\ DOMAIN head = Repositories /\ (~moved => FilesFit)
    BY <1>1 DEF LandingInvariant
  <2>3. (~moved => FilesFit)'
    BY <1>1, <1>3, <2>1, <2>2 DEF FilesFit
  <2>4. ProcessesFit'
    BY <2>1 DEF ProcessesFit
  <2>5. TreeFits' /\ landed' = {} /\ (DOMAIN head = Repositories)'
    BY <1>3, <2>2 DEF TreeFits, Repositories
  <2>6. LandsWherePermitted'
    BY <2>5 DEF LandsWherePermitted
  <2>7. ex'.at # "idle" /\ ex'.action \in Action
    BY <1>2, <2>1
  <2> QED BY <2>1, <2>3, <2>4, <2>5, <2>6, <2>7 DEF LandingInvariant
<1> QED BY <1>4, <1>5 DEF FsCheck

\* The system call of a file operation reaches the file or entry that was looked at.
LEMMA FilesLand ==
  ASSUME LandingInvariant, ~moved, ex.at = "checked", ex.action.kind = "filesystem",
         landed = {}, IsTree(fs)
  PROVE  /\ ex.action.op = "delete" /\ FsDeletes => landed' \subseteq {bound.target, bound.to}
         /\ ex.action.op = "move" /\ FsMoves => landed' \subseteq {bound.target, bound.to}
         /\ ex.action.op \notin NoFollowFinal /\ (FsReads \/ FsWrites) =>
              landed' \subseteq {bound.target, bound.to}
<1>1. FilesFit
  BY DEF LandingInvariant
<1>2. /\ ex.path = bound.target
      /\ ex.action.op \in NoFollowFinal => NamesEntry(fs, ex.path)
      /\ ex.action.op \notin NoFollowFinal => Settled(fs, ex.path)
      /\ ex.action.op = "move" => ex.to = bound.to /\ NamesEntry(fs, ex.to)
  BY <1>1 DEF FilesFit
<1>3. Gone \notin DOMAIN fs
  BY DEF IsTree
<1>4. ASSUME ex.action.op = "delete", FsDeletes PROVE landed' \subseteq {bound.target, bound.to}
  <2>1. NamesEntry(fs, ex.path)
    BY <1>2, <1>4 DEF NoFollowFinal
  <2>2. CASE EntryExists(ex.path)
    <3>1. Entry(ex.path) # Gone
      BY <1>3, <2>2 DEF EntryExists
    <3>2. Entry(ex.path) = bound.target
      BY <1>2, <2>1, <3>1, SettledEntry
    <3>3. landed' = landed \cup {Entry(ex.path)}
      BY <1>4, <2>2 DEF FsDeletes, Reaches
    <3> QED BY <3>2, <3>3
  <2>3. CASE ~EntryExists(ex.path)
    BY <1>4, <2>3 DEF FsDeletes
  <2> QED BY <2>2, <2>3
<1>5. ASSUME ex.action.op = "move", FsMoves PROVE landed' \subseteq {bound.target, bound.to}
  <2>1. NamesEntry(fs, ex.path) /\ NamesEntry(fs, ex.to) /\ ex.to = bound.to
    BY <1>2, <1>5 DEF NoFollowFinal
  <2>2. CASE UNCHANGED landed
    BY <2>2
  <2>3. CASE /\ EntryExists(ex.path) /\ Entry(ex.to) # Gone
             /\ landed' = landed \cup {Entry(ex.path), Entry(ex.to)}
    <3>1. Entry(ex.path) # Gone
      BY <1>3, <2>3 DEF EntryExists
    <3>2. Entry(ex.path) = bound.target
      BY <1>2, <2>1, <3>1, SettledEntry
    <3>3. Entry(ex.to) = bound.to
      BY <2>1, <2>3, SettledEntry
    <3> QED BY <2>3, <3>2, <3>3
  <2> QED BY <1>5, <2>2, <2>3 DEF FsMoves, Reaches
<1>6. ASSUME ex.action.op \notin NoFollowFinal, FsReads \/ FsWrites
      PROVE  landed' \subseteq {bound.target, bound.to}
  <2>1. Settled(fs, ex.path)
    BY <1>2, <1>6
  <2>2. PICK p : p = ex.path
    OBVIOUS
  <2>3. PICK q : q = Opened(SubSeq(p, 1, Deepest(p))) \o SubSeq(p, Deepest(p) + 1, Len(p))
    OBVIOUS
  <2>4. q = p /\ (Exists(p) => Opened(p) = p)
    BY <2>1, <2>2, <2>3, SettledOpens
  <2>5. CASE FsReads
    BY <1>2, <2>2, <2>4, <2>5 DEF FsReads, Reaches
  <2>6. CASE FsWrites
    <3>1. UNCHANGED landed \/ landed' = landed \cup {q}
      BY <2>2, <2>3, <2>6 DEF FsWrites, Reaches
    <3> QED BY <1>2, <2>2, <2>4, <3>1
  <2> QED BY <1>6, <2>5, <2>6
<1> QED BY <1>4, <1>5, <1>6

LEMMA FsActKeeps == ASSUME LandingInvariant, FsAct PROVE LandingInvariant'
<1>1. ex.at = "checked" /\ ex.action.kind = "filesystem" /\ UNCHANGED <<head, bound, moved>>
  BY DEF FsAct, Runs
<1>2. ex # Idle /\ IsExecution /\ ex.action \in Action
  BY <1>1, Begun
<1>3. landed = {} /\ IsTree(fs)
  BY <1>1, FittingTree DEF LandingInvariant
<1>4. PICK op : op = ex.action.op
  OBVIOUS
<1>5. \/ op = "delete" /\ FsDeletes
      \/ op = "move" /\ FsMoves
      \/ op \notin NoFollowFinal /\ (FsReads \/ FsWrites)
  BY <1>4 DEF FsAct, NoFollowFinal
<1>6. CASE UNCHANGED landed /\ Fails("none")
  BY <1>1, <1>2, <1>6, EndKeeps DEF Fails
<1>7. CASE Goes("acted")
  <2>1. ex'.action = ex.action
    BY <1>2, <1>7, ExecutionGoes DEF Goes
  <2>2. ~moved => landed' \subseteq {bound.target, bound.to}
    BY <1>1, <1>3, <1>4, <1>5, FilesLand
  <2>3. Permitted' = {bound.target, bound.to}
    BY <1>1, <2>1 DEF Permitted
  <2> QED BY <1>1, <1>2, <1>7, <2>2, <2>3, ActingKeeps
<1> QED BY <1>5, <1>6, <1>7 DEF FsDeletes, FsMoves, FsReads, FsWrites

\* The directory and the repository are looked at again.
LEMMA ProcessGuardKeeps ==
  ASSUME LandingInvariant, OpensWhatItCan, ProcessGuard
  PROVE  LandingInvariant'
<1>1. ex.at = "permitted" /\ ex.action.kind \in {"shell", "git"}
  BY DEF ProcessGuard, Runs
<1>2. ex # Idle /\ IsExecution /\ ex.action \in Action
  BY <1>1, Begun
<1>3. TreeFits /\ landed = {} /\ DOMAIN head = Repositories /\ IsTree(fs)
  BY <1>1, FittingTree DEF LandingInvariant
<1>4. PICK cwd : cwd = VerifiedCwd(ex.action)
  OBVIOUS
<1>5. CASE Refuses
  BY <1>2, <1>5, EndKeeps DEF Refuses, hostVars
<1>6. CASE ~Refuses
  <2>1. PICK repository : repository = IF cwd = Nothing THEN Nothing ELSE Repository(cwd)
    OBVIOUS
  <2>2. /\ cwd # Refused /\ (ex.action.kind = "git" => SameRepository(ex.action, cwd))
        /\ ex' = [ex EXCEPT !.at = "guarded", !.path = cwd, !.repository = repository]
        /\ UNCHANGED <<fs, nested, head, bound, landed>>
    BY <1>4, <1>6, <2>1 DEF ProcessGuard, hostVars
  <2>3. IsExecution' /\ ex'.action = ex.action /\ ex'.at = "guarded" /\ ex'.path = cwd
    BY <1>2, <2>2 DEF IsExecution
  <2>4. cwd # Nothing => cwd = bound.cwd /\ Settled(fs, cwd)
    <3>1. VerifiedCwd(ex.action) \notin {Refused, Nothing} =>
            VerifiedCwd(ex.action) = bound.cwd /\ Settled(fs, bound.cwd)
      BY <1>2, <1>3, VerifiedCwdTells
    <3> QED BY <1>4, <2>2, <3>1
  <2>5. ex.action.kind = "git" =>
          /\ cwd # Nothing /\ bound.repository # Nothing /\ Repository(cwd) = bound.repository
          /\ ex.action.op \notin HeadIndependent => bound.head = head[bound.repository]
    BY <2>2 DEF SameRepository
  <2>6. FilesFit'
    BY <1>1, <2>3 DEF FilesFit
  <2>7. Repository(cwd)' = Repository(cwd)
    BY <2>2 DEF Repository
  <2>8. ProcessesFit'
    BY <2>2, <2>3, <2>4, <2>5, <2>7 DEF ProcessesFit, Repository
  <2>9. TreeFits' /\ landed' = {} /\ (DOMAIN head = Repositories)'
    BY <1>3, <2>2 DEF TreeFits, Repositories
  <2>10. LandsWherePermitted'
    BY <2>9 DEF LandsWherePermitted
  <2>11. ex'.at # "idle" /\ ex'.action \in Action
    BY <1>2, <2>3
  <2> QED BY <2>3, <2>6, <2>8, <2>9, <2>10, <2>11 DEF LandingInvariant
<1> QED BY <1>5, <1>6

\* A directory of the tree is in some repository whose HEAD is known.
LEMMA RepositoryKnown ==
  ASSUME TreeFits, DOMAIN head = Repositories, NEW p, Stands(fs, p), fs[p].type = "dir", p # <<>>
  PROVE  Repository(p) \in DOMAIN head
<1>1. p \in Seq(STRING) /\ p \in DOMAIN fs
  BY StandingTells
<1>2. p \in DOMAIN World \ {<<>>}
  BY <1>1 DEF TreeFits
<1>3. PICK b \in BOOLEAN : b = (Len(p) >= 2 /\ nested)
  OBVIOUS
<1>4. Repository(p) = <<p[1], b>>
  BY <1>3 DEF Repository
<1> QED BY <1>2, <1>4 DEF Repositories

\* A process reaches the directory that was looked at, and the branch git finds there.
LEMMA SpawnLands ==
  ASSUME LandingInvariant, ~moved, ex.at = "guarded", ex.action.kind \in {"shell", "git"},
         landed = {}, TreeFits, IsTree(fs), ex.path # Nothing, IsDir(ex.path)
  PROVE  /\ ex.action.kind = "shell" => Reached = bound.cwd
         /\ ex.action.kind = "git" =>
              /\ Reached = <<bound.repository, head[bound.repository]>>
              /\ bound.repository \in DOMAIN head
              /\ ex.action.op \notin HeadIndependent => bound.head = head[bound.repository]
<1>1. /\ ex.path = bound.cwd /\ Settled(fs, ex.path)
      /\ ex.action.kind = "git" =>
         /\ bound.repository # Nothing /\ Repository(ex.path) = bound.repository
         /\ ex.action.op \notin HeadIndependent => bound.head = head[bound.repository]
  BY DEF LandingInvariant, ProcessesFit
<1>2. PICK p : p = ex.path
  OBVIOUS
<1>3. Opened(p) = p /\ Stands(fs, p) /\ fs[p].type = "dir"
  BY <1>1, <1>2, SettledOpens DEF IsDir
<1>4. ASSUME ex.action.kind = "shell" PROVE Reached = bound.cwd
  BY <1>1, <1>2, <1>3, <1>4 DEF Reached
<1>5. ASSUME ex.action.kind = "git"
      PROVE  bound.repository \in DOMAIN head
  <2>1. p # <<>>
    BY <1>1, <1>2, <1>5 DEF Repository
  <2>2. DOMAIN head = Repositories
    BY DEF LandingInvariant
  <2>3. Repository(p) \in DOMAIN head
    BY <1>3, <2>1, <2>2, RepositoryKnown
  <2> QED BY <1>1, <1>2, <1>5, <2>3
<1>6. ASSUME ex.action.kind = "git" PROVE Reached = <<bound.repository, head[bound.repository]>>
  BY <1>1, <1>6 DEF Reached
<1> QED BY <1>1, <1>4, <1>5, <1>6

LEMMA SpawnKeeps == ASSUME LandingInvariant, Spawn PROVE LandingInvariant'
<1>1. ex.at = "guarded" /\ ex.action.kind \in {"shell", "git"} /\ UNCHANGED <<bound, moved>>
  BY DEF Spawn, Runs
<1>2. ex # Idle /\ IsExecution /\ ex.action \in Action
  BY <1>1, Begun
<1>3. landed = {} /\ TreeFits /\ IsTree(fs)
  BY <1>1, FittingTree DEF LandingInvariant
<1>4. CASE Fails("FAILED") /\ UNCHANGED <<landed, head>>
  BY <1>1, <1>2, <1>4, EndKeeps DEF Fails
<1>5. CASE /\ Goes("running") /\ (ex.path = Nothing \/ IsDir(ex.path))
           /\ IF ex.path = Nothing THEN UNCHANGED landed ELSE Reaches({Reached})
           /\ IF ex.action.op = "commit"
              THEN head' = [head EXCEPT ![Repository(ex.path)] = <<@[1], @[2] + 1>>]
              ELSE UNCHANGED head
  <2>1. ex'.action = ex.action
    BY <1>2, <1>5, ExecutionGoes DEF Goes
  <2>2. DOMAIN head' = DOMAIN head
    BY <1>5
  <2>3. ASSUME ~moved PROVE landed' \subseteq Permitted'
    <3>1. CASE ex.path = Nothing
      BY <1>3, <1>5, <3>1
    <3>2. CASE ex.path # Nothing
      <4>1. landed' = {Reached}
        BY <1>3, <1>5, <3>2 DEF Reaches
      <4>2. CASE ex.action.kind = "shell"
        <5>1. Reached = bound.cwd
          BY <1>1, <1>3, <1>5, <2>3, <3>2, <4>2, SpawnLands
        <5>2. Permitted' = {bound.cwd}
          BY <1>1, <2>1, <4>2 DEF Permitted
        <5> QED BY <4>1, <5>1, <5>2
      <4>3. CASE ex.action.kind = "git"
        <5>1. /\ Reached = <<bound.repository, head[bound.repository]>>
              /\ bound.repository \in DOMAIN head
              /\ ex.action.op \notin HeadIndependent => bound.head = head[bound.repository]
          BY <1>1, <1>3, <1>5, <2>3, <3>2, <4>3, SpawnLands
        <5>2. PICK H : H = IF ex.action.op \in HeadIndependent THEN Range(head') ELSE {bound.head}
          OBVIOUS
        <5>3. Permitted' = {<<bound.repository, h>> : h \in H}
          BY <1>1, <2>1, <4>3, <5>2 DEF Permitted
        <5>4. head[bound.repository] \in H
          <6>1. CASE ex.action.op \in HeadIndependent
            <7>1. head' = head
              BY <1>5, <6>1 DEF HeadIndependent
            <7> QED BY <5>1, <5>2, <6>1, <7>1 DEF Range
          <6>2. CASE ex.action.op \notin HeadIndependent
            BY <5>1, <5>2, <6>2
          <6> QED BY <6>1, <6>2
        <5> QED BY <4>1, <5>1, <5>3, <5>4
      <4> QED BY <1>1, <4>2, <4>3
    <3> QED BY <3>1, <3>2
  <2> QED BY <1>1, <1>2, <1>5, <2>2, <2>3, ActingKeeps
<1> QED BY <1>4, <1>5 DEF Spawn

\* A request goes where the permit says.
LEMMA RequestsLand ==
  ASSUME LandingInvariant, HttpSend \/ McpCall
  PROVE  LandingInvariant'
<1>1. /\ ex.at = "permitted" /\ ex.action.kind \in {"http", "mcp"}
      /\ UNCHANGED <<head, bound, moved>>
  BY DEF HttpSend, McpCall, Runs, hostVars
<1>2. ex # Idle /\ IsExecution /\ ex.action \in Action /\ landed = {}
  BY <1>1, Begun DEF LandingInvariant
<1>3. CASE UNCHANGED landed /\ \E proof : Fails(proof)
  BY <1>1, <1>2, <1>3, EndKeeps DEF Fails
<1>4. CASE Goes("sent") /\ Reaches({ex.action.target})
  <2>1. ex'.action = ex.action
    BY <1>2, <1>4, ExecutionGoes DEF Goes
  <2>2. Permitted' = {ex.action.target}
    BY <1>1, <2>1 DEF Permitted
  <2>3. landed' = {ex.action.target}
    BY <1>2, <1>4 DEF Reaches
  <2> QED BY <1>1, <1>2, <1>4, <2>2, <2>3, ActingKeeps
<1> QED BY <1>3, <1>4 DEF HttpSend, McpCall

LEMMA EndingLands ==
  ASSUME LandingInvariant, FsObserve \/ Close \/ HttpAnswer \/ HttpTimeout \/ McpAnswer
  PROVE  LandingInvariant'
<1>1. ex # Idle
  BY DEF FsObserve, Close, HttpAnswer, HttpTimeout, McpAnswer, Runs, Idle
<1>2. UNCHANGED <<head, bound, landed, moved>>
  BY DEF FsObserve, Close, HttpAnswer, HttpTimeout, McpAnswer, Quiet, hostVars
<1>3. \E status, proof : ExecutionEnds(status, proof)
  BY DEF FsObserve, Close, HttpAnswer, HttpTimeout, McpAnswer, Fails
<1> QED BY <1>1, <1>2, <1>3, EndKeeps

\* Others do not make directories or remove them, and whatever they do is known.
LEMMA HostKeeps == ASSUME LandingInvariant, Host PROVE LandingInvariant'
<1>1. moved' = TRUE /\ UNCHANGED <<ex, bound, landed>>
  BY DEF Host, Relink, RemoveFile, MakeRepository, MoveHead, Changed
<1>2. DOMAIN head' = DOMAIN head
  BY DEF Host, Relink, RemoveFile, MakeRepository, MoveHead
<1>3. TreeFits => TreeFits'
  <2> SUFFICES ASSUME TreeFits PROVE TreeFits'
    OBVIOUS
  <2>1. CASE UNCHANGED fs
    BY <2>1 DEF TreeFits
  <2>2. CASE Relink
    <3>1. PICK p \in DOMAIN LinkTo : \E to \in LinkTo[p] :
            fs' = [r \in DOMAIN fs \cup {p} |-> IF r = p THEN Link(to) ELSE fs[r]]
      BY <2>2 DEF Relink
    <3>2. PICK to \in LinkTo[p] :
            fs' = [r \in DOMAIN fs \cup {p} |-> IF r = p THEN Link(to) ELSE fs[r]]
      BY <3>1
    <3>3. PICK link : link = Link(to)
      OBVIOUS
    <3>4. link.type = "link" /\ link.to = to
      BY <3>3 DEF Link
    <3>5. to \in Seq(STRING)
      <4>1. LinkTo[p] \subseteq Seq(STRING)
        BY HostAssumption
      <4> QED BY <3>2, <4>1
    <3>6. DOMAIN fs' = DOMAIN fs \cup {p} /\ fs'[p] = link
      /\ \A r \in DOMAIN fs \ {p} : fs'[r] = fs[r]
      BY <3>2, <3>3
    <3>7. p \in Links
      BY <3>1 DEF Links
    <3> QED BY <3>4, <3>5, <3>6, <3>7 DEF TreeFits
  <2>3. CASE RemoveFile
    <3>1. PICK p \in DOMAIN fs : fs[p].type = "file" /\ fs' = [r \in DOMAIN fs \ {p} |-> fs[r]]
      BY <2>3 DEF RemoveFile
    <3>2. DOMAIN fs' = DOMAIN fs \ {p} /\ \A r \in DOMAIN fs \ {p} : fs'[r] = fs[r]
      BY <3>1
    <3>3. fs[p] # Dir
      BY <3>1 DEF Dir
    <3> QED BY <3>2, <3>3 DEF TreeFits
  <2> QED BY <2>1, <2>2, <2>3 DEF Host, MakeRepository, MoveHead
<1>4. LandsWherePermitted'
  BY <1>1 DEF LandsWherePermitted
<1> QED BY <1>1, <1>2, <1>3, <1>4 DEF LandingInvariant, IsExecution, Repositories

LEMMA LandingBegins == ExecutionInit => LandingInvariant
<1> SUFFICES ASSUME ExecutionInit PROVE LandingInvariant
  OBVIOUS
<1>1. ex = Idle /\ ex.at = "idle" /\ landed = {} /\ moved = FALSE
  BY DEF ExecutionInit, Idle
<1>2. TreeFits
  BY HostAssumption DEF ExecutionInit, TreeFits, Links
<1>3. DOMAIN head = Repositories
  BY DEF ExecutionInit, Repositories
<1> QED BY <1>1, <1>2, <1>3 DEF LandingInvariant, FilesFit, ProcessesFit, LandsWherePermitted

\* Resolving a path is what asks for a tree in which the kernel opens what it can.
LEMMA LandingKept ==
  ASSUME LandingInvariant, TreeFits => OpensWhatItCan, [ExecutionNext]_executionVars
  PROVE  LandingInvariant'
<1>1. CASE Permit
  BY <1>1, IssueKeeps
<1>2. CASE FsGuard \/ FsGuardDestination \/ ProcessGuard
  <2>1. ex.at \in {"permitted", "moving"}
    BY <1>2 DEF FsGuard, FsGuardDestination, ProcessGuard, Runs
  <2>2. OpensWhatItCan
    BY <2>1 DEF LandingInvariant
  <2> QED BY <1>2, <2>2, FsGuardKeeps, FsGuardDestinationKeeps, ProcessGuardKeeps
<1>3. CASE Executor
  BY <1>2, <1>3, FsCheckKeeps, FsActKeeps, SpawnKeeps, RequestsLand, EndingLands DEF Executor
<1>4. CASE ChildExits \/ OutputCloses \/ TimerFires \/ UNCHANGED executionVars
  <2>1. UNCHANGED <<hostVars, ex, bound, landed, moved>>
    BY <1>4 DEF ChildExits, OutputCloses, TimerFires, executionVars, exVars
  <2> QED BY <2>1, StandingStill
<1>5. CASE Host
  BY <1>5, HostKeeps
<1> QED BY <1>1, <1>3, <1>4, <1>5 DEF ExecutionNext

\* What an execution reaches is what its permit was issued for, on every host and
\* whatever others do to its links between the look and the system call, unless
\* they do it after the last look.  The tree may not have links that lead over
\* more links than the kernel follows: resolveStrict() would go on by hand, and
\* what lies beneath the end of such a chain may be a link again.
THEOREM ExecutionsLand == ExecutionSpec /\ []OpensWhatItCan => []LandsWherePermitted
<1>1. LandingInvariant /\ OpensWhatItCan /\ [ExecutionNext]_executionVars => LandingInvariant'
  BY LandingKept
<1>2. LandingInvariant => LandsWherePermitted
  BY DEF LandingInvariant
<1> QED BY <1>1, <1>2, LandingBegins, PTL DEF ExecutionSpec

-----------------------------------------------------------------------------
(* As many links as the kernel follows.                                    *)

\* Where the path p leads can be told after h links one behind the other, not sooner.
Takes(p, h) ==
  At[<<p, h>>] \in DOMAIN fs /\ (h # 0 => At[<<p, h - 1>>] \notin DOMAIN fs)

\* The links whose ends take h more.
LinksTaking(h) == {q \in DOMAIN fs : fs[q].type = "link" /\ Takes(fs[q].to, h)}

\* A path that takes more than h links has one on its way whose end takes h.
LEMMA LinkOnTheWay ==
  ASSUME IsTree(fs), NEW h \in Nat
  PROVE  \A p \in Seq(STRING) : Takes(p, h + 1) => LinksTaking(h) # {}
<1>1. PICK Q : Q = {x \in Seq(STRING) \X Nat :
                    x[2] = h + 1 /\ Takes(x[1], h + 1) => LinksTaking(h) # {}}
  OBVIOUS
<1>2. \A p \in Seq(STRING), k \in Nat :
        <<p, k>> \in Q <=> (k = h + 1 /\ Takes(p, h + 1) => LinksTaking(h) # {})
  BY <1>1
<1>3. ASSUME NEW p \in Seq(STRING), NEW k \in Nat,
             k # 0 => \A q \in Seq(STRING) : <<q, k - 1>> \in Q,
             p # <<>> => <<Front(p), k>> \in Q
      PROVE  <<p, k>> \in Q
  <2> SUFFICES ASSUME k = h + 1, Takes(p, h + 1) PROVE LinksTaking(h) # {}
    BY <1>2
  <2>1. At[<<p, h + 1>>] \in DOMAIN fs /\ At[<<p, h>>] \notin DOMAIN fs
    BY DEF Takes
  <2>2. p # <<>>
    <3>1. At[<<(<<>>), h>>] = <<>> /\ <<>> \in DOMAIN fs
      BY RootFound DEF IsTree
    <3> QED BY <2>1, <3>1
  <2>3. Front(p) \in Seq(STRING)
    BY <2>2, WithoutLast
  <2>4. Takes(Front(p), h + 1) => LinksTaking(h) # {}
    BY <1>2, <1>3, <2>2, <2>3
  <2>5. CASE At[<<Front(p), h>>] \notin DOMAIN fs
    <3>1. At[<<Front(p), h + 1>>] \in DOMAIN fs
      <4>1. StepTells(p, h + 1)
        BY <2>2, LookupStep
      <4> QED BY <2>1, <4>1 DEF StepTells, IsTree
    <3> QED BY <2>4, <2>5, <3>1 DEF Takes
  <2>6. CASE At[<<Front(p), h>>] \in DOMAIN fs
    <3>1. At[<<Front(p), h + 1>>] = At[<<Front(p), h>>]
      BY <2>3, <2>6, FoundLasts
    <3>2. PICK dir, q, found :
            /\ dir = At[<<Front(p), h + 1>>] /\ q = Append(dir, Last(p)) /\ found = At[<<p, h + 1>>]
            /\ \/ (dir \notin DOMAIN fs \/ fs[dir].type # "dir") /\ found = Gone
               \/ /\ dir \in DOMAIN fs /\ fs[dir].type = "dir"
                  /\ \/ (q \notin DOMAIN fs \/ fs[q].type # "link") /\ found = q
                     \/ q \in DOMAIN fs /\ fs[q].type = "link" /\ h + 1 = 0 /\ found = Gone
                     \/ /\ q \in DOMAIN fs /\ fs[q].type = "link" /\ h + 1 # 0
                        /\ found = At[<<fs[q].to, (h + 1) - 1>>]
      BY <2>2, LookupStep DEF StepTells
    <3>3. PICK dir2, q2, found2 :
            /\ dir2 = At[<<Front(p), h>>] /\ q2 = Append(dir2, Last(p)) /\ found2 = At[<<p, h>>]
            /\ \/ (dir2 \notin DOMAIN fs \/ fs[dir2].type # "dir") /\ found2 = Gone
               \/ /\ dir2 \in DOMAIN fs /\ fs[dir2].type = "dir"
                  /\ \/ (q2 \notin DOMAIN fs \/ fs[q2].type # "link") /\ found2 = q2
                     \/ q2 \in DOMAIN fs /\ fs[q2].type = "link" /\ h = 0 /\ found2 = Gone
                     \/ /\ q2 \in DOMAIN fs /\ fs[q2].type = "link" /\ h # 0
                        /\ found2 = At[<<fs[q2].to, h - 1>>]
      BY <2>2, LookupStep DEF StepTells
    <3>4. dir2 = dir /\ q2 = q
      BY <3>1, <3>2, <3>3
    <3>5. found \in DOMAIN fs /\ found # Gone /\ found2 \notin DOMAIN fs
      BY <2>1, <3>2, <3>3 DEF IsTree
    <3>6. q \in DOMAIN fs /\ fs[q].type = "link" /\ found = At[<<fs[q].to, h>>]
      <4>1. dir \in DOMAIN fs /\ fs[dir].type = "dir"
        BY <3>2, <3>5
      <4>2. q \in DOMAIN fs /\ fs[q].type = "link"
        <5>1. ASSUME q \notin DOMAIN fs \/ fs[q].type # "link" PROVE FALSE
          <6>1. found = q
            BY <3>2, <4>1, <5>1
          <6>2. found2 = q
            BY <3>3, <3>4, <4>1, <5>1
          <6> QED BY <3>5, <6>1, <6>2
        <5> QED BY <5>1
      <4>3. (h + 1) - 1 = h
        OBVIOUS
      <4>4. q \in DOMAIN fs /\ fs[q].type = "link" /\ found = At[<<fs[q].to, (h + 1) - 1>>]
        BY <3>2, <3>5, <4>2
      <4> QED BY <4>3, <4>4
    <3>7. h # 0 => found2 = At[<<fs[q].to, h - 1>>]
      BY <3>2, <3>3, <3>4, <3>5, <3>6
    <3>8. Takes(fs[q].to, h)
      BY <3>5, <3>6, <3>7 DEF Takes
    <3>9. q \in LinksTaking(h)
      BY <3>6, <3>8 DEF LinksTaking
    <3> QED BY <3>9
  <2> QED BY <2>5, <2>6
<1>4. \A p \in Seq(STRING), k \in Nat : <<p, k>> \in Q
  BY <1>3, LookupInduction
<1>5. h + 1 \in Nat
  OBVIOUS
<1> QED BY <1>2, <1>4, <1>5

\* And so there is one that takes h, one that takes h - 1, and so on.
LEMMA LinksAllTheWay ==
  ASSUME IsTree(fs), NEW h \in Nat, NEW p \in Seq(STRING), Takes(p, h + 1)
  PROVE  \A k \in 0 .. h : LinksTaking(k) # {}
<1>1. PICK T : T = {j \in Nat : j <= h => LinksTaking(h - j) # {}}
  OBVIOUS
<1>2. 0 \in T
  <2>1. h - 0 = h
    OBVIOUS
  <2> QED BY <1>1, <2>1, LinkOnTheWay
<1>3. ASSUME NEW j \in T PROVE j + 1 \in T
  <2>1. j \in Nat /\ j + 1 \in Nat
    BY <1>1
  <2> SUFFICES ASSUME j + 1 <= h PROVE LinksTaking(h - (j + 1)) # {}
    BY <1>1, <2>1
  <2>2. PICK k \in Nat : k = h - (j + 1) /\ k + 1 = h - j
    BY <2>1
  <2>3. LinksTaking(k + 1) # {}
    BY <1>1, <2>1, <2>2
  <2>4. PICK q : q \in DOMAIN fs /\ fs[q].type = "link" /\ Takes(fs[q].to, k + 1)
    BY <2>3 DEF LinksTaking
  <2>5. fs[q].to \in Seq(STRING)
    BY <2>4 DEF IsTree
  <2> QED BY <2>2, <2>4, <2>5, LinkOnTheWay
<1>4. T = Nat
  <2>1. T \subseteq Nat
    BY <1>1
  <2> QED BY <1>2, <1>3, <2>1, NaturalInduction
<1>5. ASSUME NEW k \in 0 .. h PROVE LinksTaking(k) # {}
  <2>1. PICK j \in Nat : j <= h /\ h - j = k
    <3>1. h - k \in Nat /\ h - k <= h /\ h - (h - k) = k
      OBVIOUS
    <3> QED BY <3>1
  <2> QED BY <1>1, <1>4, <2>1
<1> QED BY <1>5

\* A link takes what it takes, once.
LEMMA TakesOnce ==
  ASSUME IsTree(fs), NEW p \in Seq(STRING), NEW h \in Nat, NEW k \in Nat, Takes(p, h), Takes(p, k)
  PROVE  h = k
<1>1. ASSUME NEW m \in Nat, NEW n \in Nat, Takes(p, m), Takes(p, n), m < n PROVE FALSE
  <2>1. PICK T : T = {j \in Nat : At[<<p, m + j>>] \in DOMAIN fs}
    OBVIOUS
  <2>2. 0 \in T
    <3>1. m + 0 = m
      OBVIOUS
    <3> QED BY <1>1, <2>1, <3>1 DEF Takes
  <2>3. ASSUME NEW j \in T PROVE j + 1 \in T
    <3>1. j \in Nat /\ j + 1 \in Nat /\ m + j \in Nat /\ m + (j + 1) = (m + j) + 1
      BY <2>1
    <3>2. At[<<p, m + j>>] \in DOMAIN fs
      BY <2>1
    <3>3. At[<<p, (m + j) + 1>>] \in DOMAIN fs
      BY <3>1, <3>2, FoundLasts
    <3> QED BY <2>1, <3>1, <3>3
  <2>4. T = Nat
    <3>1. T \subseteq Nat
      BY <2>1
    <3> QED BY <2>2, <2>3, <3>1, NaturalInduction
  <2>5. PICK j \in Nat : n - 1 = m + j
    <3>1. (n - 1) - m \in Nat /\ n - 1 = m + ((n - 1) - m)
      BY <1>1
    <3> QED BY <3>1
  <2>6. At[<<p, n - 1>>] \in DOMAIN fs
    BY <2>1, <2>4, <2>5
  <2>7. n # 0
    BY <1>1
  <2> QED BY <1>1, <2>6, <2>7 DEF Takes
<1>2. ~(h < k) /\ ~(k < h)
  BY <1>1
<1> QED BY <1>2

\* With no more links than the kernel follows one behind the other, whatever
\* can be found by following more of them the kernel finds.
LEMMA FewLinksOpen ==
  ASSUME IsTree(fs), NEW S, IsFiniteSet(S), Cardinality(S) <= MaxDepth + 1,
         \A q \in DOMAIN fs : fs[q].type = "link" => q \in S
  PROVE  OpensWhatItCan
<1>1. PICK h \in Nat : h = MaxDepth + 1
  BY Hops
<1>2. ASSUME NEW p \in Seq(STRING), At[<<p, h + 1>>] \in DOMAIN fs, At[<<p, h>>] \notin DOMAIN fs
      PROVE  FALSE
  <2>1. Takes(p, h + 1)
    <3>1. (h + 1) - 1 = h
      OBVIOUS
    <3> QED BY <1>2, <3>1 DEF Takes
  <2>2. \A k \in 0 .. h : LinksTaking(k) # {}
    BY <2>1, LinksAllTheWay
  <2>3. PICK f : f = [k \in 0 .. h |-> CHOOSE q \in LinksTaking(k) : TRUE]
    OBVIOUS
  <2>4. ASSUME NEW k \in 0 .. h PROVE f[k] \in LinksTaking(k)
    BY <2>2, <2>3
  <2>5. ASSUME NEW k \in 0 .. h
        PROVE  f[k] \in S /\ fs[f[k]].to \in Seq(STRING) /\ Takes(fs[f[k]].to, k)
    BY <2>4 DEF LinksTaking, IsTree
  <2>6. ASSUME NEW k \in 0 .. h, NEW m \in 0 .. h, f[k] = f[m] PROVE k = m
    <3>1. k \in Nat /\ m \in Nat
      OBVIOUS
    <3>2. PICK q \in Seq(STRING) : q = fs[f[k]].to
      BY <2>5
    <3>3. Takes(q, k) /\ Takes(q, m)
      BY <2>5, <2>6, <3>2
    <3> QED BY <3>1, <3>3, TakesOnce
  <2>7. f \in [0 .. h -> S]
    BY <2>3, <2>5
  <2>8. f \in Injection(0 .. h, S)
    BY <2>6, <2>7 DEF Injection, IsInjective
  <2>9. Cardinality(0 .. h) <= Cardinality(S)
    BY <2>8, FS_Injection
  <2>10. Cardinality(0 .. h) = h + 1
    <3>1. 0 \in Int /\ h \in Int /\ ~(0 > h) /\ h - 0 + 1 = h + 1
      OBVIOUS
    <3>2. Cardinality(0 .. h) = IF 0 > h THEN 0 ELSE h - 0 + 1
      BY ONLY <3>1, FS_Interval
    <3> QED BY <3>1, <3>2
  <2>11. Cardinality(S) \in Nat
    BY FS_CardinalityType
  <2> QED BY <1>1, <2>9, <2>10, <2>11
<1>3. MaxDepth + 2 = h + 1
  BY <1>1, Hops
<1> QED BY <1>1, <1>2, <1>3 DEF OpensWhatItCan, Exists, Opened

\* An execution reaches what its permit was issued for on every host where there
\* are no more links, with those others may make, than the kernel follows one
\* behind the other (MAX_SYMLINK_DEPTH of workspace.ts).
THEOREM ExecutionsLandAmongFewLinks ==
  ASSUME IsFiniteSet(Links), Cardinality(Links) <= MaxDepth + 1
  PROVE  ExecutionSpec => []LandsWherePermitted
<1>1. LandingInvariant /\ [ExecutionNext]_executionVars => LandingInvariant'
  <2>1. TreeFits => OpensWhatItCan
    BY FittingTree, FewLinksOpen DEF TreeFits
  <2> QED BY <2>1, LandingKept
<1>2. LandingInvariant => LandsWherePermitted
  BY DEF LandingInvariant
<1> QED BY <1>1, <1>2, LandingBegins, PTL DEF ExecutionSpec
=============================================================================
