--------------------------- MODULE HandoffLaunch ---------------------------
(***************************************************************************)
(* At most one launch per incident and issue, for every set of runs,       *)
(* issues and documents: the safety of the reservation tags, and the       *)
(* refinement of LaunchLedger.                                             *)
(***************************************************************************)
EXTENDS HandoffTypes

(* The inductive invariant says three things beyond types: the tags, and   *)
(* the requests for them still under way, only ever describe a fingerprint *)
(* reservation that is already there; what a run remembers of the tags is  *)
(* still what they say; and the run that wrote a launched reservation is   *)
(* past its decision, so that it will not launch again.                    *)

RefsOK ==
    /\ \A f \in Fingerprint :
         fpRef[f] # None => FingerprintOf[fpRef[f].doc] = f
    /\ \A n \in Issue : issueRef[n] # None =>
         /\ issueRef[n].issue = n
         /\ issueRef[n] = fpRef[FingerprintOf[issueRef[n].doc]]
         /\ issues[n].doc \in since[n]
    /\ \A q \in late : q.kind = "issue" =>
         q.intent = fpRef[FingerprintOf[q.intent.doc]]

Consistent(r, s) ==
    /\ s.pc # "disagree"
    /\ s.pc \in Located =>
         /\ s.claim # None => /\ s.claim = issueRef[s.issue]
                              /\ FingerprintOf[s.claim.doc] = FingerprintOf[s.doc]
         /\ s.intent # None => s.intent = fpRef[FingerprintOf[s.doc]]
         /\ s.pc = "reserve-issue" \/ s.new =>
              s.intent = [by |-> r, issue |-> s.issue, doc |-> s.doc]
         /\ s.new => /\ s.claim = s.intent
                     /\ s.pc \in {"recheck", "assign"} \cup (Located \ Deciding)
         /\ s.pc = "assign" => s.new /\ s.doc \in since[s.issue]

\* A run that may still come to send the assignment request.
Undecided(s) == s.pc \in {"idle"} \cup Deciding

LaunchesOK ==
    \A f \in Fingerprint, n \in Issue : launches[f][n] > 0 =>
        /\ launches[f][n] = 1
        /\ Reserved(f, n)
        /\ ~Undecided(runs[fpRef[f].by])
        /\ issueRef[n].doc \in since[n]

RunsOK == \A r \in Run : Consistent(r, runs[r])

Inv == ITypeOK /\ RefsOK /\ RunsOK /\ LaunchesOK

\* Tags are created and never changed; the bodies seen are never forgotten.
Grows ==
    /\ \A f \in Fingerprint : fpRef[f] # None => fpRef'[f] = fpRef[f]
    /\ \A n \in Issue : issueRef[n] # None => /\ issueRef'[n] = issueRef[n]
                                              /\ since[n] \subseteq since'[n]

LEMMA GrownConsistent ==
    ASSUME Inv, Grows, NEW r \in Run
    PROVE  \A s : s = runs[r] => Consistent(r, s)'
<1> SUFFICES ASSUME NEW s, s = runs[r]
             PROVE  Consistent(r, s)'
  BY DEF Inv, RunsOK
<1>1. Consistent(r, s) /\ LocalOK(s)
  BY DEF Inv, RunsOK, ITypeOK
<1>2. CASE s.pc \notin Located
  BY <1>1, <1>2 DEF Consistent
<1>3. CASE s.pc \in Located
  <2>1. /\ s.issue \in Issue /\ s.doc \in Document
        /\ FingerprintOf[s.doc] \in Fingerprint
        /\ s.intent \in Intent \cup {None} /\ s.claim \in Intent \cup {None}
    BY <1>1, <1>3, ConstantFacts DEF LocalOK, RunState
  <2>2. s.claim # None => s.claim = issueRef'[s.issue]
    BY <1>1, <1>3, <2>1 DEF Consistent, Grows
  <2>3. s.intent # None => s.intent = fpRef'[FingerprintOf[s.doc]]
    BY <1>1, <1>3, <2>1 DEF Consistent, Grows
  <2>4. s.pc = "assign" => s.doc \in since'[s.issue]
    <3>1. s.new => s.claim # None
      BY <1>1, <1>3, <2>1, ConstantFacts DEF Consistent, Intent
    <3>2. QED BY <1>1, <1>3, <2>1, <3>1 DEF Consistent, Grows
  <2>5. QED BY <1>1, <1>3, <2>1, <2>2, <2>3, <2>4 DEF Consistent
<1>4. QED BY <1>2, <1>3

\* One run goes from a state to another, the tags at most grow.
LEMMA RunStep ==
    ASSUME Inv, ITypeOK', RefsOK', Grows, launches' = launches,
           NEW r \in Run, NEW s, Become(r, s), Consistent(r, s)',
           Undecided(runs[r]) \/ ~Undecided(s)
    PROVE  Inv'
<1>1. runs' = [runs EXCEPT ![r] = s] /\ runs \in [Run -> RunState]
  BY DEF Become, Inv, ITypeOK, TypeOK
<1>2. RunsOK'
  <2> SUFFICES ASSUME NEW q \in Run
               PROVE  Consistent(q, runs[q])'
    BY DEF RunsOK
  <2>1. CASE q = r
    BY <1>1, <2>1
  <2>2. CASE q # r
    <3>1. PICK t : t = runs[q]
      OBVIOUS
    <3>2. Consistent(q, t)'
      BY <3>1, GrownConsistent
    <3>3. runs'[q] = t
      BY <1>1, <2>2, <3>1
    <3>4. QED BY <3>2, <3>3
  <2>3. QED BY <2>1, <2>2
<1>3. LaunchesOK'
  <2> SUFFICES ASSUME NEW f \in Fingerprint, NEW n \in Issue, launches[f][n] > 0
               PROVE  /\ launches[f][n] = 1
                      /\ Reserved(f, n)'
                      /\ ~Undecided(runs[fpRef[f].by])'
                      /\ issueRef'[n].doc \in since'[n]
    BY DEF LaunchesOK
  <2>1. /\ launches[f][n] = 1 /\ Reserved(f, n)
        /\ ~Undecided(runs[fpRef[f].by]) /\ issueRef[n].doc \in since[n]
    BY DEF Inv, LaunchesOK
  <2>2. fpRef[f] # None /\ issueRef[n] # None /\ fpRef[f] \in Intent
    BY <2>1 DEF Reserved, Inv, ITypeOK, TypeOK
  <2>3. /\ fpRef'[f] = fpRef[f] /\ issueRef'[n] = issueRef[n]
        /\ since[n] \subseteq since'[n]
    BY <2>2 DEF Grows
  <2>4. ~Undecided(runs'[fpRef[f].by])
    <3>1. fpRef[f].by \in Run
      BY <2>2 DEF Intent
    <3>2. CASE fpRef[f].by = r
      BY <1>1, <2>1, <3>1, <3>2
    <3>3. CASE fpRef[f].by # r
      BY <1>1, <2>1, <3>1, <3>3
    <3>4. QED BY <3>2, <3>3
  <2>5. QED BY <2>1, <2>3, <2>4 DEF Reserved, Undecided
<1>4. QED BY <1>2, <1>3 DEF Inv

\* No run takes a step, the tags at most grow.
LEMMA QuietStep ==
    ASSUME Inv, ITypeOK', RefsOK', Grows, UNCHANGED <<launches, runs>>
    PROVE  Inv'
<1>1. RunsOK'
  <2> SUFFICES ASSUME NEW q \in Run
               PROVE  Consistent(q, runs[q])'
    BY DEF RunsOK
  <2>1. PICK t : t = runs[q]
    OBVIOUS
  <2>2. Consistent(q, t)'
    BY <2>1, GrownConsistent
  <2>3. QED BY <2>1, <2>2
<1>2. LaunchesOK'
  BY DEF LaunchesOK, Grows, Inv, ITypeOK, TypeOK, Reserved, Undecided
<1>3. QED BY <1>1, <1>2 DEF Inv

-----------------------------------------------------------------------------
(* The references stay in order whenever no tag is written and no request  *)
(* for an issue's tag is given up.                                         *)

LEMMA NoTagWritten ==
    ASSUME Inv, UNCHANGED <<fpRef, issueRef, since>>,
           \A n \in Issue : issues'[n].doc = issues[n].doc,
           \A q \in late' : q \in late \/ q.kind # "issue"
    PROVE  RefsOK' /\ Grows
BY DEF Inv, RefsOK, Grows

\* A run that only reads, or writes nothing but evidence and labels.
LEMMA RunOnly ==
    ASSUME Inv, ITypeOK', UNCHANGED <<fpRef, issueRef, since, launches>>,
           \A n \in Issue : issues'[n].doc = issues[n].doc,
           \A q \in late' : q \in late \/ q.kind # "issue",
           NEW r \in Run, NEW s, Become(r, s), Consistent(r, s),
           Undecided(runs[r]) \/ ~Undecided(s)
    PROVE  Inv'
<1>1. RefsOK' /\ Grows
  BY NoTagWritten
<1>2. Consistent(r, s)'
  BY DEF Consistent
<1>3. QED BY <1>1, <1>2, RunStep

\* An exception is always consistent.
LEMMA RaisedConsistent ==
    ASSUME NEW r \in Run
    PROVE  Consistent(r, [Blank EXCEPT !.pc = "error"])
BY DEF Consistent, Blank, Located, Deciding, Reporting

\* Local steps that keep what the run knows of its reservation.
LEMMA KnowledgeKept ==
    ASSUME NEW r \in Run, NEW s \in RunState, NEW t \in RunState,
           Consistent(r, s), s.pc \in Located, t.pc \in Located,
           t.issue = s.issue, t.doc = s.doc, t.claim = s.claim,
           t.intent = s.intent, t.new = s.new,
           t.pc \in {"reserve-issue", "assign"} => FALSE,
           s.new => t.pc \in {"recheck"} \cup (Located \ Deciding)
    PROVE  Consistent(r, t)
BY DEF Consistent, Located, Deciding, Reporting

\* What the type invariant says of a run in the middle of its work.
LEMMA LocatedRun ==
    ASSUME Inv, NEW r \in Run, runs[r].pc \in Located
    PROVE  /\ runs[r] \in RunState /\ Consistent(r, runs[r])
           /\ runs[r].issue \in Issue /\ runs[r].doc \in Document
           /\ FingerprintOf[runs[r].doc] \in Fingerprint
           /\ runs[r].claim \in Intent \cup {None}
           /\ runs[r].intent \in Intent \cup {None}
           /\ OwnIntent(r) \in Intent /\ None \notin Intent
BY ConstantFacts
DEF Inv, RunsOK, ITypeOK, LocalOK, RunState, OwnIntent, Number, Intent

-----------------------------------------------------------------------------
(* One lemma per action *)

LEMMA BeginInv ==
    ASSUME Inv, ITypeOK', NEW r \in Run, NEW n \in Issue, Begin(r, n)
    PROVE  Inv'
<1>1. /\ UNCHANGED <<fpRef, issueRef, since, launches>>
      /\ \A m \in Issue : issues'[m].doc = issues[m].doc
      /\ \A q \in late' : q \in late \/ q.kind # "issue"
      /\ Undecided(runs[r])
  BY DEF Begin, github, history, At, Undecided
<1>2. PICK s : Become(r, s) /\ Consistent(r, s)
  <2>1. CASE Valid(n)
    <3>1. Consistent(r, [Blank EXCEPT !.pc = "issue-ref", !.issue = n,
                                      !.doc = issues[n].doc])
      BY DEF Consistent, Blank, Located, Deciding, Reporting
    <3>2. QED BY <2>1, <3>1 DEF Begin
  <2>2. CASE ~Valid(n)
    BY <2>2, RaisedConsistent DEF Begin, Raise
  <2>3. QED BY <2>1, <2>2
<1>3. QED BY <1>1, <1>2, RunOnly

LEMMA ReadIssueRefInv ==
    ASSUME Inv, ITypeOK', NEW r \in Run, ReadIssueRef(r) \/ Reread(r)
    PROVE  Inv'
<1> DEFINE s == runs[r]
           ref == issueRef[s.issue]
           t(p) == [s EXCEPT !.pc = p, !.claim = ref]
<1>1. /\ UNCHANGED <<fpRef, issueRef, since, launches>>
      /\ \A m \in Issue : issues'[m].doc = issues[m].doc
      /\ \A q \in late' : q \in late \/ q.kind # "issue"
      /\ Undecided(runs[r])
  BY DEF ReadIssueRef, Reread, github, history, At, Undecided, Deciding
<1>2. /\ s \in RunState /\ Consistent(r, s) /\ s.issue \in Issue
      /\ s.pc \in {"issue-ref", "reread"} /\ s.pc \in Located
  BY LocatedRun DEF ReadIssueRef, Reread, At, Located, Deciding
<1>3. PICK u : Become(r, u) /\ Consistent(r, u)
  <2>1. CASE Mismatch(ref, Fp(r))
    BY <2>1, RaisedConsistent DEF ReadIssueRef, Reread, Raise, Number
  <2>2. ASSUME NEW p \in {"fp-ref", "recheck"}, ~Mismatch(ref, Fp(r))
        PROVE  Consistent(r, t(p))
    BY <1>2, <2>2
    DEF Consistent, Mismatch, Fp, RunState, Located, Deciding, Reporting
  <2>3. CASE ~Mismatch(ref, Fp(r)) /\ ReadIssueRef(r)
    BY <2>2, <2>3 DEF ReadIssueRef, Number
  <2>4. CASE ~Mismatch(ref, Fp(r)) /\ Reread(r)
    BY <2>2, <2>4 DEF Reread, Number
  <2>5. QED BY <2>1, <2>3, <2>4
<1>4. QED BY <1>1, <1>3, RunOnly

\* Owned keeps what the run knows, and a new reservation is rechecked.
LEMMA OwnedConsistent ==
    ASSUME NEW r \in Run, NEW s \in RunState,
           s.claim # None => /\ s.claim = issueRef[s.issue]
                             /\ FingerprintOf[s.claim.doc] = FingerprintOf[s.doc],
           s.intent # None => s.intent = fpRef[FingerprintOf[s.doc]],
           s.new => /\ s.claim = s.intent
                    /\ s.intent = [by |-> r, issue |-> s.issue, doc |-> s.doc]
                    /\ s.claim # None
    PROVE  Consistent(r, Owned(s))
<1>1. CASE s.intent.issue # s.issue
  BY <1>1 DEF Owned, Report, Consistent, RunState, Located, Deciding, Reporting
<1>2. CASE s.intent.issue = s.issue /\ s.claim = None
  BY <1>2 DEF Owned, Consistent, RunState, Located, Deciding, Reporting
<1>3. CASE s.intent.issue = s.issue /\ s.claim # None
  BY <1>3 DEF Owned, Consistent, RunState, Located, Deciding, Reporting
<1>4. QED BY <1>1, <1>2, <1>3

LEMMA ReadFpRefInv ==
    ASSUME Inv, ITypeOK', NEW r \in Run, ReadFpRef(r)
    PROVE  Inv'
<1> DEFINE s == runs[r]
           ref == fpRef[FingerprintOf[s.doc]]
           t == [s EXCEPT !.intent = ref]
<1>1. /\ UNCHANGED <<fpRef, issueRef, since, launches>>
      /\ \A m \in Issue : issues'[m].doc = issues[m].doc
      /\ \A q \in late' : q \in late \/ q.kind # "issue"
      /\ Undecided(runs[r])
  BY DEF ReadFpRef, github, history, At, Undecided, Deciding
<1>2. /\ s \in RunState /\ Consistent(r, s) /\ s.issue \in Issue
      /\ FingerprintOf[s.doc] \in Fingerprint
      /\ s.pc = "fp-ref" /\ s.pc \in Located
  BY LocatedRun DEF ReadFpRef, At, Located, Deciding
<1>3. /\ ~s.new
      /\ s.claim # None => /\ s.claim = issueRef[s.issue]
                           /\ FingerprintOf[s.claim.doc] = FingerprintOf[s.doc]
  BY <1>2 DEF Consistent, Located, Deciding, Reporting
<1>4. ref \in Intent \cup {None}
  BY <1>2 DEF Inv, ITypeOK, TypeOK
<1>5. /\ t \in RunState /\ t.claim = s.claim /\ t.issue = s.issue
      /\ t.doc = s.doc /\ t.new = s.new /\ t.intent = ref
  BY <1>2, <1>4 DEF RunState
\* The pair was read in the order in which it is written.
<1>6. ~(s.claim # None /\ ref # s.claim)
  BY <1>2, <1>3 DEF Inv, RefsOK
<1>7. PICK u : Become(r, u) /\ Consistent(r, u)
  <2>1. CASE ref = None
    <3> DEFINE v == [t EXCEPT !.pc = "eligible"]
    <3>1. Become(r, v)
      BY <1>6, <2>1 DEF ReadFpRef, Fp
    <3>2. Consistent(r, v)
      <4>1. /\ v.pc = "eligible" /\ v.claim = s.claim /\ v.issue = s.issue
            /\ v.doc = s.doc /\ v.new = s.new /\ v.intent = None
        <5> HIDE DEF t
        <5>1. QED BY <1>5, <2>1 DEF RunState
      <4> HIDE DEF v
      <4>2. QED BY <1>3, <4>1 DEF Consistent
    <3>3. QED BY <3>1, <3>2
  <2>2. CASE ref # None
    <3>1. Become(r, Owned(t))
      BY <1>6, <2>2 DEF ReadFpRef, Fp
    <3>2. Consistent(r, Owned(t))
      <4> HIDE DEF t
      <4>1. QED BY <1>3, <1>5, OwnedConsistent
    <3>3. QED BY <3>1, <3>2
  <2>3. QED BY <2>1, <2>2
<1>8. QED BY <1>1, <1>7, RunOnly

LEMMA CheckLaunchableInv ==
    ASSUME Inv, ITypeOK', NEW r \in Run, CheckLaunchable(r)
    PROVE  Inv'
<1> DEFINE s == runs[r]
           t == [s EXCEPT !.pc = "reserve-fp"]
<1>1. /\ UNCHANGED <<fpRef, issueRef, since, launches>>
      /\ \A m \in Issue : issues'[m].doc = issues[m].doc
      /\ \A q \in late' : q \in late \/ q.kind # "issue"
      /\ Undecided(s) /\ Become(r, t)
  BY DEF CheckLaunchable, Goto, github, history, At, Undecided, Deciding
<1>2. s \in RunState /\ Consistent(r, s) /\ s.pc = "eligible" /\ s.pc \in Located
  BY LocatedRun DEF CheckLaunchable, At, Located, Deciding
<1>3. Consistent(r, t)
  BY <1>2 DEF Consistent, RunState, Located, Deciding, Reporting
<1>4. QED BY <1>1, <1>3, RunOnly

\* A fingerprint's tag is written with an annotation of that fingerprint.
LEMMA FpRefWritten ==
    ASSUME Inv, NEW i \in Intent, CreateFpRef(i),
           UNCHANGED <<issues, issueRef, since>>,
           \A q \in late' : q \in late
    PROVE  /\ RefsOK' /\ Grows
           /\ fpRef[FingerprintOf[i.doc]] = None =>
                fpRef'[FingerprintOf[i.doc]] = i
<1> DEFINE f == FingerprintOf[i.doc]
<1>1. /\ f \in Fingerprint
      /\ fpRef' = [fpRef EXCEPT ![f] = IF fpRef[f] = None THEN i ELSE fpRef[f]]
      /\ fpRef \in [Fingerprint -> Intent \cup {None}] /\ None \notin Intent
  BY ConstantFacts DEF CreateFpRef, Intent, Inv, ITypeOK, TypeOK
<1>2. \A g \in Fingerprint : fpRef[g] # None => fpRef'[g] = fpRef[g]
  BY <1>1
<1>3. \A n \in Issue : issueRef[n] # None =>
         /\ issueRef[n] \in Intent
         /\ FingerprintOf[issueRef[n].doc] \in Fingerprint
  BY ConstantFacts DEF Inv, ITypeOK, TypeOK, Intent
<1>4. \A q \in late : q.kind = "issue" =>
         /\ q.intent \in Intent
         /\ FingerprintOf[q.intent.doc] \in Fingerprint
  BY ConstantFacts DEF Inv, ITypeOK, TypeOK, Request, Intent
<1>5. RefsOK'
  <2>1. \A g \in Fingerprint :
           fpRef'[g] # None => FingerprintOf[fpRef'[g].doc] = g
    BY <1>1 DEF Inv, RefsOK
  <2>2. \A n \in Issue : issueRef'[n] # None =>
           /\ issueRef'[n].issue = n
           /\ issueRef'[n] = fpRef'[FingerprintOf[issueRef'[n].doc]]
           /\ issues'[n].doc \in since'[n]
    BY <1>2, <1>3 DEF Inv, RefsOK
  <2>3. \A q \in late' : q.kind = "issue" =>
           q.intent = fpRef'[FingerprintOf[q.intent.doc]]
    BY <1>1, <1>2, <1>4 DEF Inv, RefsOK
  <2>4. QED BY <2>1, <2>2, <2>3 DEF RefsOK
<1>6. QED BY <1>1, <1>2, <1>5 DEF Grows

LEMMA ReserveFingerprintInv ==
    ASSUME Inv, ITypeOK', NEW r \in Run, ReserveFingerprint(r)
    PROVE  Inv'
<1> DEFINE s == runs[r]
           f == FingerprintOf[s.doc]
           i == OwnIntent(r)
<1>1. /\ s \in RunState /\ Consistent(r, s) /\ s.issue \in Issue
      /\ f \in Fingerprint /\ s.pc = "reserve-fp" /\ s.pc \in Located
      /\ i \in Intent /\ None \notin Intent
      /\ i = [by |-> r, issue |-> s.issue, doc |-> s.doc]
  BY LocatedRun DEF ReserveFingerprint, At, Located, Deciding, OwnIntent, Number
<1>2. /\ CreateFpRef(i)
      /\ UNCHANGED <<issues, issueRef, since, late, launches>>
      /\ Undecided(s)
  BY DEF ReserveFingerprint, history, At, Undecided, Deciding
<1>3. RefsOK' /\ Grows /\ (fpRef[f] = None => fpRef'[f] = i)
  BY <1>1, <1>2, FpRefWritten
<1>4. /\ ~s.new
      /\ s.claim # None => /\ s.claim = issueRef[s.issue]
                           /\ FingerprintOf[s.claim.doc] = FingerprintOf[s.doc]
  BY <1>1 DEF Consistent, Located, Deciding, Reporting
<1>5. CASE fpRef[f] = None
  <2>1. PICK t : t = [s EXCEPT !.pc = "reserve-issue", !.intent = i]
    OBVIOUS
  <2>2. Become(r, t)
    BY <1>5, <2>1 DEF ReserveFingerprint, Fp
  <2>3. /\ t.pc = "reserve-issue" /\ t.claim = s.claim /\ t.issue = s.issue
        /\ t.doc = s.doc /\ t.new = s.new /\ t.intent = i
    BY <1>1, <2>1 DEF RunState
  <2>4. Consistent(r, t)'
    BY <1>1, <1>2, <1>3, <1>4, <1>5, <2>3 DEF Consistent, Located, Deciding, Reporting
  <2>5. QED BY <1>2, <1>3, <2>2, <2>4, RunStep
<1>6. CASE fpRef[f] # None
  <2>1. PICK t : t = [s EXCEPT !.intent = fpRef[f]]
    OBVIOUS
  <2>2. fpRef[f] \in Intent
    BY <1>1, <1>6 DEF Inv, ITypeOK, TypeOK
  <2>3. /\ t \in RunState /\ t.claim = s.claim /\ t.issue = s.issue
        /\ t.doc = s.doc /\ t.new = s.new /\ t.intent = fpRef[f]
    BY <1>1, <2>1, <2>2 DEF RunState
  <2>4. PICK u : u = Owned(t)
    OBVIOUS
  <2>5. Consistent(r, u)
    BY <1>4, <2>3, <2>4, OwnedConsistent
  <2>6. Become(r, u)
    BY <1>6, <2>1, <2>4 DEF ReserveFingerprint, Fp
  <2>7. UNCHANGED fpRef
    BY <1>1, <1>2, <1>6 DEF CreateFpRef, Inv, ITypeOK, TypeOK
  <2>8. Consistent(r, u)'
    BY <1>2, <2>5, <2>7 DEF Consistent
  <2>9. QED BY <1>2, <1>3, <2>6, <2>8, RunStep
<1>7. QED BY <1>5, <1>6

\* An issue's tag is written with the annotation of its fingerprint's tag.
LEMMA IssueRefWritten ==
    ASSUME Inv, NEW i \in Intent, CreateIssueRef(i),
           i = fpRef[FingerprintOf[i.doc]],
           UNCHANGED <<issues, fpRef>>, \A q \in late' : q \in late
    PROVE  /\ RefsOK' /\ Grows
           /\ issueRef[i.issue] = None => issueRef'[i.issue] = i
<1> DEFINE n == i.issue
<1>1. /\ n \in Issue /\ None \notin Intent
      /\ issueRef' = [issueRef EXCEPT ![n] =
                        IF issueRef[n] = None THEN i ELSE issueRef[n]]
      /\ issueRef \in [Issue -> Intent \cup {None}]
      /\ since \in [Issue -> SUBSET (Document \cup {None})]
      /\ since' = IF issueRef[n] = None
                    THEN [since EXCEPT ![n] = {issues[n].doc}]
                    ELSE since
  BY ConstantFacts DEF CreateIssueRef, Intent, Inv, ITypeOK, TypeOK
<1>2. Grows
  BY <1>1 DEF Grows
<1>3. \A m \in Issue : issueRef'[m] # None =>
         /\ issueRef'[m].issue = m
         /\ issueRef'[m] = fpRef'[FingerprintOf[issueRef'[m].doc]]
         /\ issues'[m].doc \in since'[m]
  BY <1>1 DEF Inv, RefsOK
<1>4. RefsOK'
  BY <1>3 DEF Inv, RefsOK
<1>5. QED BY <1>1, <1>2, <1>4

LEMMA ReserveIssueInv ==
    ASSUME Inv, ITypeOK', NEW r \in Run, ReserveIssue(r)
    PROVE  Inv'
<1> DEFINE s == runs[r]
           f == FingerprintOf[s.doc]
           i == s.intent
           ref == issueRef[s.issue]
<1>1. /\ s \in RunState /\ Consistent(r, s) /\ s.issue \in Issue
      /\ f \in Fingerprint /\ s.pc = "reserve-issue" /\ s.pc \in Located
      /\ None \notin Intent /\ OwnIntent(r) \in Intent
      /\ OwnIntent(r) = [by |-> r, issue |-> s.issue, doc |-> s.doc]
  BY LocatedRun DEF ReserveIssue, At, Located, Deciding, OwnIntent, Number
<1>2. /\ i = OwnIntent(r) /\ i \in Intent
      /\ i.issue = s.issue /\ i.doc = s.doc /\ i = fpRef[f]
      /\ ~s.new
  BY <1>1 DEF Consistent, Located, Deciding, Reporting
<1>3. /\ CreateIssueRef(i)
      /\ UNCHANGED <<issues, fpRef, late, launches>>
      /\ Undecided(s)
  BY DEF ReserveIssue, history, At, Undecided, Deciding
<1>4. RefsOK' /\ Grows /\ (ref = None => issueRef'[s.issue] = i)
  BY <1>2, <1>3, IssueRefWritten
<1>5. CASE ref = None
  <2>1. PICK t : t = [s EXCEPT !.new = TRUE, !.claim = i]
    OBVIOUS
  <2>2. t \in RunState
    BY <1>1, <1>2, <2>1 DEF RunState
  <2>3. /\ t.claim = i /\ t.issue = s.issue /\ t.doc = s.doc /\ t.new = TRUE
        /\ t.intent = i
    BY <1>1, <2>1 DEF RunState
  <2>4. PICK u : u = Owned(t)
    OBVIOUS
  <2>5. u = [t EXCEPT !.pc = "recheck"]
    BY <1>1, <1>2, <2>3, <2>4 DEF Owned
  <2>6. /\ u.pc = "recheck" /\ u.claim = i /\ u.issue = s.issue /\ u.doc = s.doc
        /\ u.intent = i
    BY <2>2, <2>3, <2>5 DEF RunState
  <2>7. Consistent(r, u)'
    BY <1>1, <1>2, <1>3, <1>4, <1>5, <2>6
    DEF Consistent, Located, Deciding, Reporting
  <2>8. Become(r, u)
    BY <1>5, <2>1, <2>4 DEF ReserveIssue, Number
  <2>9. QED BY <1>3, <1>4, <2>7, <2>8, RunStep
<1>6. CASE ref # None /\ Mismatch(ref, f)
  <2>1. PICK u : u = [Blank EXCEPT !.pc = "error"]
    OBVIOUS
  <2>2. Consistent(r, u)'
    BY <2>1 DEF Consistent, Blank, Located, Deciding, Reporting
  <2>3. Become(r, u)
    BY <1>6, <2>1 DEF ReserveIssue, Raise, Number, Fp
  <2>4. QED BY <1>3, <1>4, <2>2, <2>3, RunStep
<1>7. CASE ref # None /\ ~Mismatch(ref, f)
  <2>1. PICK t : t = [s EXCEPT !.intent = ref]
    OBVIOUS
  <2>2. ref \in Intent
    BY <1>1, <1>7 DEF Inv, ITypeOK, TypeOK
  <2>3. /\ t \in RunState /\ t.claim = s.claim /\ t.issue = s.issue
        /\ t.doc = s.doc /\ t.new = s.new /\ t.intent = ref
    BY <1>1, <2>1, <2>2 DEF RunState
  <2>4. ref = fpRef[f]
    BY <1>1, <1>7 DEF Mismatch, Inv, RefsOK
  <2>5. PICK u : u = Owned(t)
    OBVIOUS
  <2>6. Consistent(r, u)
    <3>1. s.claim # None => /\ s.claim = issueRef[s.issue]
                            /\ FingerprintOf[s.claim.doc] = FingerprintOf[s.doc]
      BY <1>1 DEF Consistent
    <3>2. QED BY <1>2, <2>3, <2>4, <2>5, <3>1, OwnedConsistent
  <2>7. UNCHANGED <<issueRef, since>>
    BY <1>1, <1>2, <1>3, <1>7 DEF CreateIssueRef, Inv, ITypeOK, TypeOK
  <2>8. Consistent(r, u)'
    BY <1>3, <2>6, <2>7 DEF Consistent
  <2>9. Become(r, u)
    BY <1>7, <2>1, <2>5 DEF ReserveIssue, Number, Fp
  <2>10. QED BY <1>3, <1>4, <2>8, <2>9, RunStep
<1>8. QED BY <1>5, <1>6, <1>7 DEF Mismatch

LEMMA RecheckInv ==
    ASSUME Inv, ITypeOK', NEW r \in Run, Recheck(r)
    PROVE  Inv'
<1> DEFINE s == runs[r]
<1>1. /\ UNCHANGED <<fpRef, issueRef, since, launches>>
      /\ \A m \in Issue : issues'[m].doc = issues[m].doc
      /\ \A q \in late' : q \in late \/ q.kind # "issue"
      /\ Undecided(s)
  BY DEF Recheck, github, history, At, Undecided, Deciding
<1>2. /\ s \in RunState /\ Consistent(r, s) /\ s.issue \in Issue
      /\ s.pc = "recheck" /\ s.pc \in Located
      /\ OwnIntent(r) \in Intent /\ None \notin Intent
      /\ OwnIntent(r) = [by |-> r, issue |-> s.issue, doc |-> s.doc]
  BY LocatedRun DEF Recheck, At, Located, Deciding, OwnIntent, Number
<1>3. PICK t : Become(r, t) /\ Consistent(r, t)
  <2>1. CASE Become(r, [Blank EXCEPT !.pc = "error"])
    BY <2>1, RaisedConsistent
  <2>2. ASSUME NEW status \in Status, Become(r, Report(s, status))
        PROVE  \E t : Become(r, t) /\ Consistent(r, t)
    <3>1. PICK t : t = Report(s, status)
      OBVIOUS
    <3>2. t \in RunState
      BY <1>2, <3>1 DEF Report, RunState, Reporting
    <3>3. /\ t.pc = "publish" /\ t.issue = s.issue /\ t.doc = s.doc
          /\ t.claim = s.claim /\ t.intent = s.intent /\ t.new = s.new
      BY <1>2, <3>1 DEF Report, RunState
    <3>4. Consistent(r, t)
      BY <1>2, <3>2, <3>3, KnowledgeKept DEF Located, Deciding, Reporting
    <3>5. QED BY <2>2, <3>1, <3>4
  \* The launch is decided: the body was read after the reservation.
  <2>3. CASE /\ s.new /\ issues[s.issue].doc = s.doc
             /\ Become(r, [s EXCEPT !.pc = "assign"])
    <3>1. PICK t : t = [s EXCEPT !.pc = "assign"]
      OBVIOUS
    <3>2. /\ t.pc = "assign" /\ t.issue = s.issue /\ t.doc = s.doc
          /\ t.claim = s.claim /\ t.intent = s.intent /\ t.new = s.new
      BY <1>2, <3>1 DEF RunState
    <3>3. issueRef[s.issue] # None
      BY <1>2, <2>3 DEF Consistent
    <3>4. s.doc \in since[s.issue]
      BY <1>2, <2>3, <3>3 DEF Inv, RefsOK
    <3>5. Consistent(r, t)
      BY <1>2, <2>3, <3>2, <3>4 DEF Consistent, Located, Deciding, Reporting
    <3>6. QED BY <2>3, <3>1, <3>5
  <2>4. QED BY <2>1, <2>2, <2>3 DEF Recheck, Decided, Status
<1>4. QED BY <1>1, <1>3, RunOnly

\* What a run that may launch knows: it wrote the tags of its pair itself.
LEMMA AssigningRun ==
    ASSUME Inv, NEW r \in Run, At(r, "assign")
    PROVE  /\ Fp(r) \in Fingerprint /\ Number(r) \in Issue
           /\ fpRef[Fp(r)] = OwnIntent(r) /\ issueRef[Number(r)] = OwnIntent(r)
           /\ OwnIntent(r) \in Intent /\ None \notin Intent
           /\ Undecided(runs[r]) /\ runs[r].doc \in since[Number(r)]
<1>1. /\ Consistent(r, runs[r]) /\ runs[r].pc \in Located /\ None \notin Intent
      /\ Fp(r) \in Fingerprint /\ Number(r) \in Issue /\ OwnIntent(r) \in Intent
      /\ OwnIntent(r) = [by |-> r, issue |-> runs[r].issue, doc |-> runs[r].doc]
  BY LocatedRun DEF At, Located, Deciding, Fp, Number, OwnIntent
<1>2. QED BY <1>1 DEF Consistent, At, Undecided, Deciding, Fp, Number

\* The pair of a run that may launch has not been launched, nor any other of
\* its incident or its issue.
LEMMA NotLaunchedYet ==
    ASSUME Inv, NEW r \in Run, At(r, "assign"),
           NEW f \in Fingerprint, NEW n \in Issue, f = Fp(r) \/ n = Number(r)
    PROVE  launches[f][n] = 0
<1> SUFFICES ASSUME launches[f][n] # 0
             PROVE  FALSE
  OBVIOUS
<1>1. launches[f][n] > 0
  BY DEF Inv, ITypeOK, TypeOK
<1>2. fpRef[f] # None /\ issueRef[n] = fpRef[f] /\ ~Undecided(runs[fpRef[f].by])
  BY <1>1 DEF Inv, LaunchesOK, Reserved
<1>3. fpRef[f] = OwnIntent(r)
  BY <1>2, AssigningRun
<1>4. QED BY <1>2, <1>3, AssigningRun DEF OwnIntent

LEMMA AssignInv ==
    ASSUME Inv, ITypeOK', NEW r \in Run,
           Assign(r) \/ AssignWithoutEffect(r) \/ LoseAssign(r)
    PROVE  Inv'
<1> DEFINE s == runs[r]
           g == Fp(r)
           m == Number(r)
<1>1. /\ At(r, "assign") /\ CountLaunch(r)
      /\ UNCHANGED <<fpRef, issueRef, since>>
      /\ \A q \in late' : q \in late \/ q.kind # "issue"
  BY DEF Assign, AssignWithoutEffect, LoseAssign, github
<1>2. /\ g \in Fingerprint /\ m \in Issue
      /\ fpRef[g] = OwnIntent(r) /\ issueRef[m] = OwnIntent(r)
      /\ OwnIntent(r) \in Intent /\ None \notin Intent
      /\ s.doc \in since[m]
  BY <1>1, AssigningRun
<1>3. \A n \in Issue : issues'[n].doc = issues[n].doc
  BY <1>2 DEF Assign, AssignWithoutEffect, LoseAssign, Assigned, github, Inv,
              ITypeOK, TypeOK, IssueState
<1>4. RefsOK' /\ Grows
  BY <1>1, <1>3, NoTagWritten
<1>5. s \in RunState /\ Consistent(r, s) /\ s.pc = "assign" /\ s.pc \in Located
  BY <1>1, LocatedRun DEF At, Located, Deciding
<1>6. PICK t : Become(r, t) /\ Consistent(r, t)' /\ t.pc = "poll"
  <2>1. ASSUME NEW t, t \in RunState, t.pc = "poll", t.issue = s.issue,
               t.doc = s.doc, t.claim = s.claim, t.intent = s.intent,
               t.new = s.new
        PROVE  Consistent(r, t)'
    <3>1. Consistent(r, t)
      BY <1>5, <2>1, KnowledgeKept DEF Located, Deciding, Reporting
    <3>2. QED BY <1>1, <3>1 DEF Consistent
  <2>2. CASE Become(r, [s EXCEPT !.pc = "poll"])
    <3>1. PICK t : t = [s EXCEPT !.pc = "poll"]
      OBVIOUS
    <3>2. /\ t \in RunState /\ t.pc = "poll" /\ t.issue = s.issue
          /\ t.doc = s.doc /\ t.claim = s.claim /\ t.intent = s.intent
          /\ t.new = s.new
      BY <1>5, <3>1 DEF RunState, Reporting
    <3>3. QED BY <2>1, <2>2, <3>1, <3>2
  <2>3. CASE Become(r, [s EXCEPT !.pc = "poll", !.rejected = TRUE])
    <3>1. PICK t : t = [s EXCEPT !.pc = "poll", !.rejected = TRUE]
      OBVIOUS
    <3>2. t \in RunState
      BY <1>5, <3>1, RejectedOK
    <3>3. /\ t.pc = "poll" /\ t.issue = s.issue
          /\ t.doc = s.doc /\ t.claim = s.claim /\ t.intent = s.intent
          /\ t.new = s.new
      BY <1>5, <3>1 DEF RunState
    <3>4. QED BY <2>1, <2>3, <3>1, <3>2, <3>3
  <2>4. QED
    BY <2>2, <2>3 DEF Assign, AssignWithoutEffect, LoseAssign, Goto
<1>7. runs' = [runs EXCEPT ![r] = t] /\ runs \in [Run -> RunState]
  BY <1>6 DEF Become, Inv, ITypeOK, TypeOK
<1>8. RunsOK'
  <2> SUFFICES ASSUME NEW q \in Run
               PROVE  Consistent(q, runs[q])'
    BY DEF RunsOK
  <2>1. CASE q = r
    BY <1>6, <1>7, <2>1
  <2>2. CASE q # r
    <3>1. PICK u : u = runs[q]
      OBVIOUS
    <3>2. Consistent(q, u)'
      BY <1>4, <3>1, GrownConsistent
    <3>3. runs'[q] = u
      BY <1>7, <2>2, <3>1
    <3>4. QED BY <3>2, <3>3
  <2>3. QED BY <2>1, <2>2
<1>9. LaunchesOK'
  <2> SUFFICES ASSUME NEW f \in Fingerprint, NEW n \in Issue, launches'[f][n] > 0
               PROVE  /\ launches'[f][n] = 1
                      /\ Reserved(f, n)'
                      /\ ~Undecided(runs[fpRef[f].by])'
                      /\ issueRef'[n].doc \in since'[n]
    BY DEF LaunchesOK
  <2>1. /\ launches'[f][n] = IF f = g /\ n = m THEN launches[f][n] + 1
                                               ELSE launches[f][n]
    BY <1>1, <1>2 DEF CountLaunch, Inv, ITypeOK, TypeOK
  <2>2. CASE f = g /\ n = m
    <3>1. launches'[f][n] = 1
      BY <1>1, <2>1, <2>2, NotLaunchedYet
    <3>2. Reserved(f, n)' /\ issueRef'[n].doc \in since'[n]
      BY <1>1, <1>2, <2>2 DEF Reserved, OwnIntent
    <3>3. runs'[fpRef'[f].by] = t
      BY <1>1, <1>2, <1>7, <2>2 DEF OwnIntent
    <3>4. QED BY <1>6, <3>1, <3>2, <3>3 DEF Undecided, Deciding
  <2>3. CASE ~(f = g /\ n = m)
    <3>1. /\ launches[f][n] = 1 /\ launches'[f][n] = 1
          /\ Reserved(f, n)
          /\ ~Undecided(runs[fpRef[f].by]) /\ issueRef[n].doc \in since[n]
      BY <2>1, <2>3 DEF Inv, LaunchesOK
    <3>2. fpRef[f].by \in Run
      BY <3>1 DEF Reserved, Intent, Inv, ITypeOK, TypeOK
    <3>3. ~Undecided(runs'[fpRef[f].by])
      BY <1>6, <1>7, <3>1, <3>2 DEF Undecided, Deciding
    <3>4. QED BY <1>1, <3>1, <3>3 DEF Reserved, Undecided
  <2>4. QED BY <2>2, <2>3
<1>10. QED BY <1>4, <1>8, <1>9 DEF Inv

-----------------------------------------------------------------------------
(* Once a run reports, it only ever keeps or forgets what it knows.        *)

LEMMA ReportingStep ==
    ASSUME Inv, ITypeOK', NEW r \in Run, runs[r].pc \in Reporting,
           UNCHANGED <<fpRef, issueRef, since, launches>>,
           \A n \in Issue : issues'[n].doc = issues[n].doc,
           \A q \in late' : q \in late \/ q.kind # "issue",
           NEW t \in RunState, Become(r, t),
           t.pc \in Reporting \cup {"done", "published"},
           t.issue = runs[r].issue, t.doc = runs[r].doc,
           t.claim = runs[r].claim, t.intent = runs[r].intent,
           t.new = runs[r].new
    PROVE  Inv'
<1>1. runs[r] \in RunState /\ Consistent(r, runs[r]) /\ runs[r].pc \in Located
  BY LocatedRun DEF Located
<1>2. Consistent(r, t)
  BY <1>1, KnowledgeKept DEF Located, Deciding, Reporting
<1>3. ~Undecided(t)
  BY DEF Undecided, Deciding, Reporting
<1>4. QED BY <1>2, <1>3, RunOnly

LEMMA RaisingStep ==
    ASSUME Inv, ITypeOK', NEW r \in Run,
           UNCHANGED <<fpRef, issueRef, since, launches>>,
           \A n \in Issue : issues'[n].doc = issues[n].doc,
           \A q \in late' : q \in late \/ q.kind # "issue",
           Become(r, [Blank EXCEPT !.pc = "error"])
    PROVE  Inv'
<1>1. ~Undecided([Blank EXCEPT !.pc = "error"])
  BY DEF Undecided, Deciding, Blank
<1>2. QED BY <1>1, RaisedConsistent, RunOnly

LEMMA PollInv ==
    ASSUME Inv, ITypeOK', NEW r \in Run, Poll(r)
    PROVE  Inv'
<1> DEFINE s == runs[r]
<1>1. /\ UNCHANGED <<fpRef, issueRef, since, launches>>
      /\ \A m \in Issue : issues'[m].doc = issues[m].doc
      /\ \A q \in late' : q \in late \/ q.kind # "issue"
      /\ s.pc \in Reporting /\ s \in RunState
  BY LocatedRun DEF Poll, github, history, At, Reporting, Located
<1>2. CASE Become(r, [Blank EXCEPT !.pc = "error"])
  BY <1>1, <1>2, RaisingStep
<1>3. ASSUME NEW status \in Status, Become(r, Report(s, status))
      PROVE  Inv'
  <2>1. PICK t : t = Report(s, status)
    OBVIOUS
  <2>2. /\ t \in RunState /\ t.pc = "publish"
        /\ t.issue = s.issue /\ t.doc = s.doc /\ t.claim = s.claim
        /\ t.intent = s.intent /\ t.new = s.new
    BY <1>1, <2>1 DEF Report, RunState, Reporting
  <2>3. QED BY <1>1, <1>3, <2>1, <2>2, ReportingStep DEF Reporting
<1>4. CASE s.polls + 1 < Polls /\ Become(r, [s EXCEPT !.polls = @ + 1])
  <2>1. PICK t : t = [s EXCEPT !.polls = @ + 1]
    OBVIOUS
  <2>2. s.polls + 1 \in 0 .. Polls
    BY <1>1, <1>4, ConstantFacts DEF RunState
  <2>3. /\ t \in RunState /\ t.pc = s.pc
        /\ t.issue = s.issue /\ t.doc = s.doc /\ t.claim = s.claim
        /\ t.intent = s.intent /\ t.new = s.new
    BY <1>1, <2>1, <2>2 DEF RunState
  <2>4. QED BY <1>1, <1>4, <2>1, <2>3, ReportingStep
<1>5. QED BY <1>2, <1>3, <1>4 DEF Poll, Polled, Status

LEMMA PublishInv ==
    ASSUME Inv, ITypeOK', NEW r \in Run, Publish(r)
    PROVE  Inv'
<1> DEFINE s == runs[r]
<1>1. /\ UNCHANGED <<fpRef, issueRef, since, launches>>
      /\ \A m \in Issue : issues'[m].doc = issues[m].doc
      /\ \A q \in late' : q \in late \/ q.kind # "issue"
      /\ s.pc \in Reporting /\ s \in RunState
  BY LocatedRun DEF Publish, github, history, At, Reporting, Located
<1>2. CASE Become(r, [Blank EXCEPT !.pc = "error"])
  BY <1>1, <1>2, RaisingStep
<1>3. CASE Become(r, [s EXCEPT !.pc = "list"])
  <2>1. PICK t : t = [s EXCEPT !.pc = "list"]
    OBVIOUS
  <2>2. /\ t \in RunState /\ t.pc = "list"
        /\ t.issue = s.issue /\ t.doc = s.doc /\ t.claim = s.claim
        /\ t.intent = s.intent /\ t.new = s.new
    BY <1>1, <2>1 DEF RunState, Reporting
  <2>3. QED BY <1>1, <1>3, <2>1, <2>2, ReportingStep DEF Reporting
<1>4. QED BY <1>2, <1>3 DEF Publish, Raise, Goto

\* The state record_event returns in.
LEMMA RecordedFacts ==
    ASSUME NEW s \in RunState, NEW t, t = Recorded(s)
    PROVE  /\ t \in RunState /\ t.pc \in {"label", "published"}
           /\ t.issue = s.issue /\ t.doc = s.doc /\ t.claim = s.claim
           /\ t.intent = s.intent /\ t.new = s.new
<1>1. PICK p \in {"label", "published"} : t = [s EXCEPT !.pc = p, !.old = None]
  BY DEF Recorded
<1>2. QED BY <1>1 DEF RunState, Reporting, Ended

LEMMA ListStoredInv ==
    ASSUME Inv, ITypeOK', NEW r \in Run, ListStored(r)
    PROVE  Inv'
<1> DEFINE s == runs[r]
           stored == Stored(s.issue, Fp(r))
<1>1. /\ UNCHANGED <<fpRef, issueRef, since, launches>>
      /\ \A m \in Issue : issues'[m].doc = issues[m].doc
      /\ \A q \in late' : q \in late \/ q.kind # "issue"
      /\ s.pc \in Reporting /\ s \in RunState
  BY LocatedRun DEF ListStored, github, history, At, Reporting, Located
<1>2. CASE Become(r, [Blank EXCEPT !.pc = "error"])
  BY <1>1, <1>2, RaisingStep
<1>3. CASE Become(r, [s EXCEPT !.pc = "post"])
  <2>1. PICK t : t = [s EXCEPT !.pc = "post"]
    OBVIOUS
  <2>2. /\ t \in RunState /\ t.pc = "post"
        /\ t.issue = s.issue /\ t.doc = s.doc /\ t.claim = s.claim
        /\ t.intent = s.intent /\ t.new = s.new
    BY <1>1, <2>1 DEF RunState, Reporting
  <2>3. QED BY <1>1, <1>3, <2>1, <2>2, ReportingStep DEF Reporting
<1>4. CASE Become(r, Recorded(s))
  <2>1. PICK t : t = Recorded(s)
    OBVIOUS
  <2>2. QED
    BY <1>1, <1>4, <2>1, RecordedFacts, ReportingStep DEF Reporting
<1>5. ASSUME NEW old \in stored, Become(r, [s EXCEPT !.pc = "patch", !.old = old])
      PROVE  Inv'
  <2>1. PICK t : t = [s EXCEPT !.pc = "patch", !.old = old]
    OBVIOUS
  <2>2. s \in RunState /\ old \in Comment
    BY <1>1 DEF Stored, Inv, ITypeOK, TypeOK
  <2> HIDE DEF s, stored
  <2>3. /\ t \in RunState /\ t.pc = "patch"
        /\ t.issue = s.issue /\ t.doc = s.doc /\ t.claim = s.claim
        /\ t.intent = s.intent /\ t.new = s.new
    BY <2>1, <2>2 DEF RunState, Reporting
  <2>4. Become(r, t)
    BY <1>5, <2>1
  <2>5. t.pc \in Reporting
    BY <2>3 DEF Reporting
  <2> USE DEF s
  <2>6. QED BY <1>1, <2>3, <2>4, <2>5, ReportingStep
<1>6. \A old \in Foremost(stored) : old \in stored
  BY DEF Foremost
<1>7. QED
  BY <1>2, <1>3, <1>4, <1>5, <1>6 DEF ListStored, Against, Goto, Number

LEMMA WriteInv ==
    ASSUME Inv, ITypeOK', NEW r \in Run, PostComment(r) \/ PatchComment(r) \/ Label(r)
    PROVE  Inv'
<1> DEFINE s == runs[r]
<1>1. /\ UNCHANGED <<fpRef, issueRef, since, launches>>
      /\ \A q \in late' : q \in late \/ q.kind # "issue"
      /\ s.pc \in Reporting /\ s \in RunState /\ s.issue \in Issue
  BY LocatedRun
  DEF PostComment, PatchComment, Label, history, At, Reporting, Located
<1>2. CASE PostComment(r) \/ PatchComment(r)
  <2>1. \A m \in Issue : issues'[m].doc = issues[m].doc
    BY <1>2 DEF PostComment, PatchComment
  <2>2. PICK t : t = Recorded(s)
    OBVIOUS
  <2>3. Become(r, t)
    BY <1>2, <2>2 DEF PostComment, PatchComment
  <2>4. QED
    BY <1>1, <2>1, <2>2, <2>3, RecordedFacts, ReportingStep DEF Reporting
<1>3. CASE Label(r)
  <2>1. \A m \in Issue : issues'[m].doc = issues[m].doc
    BY <1>1, <1>3 DEF Label, Number, Inv, ITypeOK, TypeOK, IssueState
  <2>2. PICK t : t = [s EXCEPT !.pc = "done"]
    OBVIOUS
  <2>3. /\ t \in RunState /\ t.pc = "done"
        /\ t.issue = s.issue /\ t.doc = s.doc /\ t.claim = s.claim
        /\ t.intent = s.intent /\ t.new = s.new
    BY <1>1, <2>2 DEF RunState, Ended
  <2>4. Become(r, t)
    BY <1>3, <2>2 DEF Label, Goto
  <2>5. QED
    BY <1>1, <2>1, <2>3, <2>4, ReportingStep DEF Reporting
<1>4. QED BY <1>2, <1>3

-----------------------------------------------------------------------------
(* Failures and the world around the runs *)

LEMMA FailInv ==
    ASSUME Inv, ITypeOK', NEW r \in Run, LoseWrite(r) \/ Fail(r)
    PROVE  Inv'
<1> DEFINE s == runs[r]
           b == [Blank EXCEPT !.pc = "error"]
<1>1. /\ UNCHANGED <<issues, fpRef, issueRef, since, launches>>
      /\ Become(r, b)
  BY DEF LoseWrite, Fail, Raise, github, history
<1>2. CASE ~At(r, "reserve-issue") \/ Fail(r)
  <2>1. \A q \in late' : q \in late \/ q.kind # "issue"
    BY <1>2 DEF LoseWrite, Fail, Pending, At, github
  <2>2. QED BY <1>1, <2>1, RaisingStep
\* The request for the issue's tag is lost: the fingerprint's tag is there.
<1>3. CASE At(r, "reserve-issue") /\ LoseWrite(r)
  <2>1. late' = late \cup {[kind |-> "issue", intent |-> s.intent]}
    BY <1>3 DEF LoseWrite, Pending, At
  <2>2. /\ s \in RunState /\ Consistent(r, s) /\ s.issue \in Issue
        /\ s.pc = "reserve-issue" /\ s.pc \in Located
        /\ OwnIntent(r) \in Intent /\ None \notin Intent
        /\ OwnIntent(r) = [by |-> r, issue |-> s.issue, doc |-> s.doc]
    BY <1>3, LocatedRun DEF At, Located, Deciding, OwnIntent, Number
  <2>3. s.intent = fpRef[FingerprintOf[s.intent.doc]]
    BY <2>2 DEF Consistent, Located, Deciding, Reporting
  <2>4. RefsOK' /\ Grows
    BY <1>1, <2>1, <2>3 DEF Inv, RefsOK, Grows
  <2>5. Consistent(r, b)' /\ ~Undecided(b)
    BY DEF Consistent, Undecided, Blank, Located, Deciding, Reporting
  <2>6. QED BY <1>1, <2>4, <2>5, RunStep
<1>4. QED BY <1>2, <1>3

LEMMA DeliverInv ==
    ASSUME Inv, ITypeOK', NEW q \in late, Deliver(q)
    PROVE  Inv'
<1>1. /\ UNCHANGED <<launches, runs>> /\ \A p \in late' : p \in late
      /\ q \in Request
  BY DEF Deliver, Inv, ITypeOK, TypeOK
<1>2. CASE q.kind = "fp"
  <2>1. q.intent \in Intent
    BY <1>1, <1>2 DEF Request
  <2>2. CreateFpRef(q.intent) /\ UNCHANGED <<issues, issueRef, since>>
    BY <1>2 DEF Deliver
  <2>3. QED BY <1>1, <2>1, <2>2, FpRefWritten, QuietStep
<1>3. CASE q.kind = "issue"
  <2>1. q.intent \in Intent /\ q.intent = fpRef[FingerprintOf[q.intent.doc]]
    BY <1>1, <1>3 DEF Request, Inv, RefsOK
  <2>2. CreateIssueRef(q.intent) /\ UNCHANGED <<issues, fpRef>>
    BY <1>3 DEF Deliver
  <2>3. QED BY <1>1, <2>1, <2>2, IssueRefWritten, QuietStep
<1>4. CASE q.kind \in {"assign", "post", "patch", "label"}
  <2>1. UNCHANGED <<fpRef, issueRef, since>>
    BY <1>4 DEF Deliver
  <2>2. \A n \in Issue : issues'[n].doc = issues[n].doc
    <3>1. issues \in [Issue -> IssueState]
      BY DEF Inv, ITypeOK, TypeOK
    <3>2. CASE q.kind \in {"post", "patch"}
      BY <3>2 DEF Deliver
    <3>3. CASE q.kind = "assign"
      <4>1. Assigned(q.issue)
        BY <3>3 DEF Deliver
      <4>2. QED BY <3>1, <4>1 DEF Assigned, IssueState
    <3>4. CASE q.kind = "label"
      <4>1. issues' = [issues EXCEPT ![q.issue].labelled = TRUE]
        BY <3>4 DEF Deliver
      <4>2. QED BY <3>1, <4>1 DEF IssueState
    <3>5. QED BY <1>4, <3>2, <3>3, <3>4
  <2>3. QED BY <1>1, <2>1, <2>2, NoTagWritten, QuietStep
<1>5. QED BY <1>1, <1>2, <1>3, <1>4 DEF Request

LEMMA InterveneInv ==
    ASSUME Inv, ITypeOK', InterveneStep
    PROVE  Inv'
<1>1. ASSUME NEW n \in Issue, NEW d \in Document \cup {None}, EditIssue(n, d)
      PROVE  Inv'
  <2>1. UNCHANGED <<fpRef, issueRef, late, launches, runs>>
    BY <1>1 DEF EditIssue
  <2>2. \A m \in Issue : issueRef[m] # None =>
           since[m] \subseteq since'[m] /\ issues'[m].doc \in since'[m]
    <3> TAKE m \in Issue
    <3>1. /\ issues' = [issues EXCEPT ![n].doc = d]
          /\ issues \in [Issue -> IssueState]
          /\ since \in [Issue -> SUBSET (Document \cup {None})]
          /\ issueRef[m] # None => issues[m].doc \in since[m]
      BY <1>1 DEF EditIssue, Inv, RefsOK, ITypeOK, TypeOK
    <3>2. CASE m = n
      BY <1>1, <3>1, <3>2 DEF EditIssue, IssueState
    <3>3. CASE m # n
      BY <1>1, <3>1, <3>3 DEF EditIssue
    <3>4. QED BY <3>2, <3>3
  <2>3. RefsOK' /\ Grows
    BY <2>1, <2>2 DEF Inv, RefsOK, Grows
  <2>4. QED BY <2>1, <2>3, QuietStep
<1>2. ASSUME UNCHANGED <<fpRef, issueRef, late, launches, runs, since>>,
             \A n \in Issue : issues'[n].doc = issues[n].doc
      PROVE  Inv'
  BY <1>2, NoTagWritten, QuietStep
<1>3. ASSUME NEW n \in Issue, NEW b \in BOOLEAN, Reopen(n, b)
      PROVE  \A m \in Issue : issues'[m].doc = issues[m].doc
  BY <1>3 DEF Reopen, Inv, ITypeOK, TypeOK, IssueState
<1>4. ASSUME NEW n \in Issue, NEW c \in {"assigned", "removed"}, SetCopilot(n, c)
      PROVE  \A m \in Issue : issues'[m].doc = issues[m].doc
  BY <1>4 DEF SetCopilot, Inv, ITypeOK, TypeOK, IssueState
<1>5. QED
  BY <1>1, <1>2, <1>3, <1>4 DEF InterveneStep, Reopen, SetCopilot, history

-----------------------------------------------------------------------------

LEMMA InitInv == Init => Inv
<1> SUFFICES ASSUME Init
             PROVE  Inv
  OBVIOUS
<1>1. RefsOK /\ LaunchesOK
  BY DEF Init, RefsOK, LaunchesOK
<1>2. RunsOK
  BY DEF Init, RunsOK, Consistent, Blank, Located, Deciding, Reporting
<1>3. QED BY <1>1, <1>2, InitType DEF Inv

LEMMA NextInv == Inv /\ [Next]_vars => Inv'
<1> SUFFICES ASSUME Inv, [Next]_vars
             PROVE  Inv'
  OBVIOUS
<1>1. ITypeOK'
  BY ITypeInductive DEF Inv
<1>2. ASSUME NEW r \in Run, Step(r)
      PROVE  Inv'
  BY <1>1, <1>2, ReadIssueRefInv, ReadFpRefInv, CheckLaunchableInv,
     ReserveFingerprintInv, ReserveIssueInv, RecheckInv, AssignInv, PollInv,
     PublishInv, ListStoredInv, WriteInv
  DEF Step
<1>3. ASSUME NEW r \in Run,
             \/ AssignWithoutEffect(r) \/ LoseAssign(r)
             \/ LoseWrite(r) \/ Fail(r)
      PROVE  Inv'
  BY <1>1, <1>3, AssignInv, FailInv
<1>4. ASSUME NEW r \in Run, NEW n \in Issue, Begin(r, n)
      PROVE  Inv'
  BY <1>1, <1>4, BeginInv
<1>5. ASSUME NEW q \in late, Deliver(q)
      PROVE  Inv'
  BY <1>1, <1>5, DeliverInv
<1>6. CASE InterveneStep
  BY <1>1, <1>6, InterveneInv
<1>7. CASE UNCHANGED vars
  <2>1. UNCHANGED <<issues, fpRef, issueRef, late, launches, runs, since>>
    BY <1>7 DEF vars, github, history
  <2>2. QED BY <1>1, <2>1, NoTagWritten, QuietStep
<1>8. QED
  BY <1>2, <1>3, <1>4, <1>5, <1>6, <1>7 DEF Next, InterveneStep

\* Tags are written in order, no run is wrong about them, and whoever launched
\* is past its decision: reserve_launch and the rechecks of handoff.
THEOREM InvHolds == Spec => []Inv
BY InitInv, NextInv, PTL DEF Spec

\* One assignment request at most is ever sent for an incident, and one at
\* most for an issue: handoff with every interleaving of its runs, every lost
\* or late request and every edit of the issues.
THEOREM OneLaunch == Spec => []AtMostOneLaunch
<1>1. Inv => AtMostOneLaunch
  <2> SUFFICES ASSUME Inv, NEW f \in Fingerprint, NEW g \in Fingerprint,
                      NEW n \in Issue, NEW m \in Issue,
                      launches[f][n] > 0, launches[g][m] > 0, f = g \/ n = m
               PROVE  f = g /\ n = m /\ launches[f][n] = 1
    BY DEF AtMostOneLaunch
  <2>1. Reserved(f, n) /\ Reserved(g, m) /\ launches[f][n] = 1
    BY DEF Inv, LaunchesOK
  <2>2. FingerprintOf[fpRef[f].doc] = f /\ FingerprintOf[fpRef[g].doc] = g
    BY <2>1 DEF Reserved, Inv, RefsOK
  <2>3. QED BY <2>1, <2>2 DEF Reserved
<1>2. QED BY <1>1, InvHolds, PTL

\* Both claims of reserve_launch are complete, and agree, wherever handoff sent
\* an assignment request.
THEOREM ReservedLaunch == Spec => []LaunchIsReserved
<1>1. Inv => LaunchIsReserved
  BY DEF Inv, LaunchesOK, LaunchIsReserved
<1>2. QED BY <1>1, InvHolds, PTL

\* The ContractErrors of handoff for an incomplete or a disagreeing pair of
\* tags cannot be raised by anything the runs and GitHub do by themselves.
THEOREM Agreement == Spec => []NoDisagreement
<1>1. Inv => NoDisagreement
  BY DEF Inv, RunsOK, Consistent, NoDisagreement, At
<1>2. QED BY <1>1, InvHolds, PTL

\* The incident whose assignment handoff requested was in the issue's body at
\* some moment after the reservation was complete.
THEOREM ReservedIncident == Spec => []LaunchSawReservedIncident
<1>1. Inv => LaunchSawReservedIncident
  BY DEF Inv, LaunchesOK, LaunchSawReservedIncident
<1>2. QED BY <1>1, InvHolds, PTL

-----------------------------------------------------------------------------
(* The handoff implements the launch ledger.                               *)

LedgerStep == [Ledger!Next]_<<LedgerOwner, LedgerClaimed, launches>>

LEMMA StutterStep ==
    ASSUME UNCHANGED <<fpRef, issueRef, launches>>
    PROVE  LedgerStep
BY DEF LedgerStep, LedgerOwner, LedgerClaimed

LEMMA ReserveStep ==
    ASSUME Inv, NEW i \in Intent, CreateFpRef(i), UNCHANGED <<issueRef, launches>>
    PROVE  LedgerStep
<1> DEFINE f == FingerprintOf[i.doc]
<1>1. /\ f \in Fingerprint /\ i.issue \in Issue
      /\ None \notin Issue /\ None \notin Intent
      /\ fpRef' = [fpRef EXCEPT ![f] = IF fpRef[f] = None THEN i ELSE fpRef[f]]
      /\ fpRef \in [Fingerprint -> Intent \cup {None}]
  BY ConstantFacts DEF CreateFpRef, Intent, Inv, ITypeOK, TypeOK
<1>2. CASE fpRef[f] = None
  <2>1. LedgerOwner' = [LedgerOwner EXCEPT ![f] = i.issue]
    BY <1>1, <1>2 DEF LedgerOwner
  <2>2. LedgerOwner[f] = None
    BY <1>1, <1>2 DEF LedgerOwner
  <2>3. UNCHANGED <<LedgerClaimed, launches>>
    BY DEF LedgerClaimed
  <2>4. Ledger!Reserve(f, i.issue)
    BY <2>1, <2>2, <2>3 DEF Ledger!Reserve
  <2>5. QED BY <1>1, <2>4 DEF LedgerStep, Ledger!Next
<1>3. CASE fpRef[f] # None
  <2>1. fpRef' = fpRef
    BY <1>1, <1>3
  <2>2. QED BY <2>1, StutterStep
<1>4. QED BY <1>2, <1>3

LEMMA ClaimStep ==
    ASSUME Inv, NEW i \in Intent, CreateIssueRef(i),
           i = fpRef[FingerprintOf[i.doc]], UNCHANGED <<fpRef, launches>>
    PROVE  LedgerStep
<1> DEFINE f == FingerprintOf[i.doc]
           n == i.issue
<1>1. /\ f \in Fingerprint /\ n \in Issue /\ None \notin Fingerprint
      /\ None \notin Intent
      /\ issueRef' = [issueRef EXCEPT ![n] =
                        IF issueRef[n] = None THEN i ELSE issueRef[n]]
      /\ issueRef \in [Issue -> Intent \cup {None}]
  BY ConstantFacts, HandoffAssumption
  DEF HandoffAssumption, CreateIssueRef, Intent, Inv, ITypeOK, TypeOK
<1>2. CASE issueRef[n] = None
  <2>1. LedgerClaimed' = [LedgerClaimed EXCEPT ![n] = f]
    BY <1>1, <1>2 DEF LedgerClaimed
  <2>2. LedgerClaimed[n] = None
    BY <1>1, <1>2 DEF LedgerClaimed
  <2>3. LedgerOwner[f] = n
    BY <1>1 DEF LedgerOwner
  <2>4. UNCHANGED <<LedgerOwner, launches>>
    BY DEF LedgerOwner
  <2>5. Ledger!Claim(f, n)
    BY <2>1, <2>2, <2>3, <2>4 DEF Ledger!Claim
  <2>6. QED BY <1>1, <2>5 DEF LedgerStep, Ledger!Next
<1>3. CASE issueRef[n] # None
  <2>1. issueRef' = issueRef
    BY <1>1, <1>3
  <2>2. QED BY <2>1, StutterStep
<1>4. QED BY <1>2, <1>3

LEMMA LaunchStep ==
    ASSUME Inv, NEW r \in Run, At(r, "assign"), CountLaunch(r),
           UNCHANGED <<fpRef, issueRef>>
    PROVE  LedgerStep
<1> DEFINE f == Fp(r)
           n == Number(r)
<1>1. /\ f \in Fingerprint /\ n \in Issue
      /\ fpRef[f] = OwnIntent(r) /\ issueRef[n] = OwnIntent(r)
      /\ OwnIntent(r) \in Intent /\ None \notin Intent
  BY AssigningRun
<1>2. launches[f][n] = 0
  BY <1>1, NotLaunchedYet
<1>3. LedgerOwner[f] = n /\ LedgerClaimed[n] = f
  BY <1>1 DEF LedgerOwner, LedgerClaimed, OwnIntent, Fp
<1>4. launches' = [launches EXCEPT ![f][n] = 1]
  BY <1>1, <1>2 DEF CountLaunch, Inv, ITypeOK, TypeOK
<1>5. UNCHANGED <<LedgerOwner, LedgerClaimed>>
  BY DEF LedgerOwner, LedgerClaimed
<1>6. Ledger!Launch(f, n)
  BY <1>2, <1>3, <1>4, <1>5 DEF Ledger!Launch
<1>7. QED BY <1>1, <1>6 DEF LedgerStep, Ledger!Next

LEMMA StepMaps == Inv /\ [Next]_vars => LedgerStep
<1> SUFFICES ASSUME Inv, [Next]_vars
             PROVE  LedgerStep
  OBVIOUS
<1>1. ASSUME NEW r \in Run, ReserveFingerprint(r)
      PROVE  LedgerStep
  <2>1. OwnIntent(r) \in Intent
    BY <1>1, LocatedRun DEF ReserveFingerprint, At, Located, Deciding
  <2>2. QED BY <1>1, <2>1, ReserveStep DEF ReserveFingerprint, history
<1>2. ASSUME NEW r \in Run, ReserveIssue(r)
      PROVE  LedgerStep
  <2>1. /\ OwnIntent(r) \in Intent /\ None \notin Intent
        /\ Consistent(r, runs[r]) /\ runs[r].pc = "reserve-issue"
        /\ runs[r].pc \in Located
        /\ OwnIntent(r) = [by |-> r, issue |-> runs[r].issue, doc |-> runs[r].doc]
    BY <1>2, LocatedRun
    DEF ReserveIssue, At, Located, Deciding, OwnIntent, Number
  <2>2. /\ runs[r].intent \in Intent
        /\ runs[r].intent = fpRef[FingerprintOf[runs[r].intent.doc]]
    BY <2>1 DEF Consistent
  <2>3. QED BY <1>2, <2>2, ClaimStep DEF ReserveIssue
<1>3. ASSUME NEW r \in Run, Assign(r) \/ AssignWithoutEffect(r) \/ LoseAssign(r)
      PROVE  LedgerStep
  BY <1>3, LaunchStep DEF Assign, AssignWithoutEffect, LoseAssign, github
<1>4. ASSUME NEW q \in late, Deliver(q)
      PROVE  LedgerStep
  <2>1. q \in Request /\ UNCHANGED launches
    BY <1>4 DEF Deliver, Inv, ITypeOK, TypeOK
  <2>2. CASE q.kind = "fp"
    BY <1>4, <2>1, <2>2, ReserveStep DEF Deliver, Request
  <2>3. CASE q.kind = "issue"
    <3>1. q.intent \in Intent /\ q.intent = fpRef[FingerprintOf[q.intent.doc]]
      BY <2>1, <2>3 DEF Request, Inv, RefsOK
    <3>2. QED BY <1>4, <2>1, <2>3, <3>1, ClaimStep DEF Deliver
  <2>4. CASE q.kind \notin {"fp", "issue"}
    BY <1>4, <2>1, <2>4, StutterStep DEF Deliver
  <2>5. QED BY <2>2, <2>3, <2>4
<1>5. ASSUME NEW r \in Run,
             \/ ReadIssueRef(r) \/ ReadFpRef(r) \/ CheckLaunchable(r)
             \/ Reread(r) \/ Recheck(r) \/ Poll(r) \/ Publish(r)
             \/ ListStored(r) \/ PostComment(r) \/ PatchComment(r) \/ Label(r)
             \/ LoseWrite(r) \/ Fail(r)
      PROVE  LedgerStep
  BY <1>5, StutterStep
  DEF ReadIssueRef, ReadFpRef, CheckLaunchable, Reread, Recheck, Poll, Publish,
      ListStored, PostComment, PatchComment, Label, LoseWrite, Fail, github,
      history
<1>6. ASSUME NEW r \in Run, NEW n \in Issue, Begin(r, n)
      PROVE  LedgerStep
  BY <1>6, StutterStep DEF Begin, github, history
<1>7. CASE InterveneStep
  BY <1>7, StutterStep DEF InterveneStep, EditIssue, Reopen, SetCopilot, history
<1>8. CASE UNCHANGED vars
  BY <1>8, StutterStep DEF vars, github, history
<1>9. QED
  BY <1>1, <1>2, <1>3, <1>4, <1>5, <1>6, <1>7, <1>8
  DEF Next, Step, InterveneStep

\* Every behaviour of the runs and of GitHub is a behaviour of the ledger.
THEOREM Refinement == Spec => ImplementsLedger
<1>1. Init => Ledger!Init
  BY DEF Init, Ledger!Init, LedgerOwner, LedgerClaimed
<1>2. Inv /\ [Next]_vars => [Ledger!Next]_(Ledger!ledger)
  BY StepMaps DEF LedgerStep, Ledger!ledger
<1>3. QED
  BY <1>1, <1>2, InvHolds, PTL DEF Spec, ImplementsLedger, Ledger!Spec
=============================================================================
