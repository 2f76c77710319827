--------------------------- MODULE RunTests_proofs ---------------------------
(***************************************************************************)
(* Proofs about RunTests: what drivers::run_tests::drive() commits is      *)
(* complete, and it keeps to its slots.                                    *)
(*                                                                         *)
(* Neither property is inductive.  A result reaches the right row because  *)
(* in_flight maps the PID of every test in hand to its own row (Flight),   *)
(* and a PID is handed out again only when no test in hand has it, or the  *)
(* assertion of drive() fails and the run is dead.  Every test has one row *)
(* by the time of the commit because a test is always in exactly one of    *)
(* the scanner, exclusive_tests, the call that puts it, and the rows       *)
(* (Queues), and each row has its result when its test is over (Rows).     *)
(* The number of tests at work is bounded by mapping them, one to one, to  *)
(* the PIDs in use (Slots).  None of this is claimed once drive() has left *)
(* by an exception or an assertion (Dead): nothing is committed then.      *)
(***************************************************************************)
EXTENDS RunTests, FiniteSetTheorems, TLAPS

Rng(s) == {s[i] : i \in 1..Len(s)}
Distinct(s) == \A i, j \in 1..Len(s) : s[i] = s[j] => i = j
Dead == pc \in {"aborted", "aborted_by_assertion"}
InHand == {"running", "cleaning", "ended"}
Over == {"clean", "dirty"}

(* finish_test() is at work on t.                                            *)
Finishing(t) == pc \in {"finish", "clean"} /\ cur = t

Types ==
  /\ slots \in 1..MaxSlots
  /\ unscanned \subseteq Test /\ exclusive_tests \in Seq(Exclusive)
  /\ in_flight \in [Pid -> Id \union {0}]
  /\ cases \in Seq(Test) /\ Len(cases) <= Cardinality(Test)
  /\ programs \in Seq({ProgramOf[t] : t \in Test})
  /\ results \in [Id -> Verdicts \union {"none"}]
  /\ announced \in [Test -> Verdicts \union {"none"}]
  /\ phase \in [Test -> {"new"} \union InHand \union Over]
  /\ pid \in [Test -> Pid \union {NoPid}]
  /\ verdict \in [Test -> Verdicts \union {"none"}]
  /\ stage \in {"slots", "exclusive"}
  /\ id \in Id \union {0}

(* A test is with the scanner, put off, about to be put, or has one row.     *)
Queues ==
  /\ Distinct(cases) /\ Distinct(exclusive_tests)
  /\ \A i \in 1..Len(cases) : cases[i] \notin unscanned /\ cases[i] \notin Rng(exclusive_tests)
  /\ \A i \in 1..Len(exclusive_tests) : exclusive_tests[i] \notin unscanned
  /\ pc = "start" => /\ cur \in Test \ unscanned
                     /\ cur \notin Rng(exclusive_tests) /\ cur \notin Rng(cases)
  /\ \A t \in Test : \/ t \in unscanned \/ t \in Rng(exclusive_tests) \/ t \in Rng(cases)
                     \/ pc = "start" /\ cur = t
  /\ stage = "exclusive" => unscanned = {}
  /\ pc \in {"fill", "loop"} => stage = "slots"
  /\ pc \in {"exclusive", "done"} => stage = "exclusive"

(* What the phase of a test says of its row and its result.                  *)
Progress ==
  /\ \A t \in Test :
       /\ phase[t] = "new" <=> t \notin Rng(cases) \/ (pc = "spawn" /\ cur = t)
       /\ phase[t] \in InHand => pid[t] \in Pid
       /\ phase[t] = "cleaning" => t \in WithCleanup
       /\ phase[t] \in {"ended"} \union Over => verdict[t] \in Verdicts
       /\ phase[t] # "new" /\ stage = "slots" => t \notin Exclusive
  /\ pc = "spawn" => id \in 1..Len(cases) /\ cases[id] = cur
  /\ pc \in {"finish", "clean"} => /\ id \in 1..Len(cases) /\ cases[id] = cur
                                   /\ phase[cur] = "ended"
  /\ pc \in {"start", "spawn"} /\ stage = "slots" => cur \notin Exclusive

(* in_flight has the rows of the tests that the loop has in hand.            *)
Flight ==
  /\ stage = "slots" =>
       /\ \A t \in Test : phase[t] \in InHand /\ ~Finishing(t) =>
            in_flight[pid[t]] \in 1..Len(cases) /\ cases[in_flight[pid[t]]] = t
       /\ pc = "wait" => \E p \in Pid : in_flight[p] # 0
  /\ \A p \in Pid : in_flight[p] # 0 =>
       /\ stage = "slots" /\ in_flight[p] \in 1..Len(cases)
       /\ pid[cases[in_flight[p]]] = p /\ phase[cases[in_flight[p]]] \in InHand
       /\ ~Finishing(cases[in_flight[p]])
  /\ stage = "exclusive" =>
       /\ \A t \in Test : phase[t] \in InHand => t = cur /\ pc \in {"wait", "finish", "clean"}
       /\ pc = "wait" => /\ id \in 1..Len(cases) /\ cases[id] = cur
                         /\ phase[cur] \in InHand

(* The slots in use.                                                         *)
Slots ==
  /\ IsFiniteSet(Used) /\ Cardinality(Used) <= slots
  /\ pc \in {"start", "spawn"} /\ stage = "slots" => Cardinality(Used) < slots

(* Rows of the transaction.                                                  *)
Rows ==
  /\ \A i \in 1..Len(cases) :
       phase[cases[i]] \in Over => /\ results[i] = verdict[cases[i]]
                                   /\ announced[cases[i]] = verdict[cases[i]]
  /\ pc = "clean" => results[id] = verdict[cur]
  /\ Distinct(programs) /\ Rng(programs) = ids_cache
  /\ ids_cache = {ProgramOf[t] : t \in Rng(cases)}

Inner == Queues /\ Progress /\ Flight /\ Slots /\ Rows

IInv ==
  /\ Types
  /\ ~Dead => Inner
  /\ committed => pc = "done"
  /\ CommittedComplete /\ Concurrency /\ ClashOnlyByReuse

-----------------------------------------------------------------------------
(* Sequences and the sets of their elements. *)

(* Append adds one element, at the end.                                      *)
LEMMA AppendFacts ==
  ASSUME NEW S, NEW s \in Seq(S), NEW e \in S
  PROVE  /\ Append(s, e) \in Seq(S) /\ Len(Append(s, e)) = Len(s) + 1
         /\ \A i \in 1..Len(s) : Append(s, e)[i] = s[i]
         /\ Append(s, e)[Len(s) + 1] = e
         /\ Rng(Append(s, e)) = Rng(s) \union {e}
         /\ Distinct(s) /\ e \notin Rng(s) => Distinct(Append(s, e))
<1> DEFINE a == Append(s, e)
<1>1. a \in Seq(S) /\ Len(a) = Len(s) + 1 /\ Len(s) \in Nat
  OBVIOUS
<1>2. (\A i \in 1..Len(s) : a[i] = s[i]) /\ a[Len(s) + 1] = e
  OBVIOUS
<1> HIDE DEF a
<1>3. Rng(a) = Rng(s) \union {e}
  <2>1. \A x \in Rng(a) : x \in Rng(s) \union {e}
    BY <1>1, <1>2 DEF Rng
  <2>2. \A x \in Rng(s) \union {e} : x \in Rng(a)
    BY <1>1, <1>2 DEF Rng
  <2> QED
    BY <2>1, <2>2
<1>4. ASSUME Distinct(s), e \notin Rng(s) PROVE Distinct(a)
  <2> SUFFICES ASSUME NEW i \in 1..Len(a), NEW j \in 1..Len(a), a[i] = a[j]
               PROVE  i = j
    BY DEF Distinct
  <2> QED
    BY <1>1, <1>2, <1>4 DEF Distinct, Rng
<1> QED
  BY <1>1, <1>2, <1>3, <1>4 DEF a

(* Tail takes the first element away.                                        *)
LEMMA TailFacts ==
  ASSUME NEW S, NEW s \in Seq(S), s # <<>>
  PROVE  /\ Tail(s) \in Seq(S) /\ Head(s) \in S
         /\ Rng(s) = Rng(Tail(s)) \union {Head(s)}
         /\ Distinct(s) => Distinct(Tail(s)) /\ Head(s) \notin Rng(Tail(s))
<1> DEFINE r == Tail(s)
           h == Head(s)
<1>1. r \in Seq(S) /\ Len(r) = Len(s) - 1 /\ Len(s) \in Nat \ {0} /\ h \in S
  OBVIOUS
<1>2. (\A i \in 1..Len(r) : r[i] = s[i + 1]) /\ h = s[1]
  OBVIOUS
<1> HIDE DEF r, h
<1>3. Rng(s) = Rng(r) \union {h}
  <2>1. ASSUME NEW i \in 1..Len(s) PROVE s[i] \in Rng(r) \union {h}
    <3>1. CASE i = 1
      BY <1>2, <3>1
    <3>2. CASE i # 1
      <4>1. i - 1 \in 1..Len(r) /\ r[i - 1] = s[i]
        BY <1>1, <1>2, <3>2
      <4> QED
        BY <4>1 DEF Rng
    <3> QED
      BY <3>1, <3>2
  <2>2. ASSUME NEW i \in 1..Len(r) PROVE r[i] \in Rng(s)
    <3>1. i + 1 \in 1..Len(s) /\ r[i] = s[i + 1]
      BY <1>1, <1>2
    <3> QED
      BY <3>1 DEF Rng
  <2>3. h \in Rng(s)
    BY <1>1, <1>2 DEF Rng
  <2> QED
    BY <2>1, <2>2, <2>3 DEF Rng
<1>4. ASSUME Distinct(s) PROVE Distinct(r) /\ h \notin Rng(r)
  <2>1. ASSUME NEW i \in 1..Len(r) PROVE i + 1 \in 1..Len(s) /\ i + 1 # 1
    BY <1>1
  <2>2. h \notin Rng(r)
    BY <1>1, <1>2, <1>4, <2>1 DEF Distinct, Rng
  <2>3. Distinct(r)
    <3> SUFFICES ASSUME NEW i \in 1..Len(r), NEW j \in 1..Len(r), r[i] = r[j]
                 PROVE  i = j
      BY DEF Distinct
    <3>1. i + 1 = j + 1
      BY <1>2, <1>4, <2>1 DEF Distinct
    <3> QED
      BY <3>1
  <2> QED
    BY <2>2, <2>3
<1> QED
  BY <1>1, <1>3, <1>4 DEF r, h

(* Distinct rows are at most as many as the tests, and all of them if equal. *)
LEMMA DistinctRows ==
  ASSUME NEW s \in Seq(Test), Distinct(s)
  PROVE  /\ Cardinality(Test) \in Nat /\ Len(s) <= Cardinality(Test)
         /\ Rng(s) = Test => Len(s) = Cardinality(Test)
         /\ \A t \in Test \ Rng(s) : Len(s) < Cardinality(Test)
<1>1. IsFiniteSet(Test) /\ Cardinality(Test) \in Nat
  BY RunTestsAssumption, FS_CardinalityType
<1>2. Len(s) \in Nat /\ s \in [1..Len(s) -> Test]
  OBVIOUS
<1>3. s \in Injection(1..Len(s), Test)
  BY <1>2 DEF Distinct, Injection, IsInjective
<1>4. Cardinality(1..Len(s)) = Len(s)
  BY <1>2, FS_Interval
<1>5. /\ Len(s) <= Cardinality(Test)
      /\ Len(s) = Cardinality(Test) <=> s \in Surjection(1..Len(s), Test)
  BY <1>1, <1>3, <1>4, FS_Injection
<1>6. s \in Surjection(1..Len(s), Test) <=> Rng(s) = Test
  BY <1>2 DEF Surjection, Rng
<1> QED
  BY <1>1, <1>2, <1>5, <1>6

-----------------------------------------------------------------------------
(* Steps. *)

(* The invariant holds when drive() begins.                                  *)
LEMMA InitIInv == Init => IInv
<1> SUFFICES ASSUME Init PROVE IInv
  OBVIOUS
<1>1. Cardinality(Test) \in Nat /\ Len(cases) = 0 /\ Len(exclusive_tests) = 0 /\ Len(programs) = 0
  BY RunTestsAssumption, FS_CardinalityType DEF Init
<1>2. Rng(cases) = {} /\ Rng(exclusive_tests) = {} /\ Rng(programs) = {}
  BY <1>1 DEF Rng
<1>3. Used = {} /\ Active = {}
  BY DEF Init, Used, Active
<1>4. IsFiniteSet({}) /\ Cardinality({}) = 0 /\ slots \in Nat /\ slots >= 1
  BY RunTestsAssumption, FS_EmptySet DEF Init
<1>5. Types
  BY <1>1, <1>4 DEF Init, Types, InHand, Over
<1>6. Queues
  BY <1>1, <1>2 DEF Init, Queues, Distinct
<1>7. Progress
  BY <1>2 DEF Init, Progress, InHand, Over
<1>8. Flight
  BY DEF Init, Flight, InHand
<1>9. Slots
  BY <1>3, <1>4 DEF Init, Slots
<1>10. Rows
  BY <1>1, <1>2 DEF Init, Rows, Distinct
<1>11. CommittedComplete /\ Concurrency /\ ClashOnlyByReuse
  BY <1>3, <1>4 DEF Init, CommittedComplete, Concurrency, ClashOnlyByReuse
<1> QED
  BY <1>5, <1>6, <1>7, <1>8, <1>9, <1>10, <1>11 DEF Init, IInv, Inner

(* What is left to show of a step that neither commits nor clashes.          *)
LEMMA StepIInv ==
  ASSUME IInv, pc # "done", committed' = committed, pc' # "aborted_by_assertion",
         Types', Concurrency', ~Dead' => Inner'
  PROVE  IInv'
<1>1. ~committed'
  BY DEF IInv
<1> QED
  BY <1>1 DEF IInv, CommittedComplete, ClashOnlyByReuse

(* Fewer tests at work are no more than the slots.                           *)
LEMMA StillConcurrent ==
  ASSUME IInv, Active' \subseteq Active, slots' = slots
  PROVE  Concurrency'
<1>1. IsFiniteSet(Active)
  BY RunTestsAssumption, FS_Subset DEF Active
<1>2. Cardinality(Active) \in Nat /\ Cardinality(Active') \in Nat
      /\ Cardinality(Active') <= Cardinality(Active)
  BY <1>1, FS_Subset, FS_CardinalityType
<1>3. slots \in Nat
  BY RunTestsAssumption DEF IInv, Types
<1>4. Cardinality(Active') <= slots'
  BY <1>2, <1>3 DEF IInv, Concurrency
<1>5. \A t \in Active' : t \in Exclusive => Active' = {t}
  BY DEF IInv, Concurrency
<1> QED
  BY <1>4, <1>5 DEF Concurrency

(* The transaction is rolled back.                                           *)
LEMMA RollsBack ==
  ASSUME IInv, UNCHANGED slots, Rollback, pc \notin {"done", "aborted", "aborted_by_assertion"}
  PROVE  IInv'
<1>1. Types'
  <2>1. Len(cases') = 0 /\ cases' \in Seq(Test) /\ programs' \in Seq({ProgramOf[t] : t \in Test})
    BY DEF Rollback
  <2>2. Cardinality(Test) \in Nat
    BY RunTestsAssumption, FS_CardinalityType
  <2> QED
    BY <2>1, <2>2 DEF IInv, Types, Rollback, loopVars, testVars
<1>2. Concurrency'
  BY StillConcurrent DEF Rollback, testVars, Active
<1> QED
  BY <1>1, <1>2, StepIInv DEF Rollback, Dead

(* An interrupt, or nothing.                                                 *)
LEMMA Unmoved ==
  ASSUME IInv,
         UNCHANGED <<slots, loopVars, dbVars, announced, testVars, pc, cur, id>>
  PROVE  IInv'
<1> USE DEF loopVars, dbVars, testVars
<1>1. Types' /\ Concurrency' /\ CommittedComplete' /\ ClashOnlyByReuse' /\ (committed' => pc' = "done")
  <2>1. Types' /\ (committed' => pc' = "done")
    BY DEF IInv, Types
  <2>2. Concurrency' /\ ClashOnlyByReuse'
    BY DEF IInv, Concurrency, Active, ClashOnlyByReuse
  <2>3. CommittedComplete'
    <3>1. /\ cases' = cases /\ results' = results /\ programs' = programs /\ verdict' = verdict
          /\ announced' = announced /\ committed' = committed
      OBVIOUS
    <3>2. CommittedComplete
      BY DEF IInv
    <3> DEFINE Full(c, r, p, v, a) ==
          /\ Len(c) = Cardinality(Test) /\ {c[i] : i \in Id} = Test
          /\ \A i \in Id : r[i] = v[c[i]] /\ r[i] # "none"
          /\ \A t \in Test : a[t] = v[t]
          /\ \A i, j \in 1..Len(p) : p[i] = p[j] => i = j
          /\ {p[i] : i \in 1..Len(p)} = {ProgramOf[t] : t \in Test}
    <3>3. CommittedComplete <=> (committed => Full(cases, results, programs, verdict, announced))
      BY DEF CommittedComplete
    <3>4. CommittedComplete' <=> (committed' => Full(cases', results', programs', verdict', announced'))
      BY DEF CommittedComplete
    <3> HIDE DEF Full
    <3> QED
      BY <3>1, <3>2, <3>3, <3>4
  <2> QED
    BY <2>1, <2>2, <2>3
<1>2. Dead' = Dead
  BY DEF Dead
<1>3. ASSUME ~Dead PROVE Inner'
  BY <1>3 DEF IInv, Inner, Queues, Progress, Flight, Finishing, Slots, Used, Rows
<1> QED
  BY <1>1, <1>2, <1>3 DEF IInv

(* The slots are full, or there is nothing to fill them with.                *)
LEMMA Fills == ASSUME IInv, UNCHANGED slots, Filled PROVE IInv'
<1> USE DEF loopVars, dbVars, testVars
<1>1. /\ UNCHANGED <<loopVars, dbVars, announced, testVars, cur, id>> /\ pc = "fill"
      /\ pc' = IF Used # {} THEN "wait" ELSE "loop"
  BY DEF Filled
<1>2. Inner
  BY <1>1 DEF IInv, Dead
<1>3. Types' /\ Concurrency'
  BY <1>1, StillConcurrent DEF IInv, Types, Active
<1>4. Queues' /\ Progress'
  BY <1>1, <1>2 DEF Inner, Queues, Progress
<1>5. Flight'
  BY <1>1, <1>2 DEF Inner, Queues, Flight, Finishing, Used
<1>6. Slots' /\ Rows'
  BY <1>1, <1>2 DEF Inner, Slots, Used, Rows
<1> QED
  BY <1>1, <1>3, <1>4, <1>5, <1>6, StepIInv DEF Inner

(* The condition of the do loop: when it ends no test is in hand.            *)
LEMMA Loops == ASSUME IInv, UNCHANGED slots, Loop PROVE IInv'
<1> USE DEF dbVars, testVars
<1>1. /\ UNCHANGED <<unscanned, exclusive_tests, in_flight, dbVars, announced, testVars, cur, id>>
      /\ pc = "loop" /\ pc' = (IF MoreWork THEN "fill" ELSE "exclusive")
      /\ stage' = IF MoreWork THEN "slots" ELSE "exclusive"
  BY DEF Loop
<1>2. Inner /\ stage = "slots"
  BY <1>1 DEF IInv, Dead, Inner, Queues
<1>3. Types' /\ Concurrency'
  BY <1>1, StillConcurrent DEF IInv, Types, Active
<1>4. ~MoreWork => /\ unscanned = {} /\ \A p \in Pid : in_flight[p] = 0
                   /\ \A t \in Test : phase[t] \notin InHand
  <2> SUFFICES ASSUME ~MoreWork
               PROVE  /\ unscanned = {} /\ \A p \in Pid : in_flight[p] = 0
                      /\ \A t \in Test : phase[t] \notin InHand
    OBVIOUS
  <2>1. unscanned = {} /\ \A p \in Pid : in_flight[p] = 0
    BY DEF MoreWork, Used
  <2>2. ASSUME NEW t \in Test, phase[t] \in InHand PROVE FALSE
    <3>1. pid[t] \in Pid /\ in_flight[pid[t]] \in 1..Len(cases)
      BY <1>1, <1>2, <2>2 DEF Inner, Progress, Flight, Finishing
    <3> QED
      BY <2>1, <3>1
  <2> QED
    BY <2>1, <2>2
<1>5. Queues'
  BY <1>1, <1>2, <1>4 DEF Inner, Queues
<1>6. Progress'
  BY <1>1, <1>2 DEF Inner, Progress
<1>7. Flight'
  <2>1. CASE MoreWork
    BY <1>1, <1>2, <2>1 DEF Inner, Flight, Finishing
  <2>2. CASE ~MoreWork
    BY <1>1, <1>4, <2>2 DEF Flight, Finishing
  <2> QED
    BY <2>1, <2>2
<1>8. Slots' /\ Rows'
  BY <1>1, <1>2 DEF Inner, Slots, Used, Rows
<1> QED
  BY <1>1, <1>3, <1>5, <1>6, <1>7, <1>8, StepIInv DEF Inner

(* The scanner yields t.                                                     *)
LEMMA Yields == ASSUME IInv, UNCHANGED slots, NEW t \in Test, Yield(t) PROVE IInv'
<1> USE DEF dbVars, testVars
<1>1. /\ UNCHANGED <<in_flight, stage, dbVars, announced, testVars, id>>
      /\ pc = "fill" /\ SlotFree /\ t \in unscanned /\ unscanned' = unscanned \ {t}
  BY DEF Yield
<1>2. Inner /\ stage = "slots" /\ t \notin Rng(exclusive_tests) /\ t \notin Rng(cases)
  BY <1>1 DEF IInv, Dead, Inner, Queues, Rng
<1>3. \/ /\ t \in Exclusive /\ pc' = pc /\ cur' = cur
         /\ exclusive_tests' = Append(exclusive_tests, t)
      \/ t \notin Exclusive /\ pc' = "start" /\ cur' = t /\ exclusive_tests' = exclusive_tests
  BY DEF Yield, Postponed
<1>4. /\ exclusive_tests \in Seq(Exclusive) /\ exclusive_tests' \in Seq(Exclusive)
      /\ Distinct(exclusive_tests')
      /\ pc' = "fill" => Rng(exclusive_tests') = Rng(exclusive_tests) \union {t}
      /\ pc' = "start" => Rng(exclusive_tests') = Rng(exclusive_tests)
  <2>1. exclusive_tests \in Seq(Exclusive) /\ Distinct(exclusive_tests)
    BY <1>2 DEF IInv, Types, Inner, Queues
  <2>2. CASE t \in Exclusive /\ exclusive_tests' = Append(exclusive_tests, t)
    BY <1>1, <1>2, <1>3, <2>1, <2>2, AppendFacts
  <2>3. CASE exclusive_tests' = exclusive_tests /\ pc' = "start"
    BY <2>1, <2>3
  <2> QED
    BY <1>3, <2>2, <2>3
<1>5. Types' /\ Concurrency'
  BY <1>1, <1>4, StillConcurrent DEF IInv, Types, Active
<1>6. Queues'
  <2>1. /\ Distinct(cases) /\ stage' = "slots" /\ pc' \in {"fill", "start"}
        /\ \A i \in 1..Len(cases) : cases[i] \notin unscanned /\ cases[i] # t
                                    /\ cases[i] \notin Rng(exclusive_tests)
        /\ \A x \in Rng(exclusive_tests) : x \notin unscanned
        /\ \A u \in Test : u \in unscanned \/ u \in Rng(exclusive_tests) \/ u \in Rng(cases)
    BY <1>1, <1>2, <1>3 DEF Inner, Queues, Rng
  <2>2. \A x \in Rng(exclusive_tests') : x \notin unscanned'
    BY <1>1, <1>3, <1>4, <2>1
  <2>3. \A i \in 1..Len(exclusive_tests') : exclusive_tests'[i] \in Rng(exclusive_tests')
    BY DEF Rng
  <2>4. CASE pc' = "fill"
    BY <1>1, <1>4, <2>1, <2>2, <2>3, <2>4 DEF Queues
  <2>5. CASE pc' = "start"
    <3>1. cur' = t
      BY <1>1, <1>3, <2>5
    <3> QED
      BY <1>1, <1>2, <1>4, <2>1, <2>2, <2>3, <2>5, <3>1 DEF Queues
  <2> QED
    BY <2>1, <2>4, <2>5
<1>7. Progress'
  BY <1>1, <1>2, <1>3 DEF Inner, Progress
<1>8. Flight'
  BY <1>1, <1>2, <1>3 DEF Inner, Flight, Finishing
<1>9. Slots' /\ Rows'
  BY <1>1, <1>2, <1>3 DEF Inner, Slots, SlotFree, Used, Rows
<1> QED
  BY <1>1, <1>3, <1>5, <1>6, <1>7, <1>8, <1>9, StepIInv DEF Inner

(* The next exclusive test, once the slots are empty.                        *)
LEMMA TakesExclusive == ASSUME IInv, UNCHANGED slots, NextExclusive PROVE IInv'
<1> USE DEF dbVars, testVars
<1> DEFINE t == Head(exclusive_tests)
<1>1. /\ UNCHANGED <<unscanned, in_flight, stage, dbVars, announced, testVars, id>>
      /\ pc = "exclusive" /\ pc' = "start" /\ cur' = t
      /\ exclusive_tests # <<>> /\ exclusive_tests' = Tail(exclusive_tests)
  BY DEF NextExclusive
<1>2. Inner /\ stage = "exclusive" /\ exclusive_tests \in Seq(Exclusive)
  BY <1>1 DEF IInv, Dead, Inner, Queues, Types
<1>3. /\ exclusive_tests' \in Seq(Exclusive) /\ t \in Exclusive /\ t \in Test
      /\ Rng(exclusive_tests) = Rng(exclusive_tests') \union {t}
      /\ Distinct(exclusive_tests') /\ t \notin Rng(exclusive_tests')
  BY <1>1, <1>2, TailFacts, RunTestsAssumption DEF Inner, Queues
<1> HIDE DEF t
<1>4. Types' /\ Concurrency'
  BY <1>1, <1>3, StillConcurrent DEF IInv, Types, Active
<1>5. Queues'
  <2>1. /\ Distinct(cases) /\ unscanned = {}
        /\ \A i \in 1..Len(cases) : cases[i] \notin Rng(exclusive_tests)
        /\ \A u \in Test : u \in Rng(exclusive_tests) \/ u \in Rng(cases)
    BY <1>1, <1>2 DEF Inner, Queues
  <2>2. t \notin Rng(cases)
    BY <1>3, <2>1 DEF Rng
  <2> QED
    BY <1>1, <1>2, <1>3, <2>1, <2>2 DEF Queues
<1>6. Progress'
  BY <1>1, <1>2 DEF Inner, Progress
<1>7. Flight'
  BY <1>1, <1>2 DEF Inner, Flight, Finishing
<1>8. Slots' /\ Rows'
  BY <1>1, <1>2 DEF Inner, Slots, Used, Rows
<1> QED
  BY <1>1, <1>4, <1>5, <1>6, <1>7, <1>8, StepIInv DEF Inner

(* A test gets a row of its own, and its program one if it has none.         *)
LEMMA PutsCase == ASSUME IInv, UNCHANGED slots, PutTestCase PROVE IInv'
<1> USE DEF loopVars, testVars
<1> DEFINE prog == ProgramOf[cur]
<1>1. /\ UNCHANGED <<loopVars, results, committed, announced, testVars, cur>>
      /\ pc = "start" /\ pc' = "spawn"
      /\ programs' = IF prog \in ids_cache THEN programs ELSE Append(programs, prog)
      /\ ids_cache' = ids_cache \union {prog}
      /\ cases' = Append(cases, cur) /\ id' = Len(cases')
  BY DEF PutTestCase, Cached
<1>2. /\ Inner /\ cur \in Test /\ cur \notin Rng(cases) /\ cases \in Seq(Test) /\ Distinct(cases)
      /\ programs \in Seq({ProgramOf[t] : t \in Test})
  BY <1>1 DEF IInv, Dead, Inner, Queues, Types
<1>3. /\ cases' \in Seq(Test) /\ Len(cases') = Len(cases) + 1 /\ Len(cases) \in Nat
      /\ \A i \in 1..Len(cases) : cases'[i] = cases[i]
      /\ cases'[Len(cases')] = cur
      /\ Rng(cases') = Rng(cases) \union {cur} /\ Distinct(cases')
  BY <1>1, <1>2, AppendFacts
<1>4. Len(cases') <= Cardinality(Test) /\ Cardinality(Test) \in Nat
  BY <1>3, DistinctRows
<1>5. /\ programs' \in Seq({ProgramOf[t] : t \in Test})
      /\ Distinct(programs') /\ Rng(programs') = ids_cache'
  <2>1. Distinct(programs) /\ Rng(programs) = ids_cache /\ prog \in {ProgramOf[t] : t \in Test}
    BY <1>2 DEF Inner, Rows
  <2>2. CASE prog \in ids_cache
    BY <1>1, <1>2, <2>1, <2>2
  <2>3. CASE prog \notin ids_cache
    BY <1>1, <1>2, <2>1, <2>3, AppendFacts
  <2> QED
    BY <2>2, <2>3
<1>6. id' \in Id /\ id' \in 1..Len(cases')
  BY <1>1, <1>3, <1>4 DEF Id
<1>7. Types' /\ Concurrency'
  BY <1>1, <1>3, <1>4, <1>5, <1>6, StillConcurrent DEF IInv, Types, Active
<1>8. Queues'
  <2>1. \A i \in 1..Len(cases') : cases'[i] \in Rng(cases')
    BY DEF Rng
  <2>2. \A x \in Rng(cases) : x \notin unscanned /\ x \notin Rng(exclusive_tests)
    BY <1>2 DEF Inner, Queues, Rng
  <2>3. cur \notin unscanned /\ cur \notin Rng(exclusive_tests)
    BY <1>1, <1>2 DEF Inner, Queues
  <2>4. \A i \in 1..Len(cases') : cases'[i] \notin unscanned /\ cases'[i] \notin Rng(exclusive_tests)
    BY <1>3, <2>1, <2>2, <2>3
  <2> QED
    BY <1>1, <1>2, <1>3, <2>4 DEF Inner, Queues
<1>9. Progress'
  BY <1>1, <1>2, <1>3, <1>6 DEF Inner, Progress
<1>10. Flight'
  <2>1. \A i \in 1..Len(cases) : i \in 1..Len(cases')
    BY <1>3
  <2> QED
    BY <1>1, <1>2, <1>3, <2>1 DEF Inner, Flight, Finishing
<1>11. Slots'
  BY <1>1, <1>2 DEF Inner, Slots, Used
<1>12. Rows'
  <2>1. phase[cur] = "new"
    BY <1>2 DEF Inner, Progress
  <2>2. ASSUME NEW i \in 1..Len(cases'), phase[cases'[i]] \in Over
        PROVE  results[i] = verdict[cases'[i]] /\ announced[cases'[i]] = verdict[cases'[i]]
    <3>1. i \in 1..Len(cases) \/ i = Len(cases')
      BY <1>3
    <3> QED
      BY <1>2, <1>3, <2>1, <2>2, <3>1 DEF Inner, Rows, Over
  <2>3. ids_cache' = {ProgramOf[t] : t \in Rng(cases')}
    BY <1>1, <1>2, <1>3 DEF Inner, Rows
  <2> QED
    BY <1>1, <1>5, <2>2, <2>3 DEF Rows
<1> QED
  BY <1>1, <1>7, <1>8, <1>9, <1>10, <1>11, <1>12, StepIInv DEF Inner

(* In the loop the tests at work have PIDs of their own in in_flight.        *)
LEMMA ActiveInFlight ==
  ASSUME IInv, ~Dead, stage = "slots", pc \notin {"finish", "clean"}
  PROVE  /\ IsFiniteSet(Active) /\ Cardinality(Active) \in Nat /\ Cardinality(Used) \in Nat
         /\ Cardinality(Active) <= Cardinality(Used)
<1>1. Flight /\ Progress /\ IsFiniteSet(Used)
  BY DEF IInv, Inner, Slots
<1> DEFINE f == [t \in Active |-> pid[t]]
<1>2. \A t \in Active : /\ pid[t] \in Pid /\ in_flight[pid[t]] \in 1..Len(cases)
                        /\ cases[in_flight[pid[t]]] = t
  BY <1>1 DEF Flight, Progress, Finishing, Active, InHand
<1>3. f \in [Active -> Used]
  BY <1>2 DEF Used
<1>4. \A t, u \in Active : f[t] = f[u] => t = u
  BY <1>2
<1>5. f \in Injection(Active, Used)
  BY <1>3, <1>4 DEF Injection, IsInjective
<1> QED
  BY <1>1, <1>5, FS_Injection, FS_CardinalityType

(* Spawning a test keeps to the slots, and exclusive tests are alone.        *)
LEMMA SpawnConcurrent ==
  ASSUME IInv, UNCHANGED slots, pc = "spawn", cur \in Test,
         Active' = Active \union {cur}
  PROVE  Concurrency'
<1>1. Inner /\ ~Dead /\ slots \in Nat /\ slots >= 1
  BY RunTestsAssumption DEF IInv, Dead, Types
<1>2. CASE stage = "slots"
  <2>1. /\ IsFiniteSet(Active) /\ Cardinality(Active) \in Nat /\ Cardinality(Used) \in Nat
        /\ Cardinality(Active) <= Cardinality(Used)
    BY <1>1, <1>2, ActiveInFlight
  <2>2. Cardinality(Used) < slots
    BY <1>1, <1>2 DEF Inner, Slots
  <2>3. Cardinality(Active') <= slots
    <3>1. Cardinality(Active \cup {cur}) = IF cur \in Active THEN Cardinality(Active)
                                                            ELSE Cardinality(Active) + 1
      BY <2>1, FS_AddElement
    <3>2. Cardinality(Active') = Cardinality(Active \cup {cur})
      OBVIOUS
    <3> HIDE DEF Active
    <3> QED
      BY <1>1, <2>1, <2>2, <3>1, <3>2
  <2>4. \A t \in Active \union {cur} : t \notin Exclusive
    BY <1>1, <1>2 DEF Inner, Progress, Active
  <2> QED
    BY <2>3, <2>4 DEF Concurrency
<1>3. CASE stage # "slots"
  <2>1. Active = {}
    BY <1>1, <1>3 DEF Inner, Flight, Active, InHand, IInv, Types
  <2>2. Active' = {cur}
    BY <2>1
  <2>3. Cardinality({cur}) = 1
    BY FS_Singleton
  <2> QED
    BY <1>1, <2>2, <2>3 DEF Concurrency
<1> QED
  BY <1>2, <1>3

(* spawn_test(): the test is entered under its PID, or the PID clashes.      *)
LEMMA Spawns == ASSUME IInv, UNCHANGED slots, NEW p \in Pid, Spawn(p) PROVE IInv'
<1> USE DEF dbVars
<1> DEFINE t == cur
           clash == stage = "slots" /\ in_flight[p] # 0
<1>1. /\ UNCHANGED <<unscanned, exclusive_tests, stage, dbVars, announced, verdict, cur, id>>
      /\ pc = "spawn" /\ p \notin Busy
      /\ phase' = [phase EXCEPT ![t] = "running"] /\ pid' = [pid EXCEPT ![t] = p]
      /\ in_flight' = IF stage = "slots" /\ ~clash THEN [in_flight EXCEPT ![p] = id] ELSE in_flight
      /\ pc' = IF clash THEN "aborted_by_assertion" ELSE IF stage = "slots" THEN "fill" ELSE "wait"
  BY DEF Spawn
<1>2. /\ Inner /\ id \in 1..Len(cases) /\ cases[id] = t /\ cases \in Seq(Test) /\ t \in Test
      /\ id \in Id /\ id # 0 /\ t \in Rng(cases) /\ phase[t] = "new"
  <2>1. Inner /\ id \in 1..Len(cases) /\ cases[id] = t /\ cases \in Seq(Test) /\ id \in Id \union {0}
    BY <1>1 DEF IInv, Dead, Inner, Progress, Types
  <2>2. t \in Test /\ id # 0 /\ t \in Rng(cases)
    BY <2>1 DEF Rng
  <2> QED
    BY <1>1, <2>1, <2>2 DEF Inner, Progress
<1>3. /\ phase \in [Test -> {"new"} \union InHand \union Over]
      /\ pid \in [Test -> Pid \union {NoPid}] /\ in_flight \in [Pid -> Id \union {0}]
      /\ stage \in {"slots", "exclusive"}
  BY DEF IInv, Types
<1>4. /\ phase'[t] = "running" /\ pid'[t] = p
      /\ \A u \in Test : u # t => phase'[u] = phase[u] /\ pid'[u] = pid[u]
  BY <1>1, <1>2, <1>3
<1>5. Types'
  <2>1. phase' \in [Test -> {"new"} \union InHand \union Over]
    BY <1>1, <1>3 DEF InHand
  <2>2. pid' \in [Test -> Pid \union {NoPid}]
    BY <1>1, <1>3
  <2>3. in_flight' \in [Pid -> Id \union {0}]
    BY <1>1, <1>2, <1>3
  <2> QED
    BY <1>1, <2>1, <2>2, <2>3 DEF IInv, Types
<1>6. Concurrency'
  <2>1. Active' = Active \union {cur}
    BY <1>2, <1>4 DEF Active
  <2> QED
    BY <1>1, <1>2, <2>1, SpawnConcurrent
<1>7. CASE clash
  <2>1. PICK u \in Test : u # t /\ pid[u] = p /\ phase[u] \in InHand
    <3>1. /\ in_flight[p] \in 1..Len(cases) /\ pid[cases[in_flight[p]]] = p
          /\ phase[cases[in_flight[p]]] \in InHand
      BY <1>2, <1>7 DEF Inner, Flight
    <3>2. cases[in_flight[p]] \in Test
      BY <1>2, <3>1
    <3>3. cases[in_flight[p]] # t
      BY <1>2, <3>1 DEF InHand
    <3> QED
      BY <3>1, <3>2, <3>3
  <2>2. u \in WithCleanup /\ phase[u] \in {"cleaning", "ended"}
    <3>1. ~(phase[u] = "running" \/ (phase[u] = "ended" /\ u \notin WithCleanup))
      BY <1>1, <2>1 DEF Busy
    <3>2. phase[u] = "cleaning" => u \in WithCleanup
      BY <1>2 DEF Inner, Progress
    <3> QED
      BY <2>1, <3>1, <3>2 DEF InHand
  <2>3. ClashOnlyByReuse'
    BY <1>1, <1>4, <2>1, <2>2 DEF ClashOnlyByReuse
  <2>4. ~committed /\ ~committed' /\ Dead'
    BY <1>1, <1>7 DEF IInv, Dead
  <2> QED
    BY <1>5, <1>6, <2>3, <2>4 DEF IInv, CommittedComplete
<1>8. CASE ~clash
  <2>1. pc' \in {"fill", "wait"} /\ (pc' = "fill" <=> stage = "slots")
    BY <1>1, <1>3, <1>8
  <2>2. Queues'
    <3>1. stage = "exclusive" => pc' = "wait"
      BY <2>1
    <3> QED
      BY <1>1, <1>2, <2>1, <3>1 DEF Inner, Queues
  <2>3. Progress'
    <3>1. ASSUME NEW u \in Test
          PROVE  /\ phase'[u] = "new" <=> u \notin Rng(cases)
                 /\ phase'[u] \in InHand => pid'[u] \in Pid
                 /\ phase'[u] = "cleaning" => u \in WithCleanup
                 /\ phase'[u] \in {"ended"} \union Over => verdict[u] \in Verdicts
                 /\ phase'[u] # "new" /\ stage = "slots" => u \notin Exclusive
      <4>1. CASE u = t
        BY <1>1, <1>2, <1>4, <4>1 DEF Inner, Progress, Over
      <4>2. CASE u # t
        BY <1>1, <1>2, <1>4, <4>2 DEF Inner, Progress
      <4> QED
        BY <4>1, <4>2
    <3> QED
      BY <1>1, <2>1, <3>1 DEF Progress
  <2>4. Flight'
    <3>1. CASE stage = "slots"
      <4>1. in_flight[p] = 0 /\ in_flight' = [in_flight EXCEPT ![p] = id] /\ pc' = "fill"
        BY <1>1, <1>8, <3>1
      <4>2. in_flight'[p] = id /\ \A q \in Pid : q # p => in_flight'[q] = in_flight[q]
        BY <1>3, <4>1
      <4>3. ASSUME NEW u \in Test, phase'[u] \in InHand
            PROVE  in_flight'[pid'[u]] \in 1..Len(cases) /\ cases[in_flight'[pid'[u]]] = u
        <5>1. CASE u = t
          BY <1>2, <1>4, <4>2, <5>1
        <5>2. CASE u # t
          <6>1. /\ pid[u] \in Pid /\ in_flight[pid[u]] \in 1..Len(cases)
                /\ cases[in_flight[pid[u]]] = u
            BY <1>1, <1>2, <1>4, <3>1, <4>3, <5>2 DEF Inner, Flight, Progress, Finishing
          <6>2. pid[u] # p
            BY <4>1, <6>1
          <6> QED
            BY <1>4, <4>2, <5>2, <6>1, <6>2
        <5> QED
          BY <5>1, <5>2
      <4>4. ASSUME NEW q \in Pid, in_flight'[q] # 0
            PROVE  /\ in_flight'[q] \in 1..Len(cases) /\ pid'[cases[in_flight'[q]]] = q
                   /\ phase'[cases[in_flight'[q]]] \in InHand
        <5>1. CASE q = p
          BY <1>2, <1>4, <4>2, <5>1 DEF InHand
        <5>2. CASE q # p
          <6>1. /\ in_flight[q] \in 1..Len(cases) /\ pid[cases[in_flight[q]]] = q
                /\ phase[cases[in_flight[q]]] \in InHand
            BY <1>2, <4>2, <4>4, <5>2 DEF Inner, Flight
          <6>2. cases[in_flight[q]] \in Test /\ cases[in_flight[q]] # t
            BY <1>2, <6>1 DEF InHand
          <6> QED
            BY <1>4, <4>2, <5>2, <6>1, <6>2
        <5> QED
          BY <5>1, <5>2
      <4> QED
        BY <1>1, <3>1, <4>1, <4>3, <4>4 DEF Flight, Finishing
    <3>2. CASE stage = "exclusive"
      <4>1. in_flight' = in_flight /\ pc' = "wait"
        BY <1>1, <1>8, <3>2
      <4>2. \A q \in Pid : in_flight[q] = 0
        BY <1>2, <3>2 DEF Inner, Flight
      <4>3. \A u \in Test : phase'[u] \in InHand => u = t
        BY <1>1, <1>2, <1>4, <3>2 DEF Inner, Flight
      <4> QED
        BY <1>1, <1>2, <1>4, <3>2, <4>1, <4>2, <4>3 DEF Flight, InHand
    <3> QED
      BY <1>3, <3>1, <3>2
  <2>5. Slots'
    <3>1. CASE stage = "slots"
      <4>1. in_flight' = [in_flight EXCEPT ![p] = id] /\ pc' = "fill"
        BY <1>1, <1>8, <3>1
      <4>2. Used' = Used \union {p}
        BY <1>2, <1>3, <4>1 DEF Used
      <4>3. /\ IsFiniteSet(Used) /\ Cardinality(Used) < slots /\ slots \in Nat
            /\ Cardinality(Used) \in Nat
        BY <1>1, <1>2, <3>1, RunTestsAssumption, FS_CardinalityType DEF Inner, Slots, IInv, Types
      <4>4. /\ IsFiniteSet(Used \cup {p})
            /\ Cardinality(Used \cup {p}) =
                 IF p \in Used THEN Cardinality(Used) ELSE Cardinality(Used) + 1
        BY <4>3, FS_AddElement
      <4>5. Cardinality(Used \cup {p}) <= slots
        BY <4>3, <4>4
      <4> QED
        BY <4>1, <4>2, <4>4, <4>5 DEF Slots
    <3>2. CASE stage # "slots"
      BY <1>1, <1>2, <1>8, <3>2 DEF Inner, Slots, Used
    <3> QED
      BY <3>1, <3>2
  <2>6. Rows'
    <3>1. ASSUME NEW i \in 1..Len(cases), phase'[cases[i]] \in Over
          PROVE  results[i] = verdict[cases[i]] /\ announced[cases[i]] = verdict[cases[i]]
      <4>1. cases[i] \in Test /\ cases[i] # t
        BY <1>2, <1>4, <3>1 DEF Over
      <4> QED
        BY <1>2, <1>4, <3>1, <4>1 DEF Inner, Rows
    <3> QED
      BY <1>1, <1>2, <2>1, <3>1 DEF Inner, Rows
  <2> QED
    BY <1>1, <1>5, <1>6, <2>1, <2>2, <2>3, <2>4, <2>5, <2>6, StepIInv DEF Inner
<1> QED
  BY <1>7, <1>8

(* A test is returned and its row found, by its PID or as the one just put.  *)
LEMMA WaitsAny == ASSUME IInv, UNCHANGED slots, NEW t \in Test, WaitAny(t) PROVE IInv'
<1> USE DEF dbVars, testVars
<1>1. /\ UNCHANGED <<unscanned, exclusive_tests, stage, dbVars, announced, testVars>>
      /\ pc = "wait" /\ pc' = "finish" /\ phase[t] = "ended" /\ cur' = t
      /\ id' = IF stage = "slots" THEN in_flight[pid[t]] ELSE id
      /\ in_flight' = IF stage = "slots" THEN [in_flight EXCEPT ![pid[t]] = 0] ELSE in_flight
  BY DEF WaitAny, RowOf, InFlightWithout
<1>2. Inner /\ in_flight \in [Pid -> Id \union {0}] /\ stage \in {"slots", "exclusive"}
      /\ id \in Id \union {0} /\ cases \in Seq(Test)
  BY <1>1 DEF IInv, Dead, Types
<1>3. pid[t] \in Pid /\ id' \in 1..Len(cases) /\ cases[id'] = t /\ id' \in Id \union {0}
  <2>1. pid[t] \in Pid
    BY <1>1, <1>2 DEF Inner, Progress, InHand
  <2>2. CASE stage = "slots"
    BY <1>1, <1>2, <2>1, <2>2 DEF Inner, Flight, InHand, Finishing
  <2>3. CASE stage = "exclusive"
    BY <1>1, <1>2, <2>1, <2>3 DEF Inner, Flight, InHand
  <2> QED
    BY <1>2, <2>2, <2>3, <2>1
<1>4. Types' /\ Concurrency'
  <2>1. in_flight' \in [Pid -> Id \union {0}]
    BY <1>1, <1>2
  <2> QED
    BY <1>1, <1>3, <2>1, StillConcurrent DEF IInv, Types, Active
<1>5. Queues'
  BY <1>1, <1>2 DEF Inner, Queues
<1>6. Progress'
  BY <1>1, <1>2, <1>3 DEF Inner, Progress
<1>7. Flight'
  <2>1. CASE stage = "slots"
    <3>1. in_flight'[pid[t]] = 0 /\ \A q \in Pid : q # pid[t] => in_flight'[q] = in_flight[q]
      BY <1>1, <1>2, <1>3, <2>1
    <3>2. ASSUME NEW u \in Test, phase[u] \in InHand, u # t
          PROVE  in_flight'[pid[u]] \in 1..Len(cases) /\ cases[in_flight'[pid[u]]] = u
      <4>1. pid[u] \in Pid /\ in_flight[pid[u]] \in 1..Len(cases) /\ cases[in_flight[pid[u]]] = u
        BY <1>1, <1>2, <2>1, <3>2 DEF Inner, Flight, Progress, Finishing
      <4>2. pid[u] # pid[t]
        BY <1>1, <1>3, <2>1, <3>2, <4>1
      <4> QED
        BY <3>1, <4>1, <4>2
    <3>3. ASSUME NEW q \in Pid, in_flight'[q] # 0
          PROVE  /\ in_flight'[q] \in 1..Len(cases) /\ pid[cases[in_flight'[q]]] = q
                 /\ phase[cases[in_flight'[q]]] \in InHand /\ cases[in_flight'[q]] # t
      <4>1. q # pid[t] /\ in_flight'[q] = in_flight[q] /\ in_flight[q] # 0
        BY <3>1, <3>3
      <4> QED
        BY <1>2, <4>1 DEF Inner, Flight
    <3> QED
      BY <1>1, <2>1, <3>2, <3>3 DEF Flight, Finishing
  <2>2. CASE stage = "exclusive"
    <3>1. in_flight' = in_flight /\ (\A q \in Pid : in_flight[q] = 0) /\ t = cur
      BY <1>1, <1>2, <2>2 DEF Inner, Flight, InHand
    <3> QED
      BY <1>1, <1>2, <2>2, <3>1 DEF Inner, Flight
  <2> QED
    BY <1>2, <2>1, <2>2
<1>8. Slots'
  <2>1. Used' \subseteq Used
    BY <1>1, <1>2 DEF Used
  <2>2. /\ IsFiniteSet(Used) /\ Cardinality(Used) <= slots /\ slots \in Nat
    BY <1>2, RunTestsAssumption DEF Inner, Slots, IInv, Types
  <2>3. IsFiniteSet(Used') /\ Cardinality(Used') <= Cardinality(Used)
    BY <2>1, <2>2, FS_Subset
  <2>4. Cardinality(Used) \in Nat /\ Cardinality(Used') \in Nat
    BY <2>2, <2>3, FS_CardinalityType
  <2>5. Cardinality(Used') <= slots
    BY <2>2, <2>3, <2>4
  <2> QED
    BY <1>1, <2>3, <2>5 DEF Slots
<1>9. Rows'
  BY <1>1, <1>2 DEF Inner, Rows
<1> QED
  BY <1>1, <1>4, <1>5, <1>6, <1>7, <1>8, <1>9, StepIInv DEF Inner

(* put_test_result(): the result goes to the row of its own test.            *)
LEMMA PutsResult == ASSUME IInv, UNCHANGED slots, PutResult PROVE IInv'
<1> USE DEF loopVars, testVars
<1>1. /\ UNCHANGED <<loopVars, ids_cache, programs, cases, committed, announced, testVars, cur, id>>
      /\ pc = "finish" /\ pc' = "clean"
      /\ results' = [results EXCEPT ![id] = verdict[cur]]
  BY DEF PutResult
<1>2. /\ Inner /\ id \in 1..Len(cases) /\ cases[id] = cur /\ phase[cur] = "ended"
      /\ cases \in Seq(Test) /\ id \in Id /\ cur \in Test
  <2>1. /\ Inner /\ id \in 1..Len(cases) /\ cases[id] = cur /\ phase[cur] = "ended"
        /\ cases \in Seq(Test) /\ id \in Id \union {0}
    BY <1>1 DEF IInv, Dead, Inner, Progress, Types
  <2>2. id # 0 /\ cases[id] \in Test
    BY <2>1
  <2> QED
    BY <2>1, <2>2
<1>3. /\ results \in [Id -> Verdicts \union {"none"}]
      /\ verdict[cur] \in Verdicts \union {"none"}
  BY <1>2 DEF IInv, Types
<1>4. results'[id] = verdict[cur] /\ \A i \in Id : i # id => results'[i] = results[i]
  BY <1>1, <1>2, <1>3
<1>5. Types' /\ Concurrency'
  <2>1. results' \in [Id -> Verdicts \union {"none"}]
    BY <1>1, <1>3
  <2> QED
    BY <1>1, <2>1, StillConcurrent DEF IInv, Types, Active
<1>6. Queues' /\ Progress'
  BY <1>1, <1>2 DEF Inner, Queues, Progress
<1>7. Flight' /\ Slots'
  BY <1>1, <1>2 DEF Inner, Flight, Finishing, Slots, Used
<1>8. Rows'
  <2>1. ASSUME NEW i \in 1..Len(cases), phase[cases[i]] \in Over
        PROVE  results'[i] = verdict[cases[i]] /\ announced[cases[i]] = verdict[cases[i]]
    <3>1. i # id
      BY <1>2, <2>1 DEF Over
    <3>2. i \in Id
      BY RunTestsAssumption, FS_CardinalityType DEF Id, IInv, Types
    <3> QED
      BY <1>2, <1>4, <2>1, <3>1, <3>2 DEF Inner, Rows
  <2> QED
    BY <1>1, <1>2, <1>4, <2>1 DEF Inner, Rows
<1> QED
  BY <1>1, <1>5, <1>6, <1>7, <1>8, StepIInv DEF Inner

(* safe_cleanup() and got_result(): the driver is through with a test.       *)
LEMMA Announces == ASSUME IInv, UNCHANGED slots, CleanAndAnnounce PROVE IInv'
<1> USE DEF loopVars, dbVars
<1>1. PICK p \in Over : phase' = [phase EXCEPT ![cur] = p]
  BY DEF CleanAndAnnounce, Over
<1>2. /\ UNCHANGED <<loopVars, dbVars, pid, verdict, cur, id>> /\ pc = "clean"
      /\ announced' = [announced EXCEPT ![cur] = verdict[cur]]
      /\ pc' = IF stage = "slots" THEN "loop" ELSE "exclusive"
  BY DEF CleanAndAnnounce
<1>3. /\ Inner /\ id \in 1..Len(cases) /\ cases[id] = cur /\ phase[cur] = "ended"
      /\ cases \in Seq(Test) /\ cur \in Test /\ cur \in Rng(cases)
      /\ stage \in {"slots", "exclusive"} /\ results[id] = verdict[cur]
  <2>1. /\ Inner /\ id \in 1..Len(cases) /\ cases[id] = cur /\ phase[cur] = "ended"
        /\ cases \in Seq(Test) /\ stage \in {"slots", "exclusive"} /\ results[id] = verdict[cur]
    BY <1>2 DEF IInv, Dead, Inner, Progress, Rows, Types
  <2>2. cases[id] \in Test /\ cases[id] \in Rng(cases)
    BY <2>1 DEF Rng
  <2> QED
    BY <2>1, <2>2
<1>4. /\ phase \in [Test -> {"new"} \union InHand \union Over]
      /\ announced \in [Test -> Verdicts \union {"none"}]
      /\ verdict \in [Test -> Verdicts \union {"none"}]
  BY DEF IInv, Types
<1>5. /\ phase'[cur] = p /\ announced'[cur] = verdict[cur]
      /\ \A u \in Test : u # cur => phase'[u] = phase[u] /\ announced'[u] = announced[u]
  BY <1>1, <1>2, <1>3, <1>4
<1>6. p \notin InHand /\ p # "new"
  BY DEF Over, InHand
<1>7. Types'
  <2>1. phase' \in [Test -> {"new"} \union InHand \union Over]
    BY <1>1, <1>4
  <2>2. announced' \in [Test -> Verdicts \union {"none"}]
    BY <1>2, <1>3, <1>4
  <2> QED
    BY <1>2, <2>1, <2>2 DEF IInv, Types
<1>8. Concurrency'
  <2>1. Active' \subseteq Active
    BY <1>5, <1>6 DEF Active, InHand
  <2> QED
    BY <2>1, StillConcurrent
<1>9. Queues'
  BY <1>2, <1>3 DEF Inner, Queues
<1>10. Progress'
  <2>1. ASSUME NEW u \in Test
        PROVE  /\ phase'[u] = "new" <=> u \notin Rng(cases)
               /\ phase'[u] \in InHand => pid[u] \in Pid
               /\ phase'[u] = "cleaning" => u \in WithCleanup
               /\ phase'[u] \in {"ended"} \union Over => verdict[u] \in Verdicts
               /\ phase'[u] # "new" /\ stage = "slots" => u \notin Exclusive
    <3>1. CASE u = cur
      BY <1>2, <1>3, <1>5, <1>6, <3>1 DEF Inner, Progress, Over, InHand
    <3>2. CASE u # cur
      BY <1>2, <1>3, <1>5, <3>2 DEF Inner, Progress
    <3> QED
      BY <3>1, <3>2
  <2> QED
    BY <1>2, <2>1 DEF Progress
<1>11. Flight'
  <2>1. ASSUME NEW u \in Test, phase'[u] \in InHand
        PROVE  u # cur /\ phase[u] \in InHand /\ ~Finishing(u)
    BY <1>5, <1>6, <2>1 DEF Finishing
  <2>2. ASSUME NEW q \in Pid, in_flight[q] # 0
        PROVE  /\ stage = "slots" /\ in_flight[q] \in 1..Len(cases)
               /\ pid[cases[in_flight[q]]] = q /\ phase'[cases[in_flight[q]]] \in InHand
    <3>1. /\ stage = "slots" /\ in_flight[q] \in 1..Len(cases)
          /\ pid[cases[in_flight[q]]] = q /\ phase[cases[in_flight[q]]] \in InHand
          /\ cases[in_flight[q]] # cur
      BY <1>2, <1>3, <2>2 DEF Inner, Flight, Finishing
    <3>2. cases[in_flight[q]] \in Test
      BY <1>3, <3>1
    <3> QED
      BY <1>5, <3>1, <3>2
  <2> QED
    BY <1>2, <1>3, <2>1, <2>2 DEF Inner, Flight, Finishing
<1>12. Slots'
  BY <1>2, <1>3 DEF Inner, Slots, Used
<1>13. Rows'
  <2>1. ASSUME NEW i \in 1..Len(cases), phase'[cases[i]] \in Over
        PROVE  results[i] = verdict[cases[i]] /\ announced'[cases[i]] = verdict[cases[i]]
    <3>1. CASE i = id
      BY <1>3, <1>5, <3>1
    <3>2. CASE i # id
      <4>1. cases[i] \in Test /\ cases[i] # cur
        BY <1>3, <3>2 DEF Inner, Queues, Distinct
      <4> QED
        BY <1>3, <1>5, <2>1, <4>1 DEF Inner, Rows
    <3> QED
      BY <3>1, <3>2
  <2> QED
    BY <1>2, <1>3, <2>1 DEF Inner, Rows
<1> QED
  BY <1>2, <1>7, <1>8, <1>9, <1>10, <1>11, <1>12, <1>13, StepIInv DEF Inner

(* The commit: every test has its row, and every row its result.             *)
LEMMA Commits == ASSUME IInv, UNCHANGED slots, Commit PROVE IInv'
<1> USE DEF loopVars, testVars
<1>1. /\ UNCHANGED <<loopVars, ids_cache, programs, cases, results, announced, testVars, cur, id>>
      /\ pc = "exclusive" /\ exclusive_tests = <<>> /\ committed' = TRUE /\ pc' = "done"
  BY DEF Commit
<1>2. Inner /\ stage = "exclusive" /\ cases \in Seq(Test)
  BY <1>1 DEF IInv, Dead, Inner, Queues, Types
<1>3. Rng(cases) = Test
  <2>1. Rng(exclusive_tests) = {} /\ unscanned = {}
    BY <1>1, <1>2 DEF Rng, Inner, Queues
  <2>2. \A t \in Test : t \in Rng(cases)
    BY <1>1, <1>2, <2>1 DEF Inner, Queues
  <2>3. Rng(cases) \subseteq Test
    BY <1>2 DEF Rng
  <2> QED
    BY <2>2, <2>3
<1>4. Len(cases) = Cardinality(Test) /\ Id = 1..Len(cases)
  <2>1. Len(cases) = Cardinality(Test)
    BY <1>2, <1>3, DistinctRows DEF Inner, Queues
  <2> QED
    BY <2>1 DEF Id
<1>5. ASSUME NEW t \in Test PROVE phase[t] \in Over /\ verdict[t] \in Verdicts
  <2>1. phase[t] # "new" /\ phase[t] \notin InHand
    BY <1>1, <1>2, <1>3 DEF Inner, Progress, Flight
  <2>2. phase[t] \in Over
    BY <2>1 DEF IInv, Types
  <2> QED
    BY <1>2, <2>2 DEF Inner, Progress
<1>6. ASSUME NEW i \in Id
      PROVE  /\ results[i] = verdict[cases[i]] /\ results[i] # "none"
             /\ announced[cases[i]] = verdict[cases[i]]
  <2>1. i \in 1..Len(cases) /\ cases[i] \in Test
    BY <1>2, <1>4
  <2> QED
    BY <1>2, <1>5, <2>1 DEF Inner, Rows, Verdicts
<1>7. \A t \in Test : announced[t] = verdict[t]
  BY <1>3, <1>4, <1>6 DEF Rng
<1>8. /\ {cases[i] : i \in Id} = Test
      /\ {programs[i] : i \in 1..Len(programs)} = {ProgramOf[t] : t \in Test}
      /\ \A i, j \in 1..Len(programs) : programs[i] = programs[j] => i = j
  BY <1>2, <1>3, <1>4 DEF Inner, Rows, Rng, Distinct
<1>9. CommittedComplete'
  <2> DEFINE Full(c, r, p, v, a) ==
        /\ Len(c) = Cardinality(Test) /\ {c[i] : i \in Id} = Test
        /\ \A i \in Id : r[i] = v[c[i]] /\ r[i] # "none"
        /\ \A t \in Test : a[t] = v[t]
        /\ \A i, j \in 1..Len(p) : p[i] = p[j] => i = j
        /\ {p[i] : i \in 1..Len(p)} = {ProgramOf[t] : t \in Test}
  <2>1. CommittedComplete' <=> (committed' => Full(cases', results', programs', verdict', announced'))
    BY DEF CommittedComplete
  <2>2. Full(cases, results, programs, verdict, announced)
    BY <1>4, <1>6, <1>7, <1>8
  <2>3. /\ cases' = cases /\ results' = results /\ programs' = programs
        /\ verdict' = verdict /\ announced' = announced
    BY <1>1
  <2> HIDE DEF Full
  <2> QED
    BY <2>1, <2>2, <2>3
<1>10. Types' /\ Concurrency'
  BY <1>1, StillConcurrent DEF IInv, Types, Active
<1>11. Queues' /\ Progress'
  BY <1>1, <1>2 DEF Inner, Queues, Progress
<1>12. Flight' /\ Slots' /\ Rows'
  BY <1>1, <1>2 DEF Inner, Flight, Finishing, Slots, Used, Rows
<1> QED
  BY <1>1, <1>9, <1>10, <1>11, <1>12 DEF IInv, Inner, ClashOnlyByReuse

(* A body or a cleanup routine ends.                                         *)
LEMMA TestsEnd == ASSUME IInv, NEW t \in Test, TestEnds(t) PROVE IInv'
<1> USE DEF loopVars, dbVars
<1>1. /\ UNCHANGED <<slots, loopVars, dbVars, announced, pid, pc, cur, id>>
      /\ pc \notin {"done", "aborted", "aborted_by_assertion"}
      /\ phase[t] \in {"running", "cleaning"}
  BY DEF TestEnds
<1>2. PICK s : /\ phase' = [phase EXCEPT ![t] = s]
               /\ s \in {"cleaning", "ended"} /\ (s = "cleaning" => t \in WithCleanup)
               /\ \/ s = "cleaning" /\ verdict' = verdict
                  \/ \E v \in Verdicts : verdict' = [verdict EXCEPT ![t] = v]
  BY DEF TestEnds
<1>3. Inner
  BY <1>1 DEF IInv, Dead
<1>4. /\ phase \in [Test -> {"new"} \union InHand \union Over]
      /\ verdict \in [Test -> Verdicts \union {"none"}]
  BY DEF IInv, Types
<1>5. /\ phase'[t] = s /\ phase'[t] \in InHand /\ phase[t] \in InHand
      /\ \A u \in Test : u # t => phase'[u] = phase[u] /\ verdict'[u] = verdict[u]
      /\ s = "ended" => verdict'[t] \in Verdicts
  <2>1. phase'[t] = s /\ \A u \in Test : u # t => phase'[u] = phase[u]
    BY <1>2, <1>4
  <2>2. s = "ended" => verdict'[t] \in Verdicts
    BY <1>2, <1>4
  <2>3. \A u \in Test : u # t => verdict'[u] = verdict[u]
    BY <1>2, <1>4
  <2> QED
    BY <1>1, <1>2, <2>1, <2>2, <2>3 DEF InHand
<1>6. \A u \in Test : (phase'[u] \in InHand <=> phase[u] \in InHand)
                      /\ (phase'[u] = "new" <=> phase[u] = "new")
                      /\ (phase'[u] \in Over => u # t)
  BY <1>5 DEF InHand, Over
<1>7. Types'
  <2>1. phase' \in [Test -> {"new"} \union InHand \union Over]
    BY <1>2, <1>4 DEF InHand
  <2>2. verdict' \in [Test -> Verdicts \union {"none"}]
    BY <1>2, <1>4
  <2> QED
    BY <1>1, <2>1, <2>2 DEF IInv, Types
<1>8. Concurrency'
  <2>1. Active' \subseteq Active
    BY <1>1, <1>5 DEF Active
  <2> QED
    BY <1>1, <2>1, StillConcurrent
<1>9. Queues'
  BY <1>1, <1>3 DEF Inner, Queues
<1>10. cur # t \/ pc \notin {"finish", "clean"}
  BY <1>1, <1>3 DEF Inner, Progress
<1>11. Progress'
  <2>1. ASSUME NEW u \in Test
        PROVE  /\ phase'[u] = "new" <=> u \notin Rng(cases) \/ (pc = "spawn" /\ cur = u)
               /\ phase'[u] \in InHand => pid[u] \in Pid
               /\ phase'[u] = "cleaning" => u \in WithCleanup
               /\ phase'[u] \in {"ended"} \union Over => verdict'[u] \in Verdicts
               /\ phase'[u] # "new" /\ stage = "slots" => u \notin Exclusive
    <3>1. CASE u = t
      BY <1>2, <1>3, <1>5, <1>6, <3>1 DEF Inner, Progress, Over
    <3>2. CASE u # t
      BY <1>3, <1>5, <1>6, <3>2 DEF Inner, Progress
    <3> QED
      BY <3>1, <3>2
  <2>2. ASSUME pc \in {"finish", "clean"}
        PROVE  id \in 1..Len(cases) /\ cases[id] = cur /\ phase'[cur] = "ended"
    <3>1. id \in 1..Len(cases) /\ cases[id] = cur /\ phase[cur] = "ended"
      BY <1>3, <2>2 DEF Inner, Progress
    <3>2. cur \in Test /\ cur # t
      BY <1>10, <2>2, <3>1 DEF IInv, Types
    <3> QED
      BY <1>5, <3>1, <3>2
  <2> QED
    BY <1>1, <1>3, <2>1, <2>2 DEF Inner, Progress
<1>12. Flight'
  <2>1. ASSUME NEW q \in Pid, in_flight[q] # 0
        PROVE  phase'[cases[in_flight[q]]] \in InHand
    <3>1. in_flight[q] \in 1..Len(cases) /\ phase[cases[in_flight[q]]] \in InHand
      BY <1>3, <2>1 DEF Inner, Flight
    <3>2. cases[in_flight[q]] \in Test
      BY <3>1 DEF IInv, Types
    <3> QED
      BY <1>6, <3>1, <3>2
  <2>2. ASSUME stage = "exclusive", pc = "wait"
        PROVE  id \in 1..Len(cases) /\ cases[id] = cur /\ phase'[cur] \in InHand
    <3>1. id \in 1..Len(cases) /\ cases[id] = cur /\ phase[cur] \in InHand
      BY <1>3, <2>2 DEF Inner, Flight
    <3>2. cur \in Test
      BY <3>1 DEF IInv, Types
    <3> QED
      BY <1>6, <3>1, <3>2
  <2> QED
    BY <1>1, <1>3, <1>6, <2>1, <2>2 DEF Inner, Flight, Finishing
<1>13. Slots'
  BY <1>1, <1>3 DEF Inner, Slots, Used
<1>14. Rows'
  <2>1. ASSUME NEW i \in 1..Len(cases), phase'[cases[i]] \in Over
        PROVE  results[i] = verdict'[cases[i]] /\ announced[cases[i]] = verdict'[cases[i]]
    <3>1. cases[i] \in Test /\ cases[i] # t
      BY <1>6, <2>1 DEF IInv, Types
    <3> QED
      BY <1>3, <1>5, <2>1, <3>1 DEF Inner, Rows
  <2>2. ASSUME pc = "clean" PROVE results[id] = verdict'[cur]
    <3>1. cur \in Test /\ cur # t
      BY <1>3, <1>10, <2>2 DEF Inner, Progress, IInv, Types
    <3> QED
      BY <1>3, <1>5, <2>2, <3>1 DEF Inner, Rows
  <2> QED
    BY <1>1, <1>3, <2>1, <2>2 DEF Inner, Rows
<1> QED
  BY <1>1, <1>7, <1>8, <1>9, <1>11, <1>12, <1>13, <1>14, StepIInv DEF Inner

(* Every step keeps the invariant.                                           *)
LEMMA NextIInv == ASSUME IInv, [Next]_vars PROVE IInv'
<1>1. CASE Drive
  <2>1. ASSUME Interrupted PROVE IInv'
    BY <1>1, <2>1, RollsBack DEF Interrupted, Drive
  <2> QED
    BY <1>1, <2>1, Yields, WaitsAny, Spawns, Fills, Loops, TakesExclusive, PutsCase, PutsResult,
       Announces, Commits DEF Drive
<1>2. CASE StoreFails
  BY <1>2, RollsBack DEF StoreFails
<1>3. CASE Interrupt \/ UNCHANGED vars
  BY <1>3, Unmoved DEF Interrupt, vars
<1> QED
  BY <1>1, <1>2, <1>3, TestsEnd DEF Next

(* IInv is an invariant of the specification.                               *)
LEMMA Invariance == Spec => []IInv
  BY InitIInv, NextIInv, PTL DEF Spec

(* What run_tests commits is complete, for any tests, programs, parallelism  *)
(* and PIDs: one row per test, with the result of that very test, which is   *)
(* what the user was told, however results overtake one another and PIDs are *)
(* used again.                                                               *)
THEOREM CommitsComplete == Spec => []CommittedComplete
<1>1. IInv => CommittedComplete
  BY DEF IInv
<1> QED
  BY <1>1, Invariance, PTL

(* The driver keeps to its slots, runs exclusive tests alone, waits only     *)
(* while there is a test to wait for, and its assertion on PIDs fails only   *)
(* if the kernel used the PID of a body again while its cleanup was running. *)
THEOREM KeepsToSlots == Spec => []SlotsRespected
<1>1. IInv => SlotsRespected
  <2> SUFFICES ASSUME IInv PROVE SlotsRespected
    OBVIOUS
  <2>1. TypeOK
    BY DEF IInv, Types, TypeOK, InHand, Over
  <2>2. WaitsForSomething
    <3> SUFFICES ASSUME pc = "wait"
                 PROVE  \E t \in Test : phase[t] \in InHand
      BY DEF WaitsForSomething, InHand
    <3>1. Inner /\ cases \in Seq(Test) /\ stage \in {"slots", "exclusive"}
      BY DEF IInv, Dead, Types
    <3>2. CASE stage = "slots"
      <4>1. PICK p \in Pid : in_flight[p] # 0
        BY <3>1, <3>2 DEF Inner, Flight
      <4>2. in_flight[p] \in 1..Len(cases) /\ phase[cases[in_flight[p]]] \in InHand
        BY <3>1, <4>1 DEF Inner, Flight
      <4> QED
        BY <3>1, <4>2
    <3>3. CASE stage = "exclusive"
      BY <3>1, <3>3 DEF Inner, Flight
    <3> QED
      BY <3>1, <3>2, <3>3
  <2> QED
    BY <2>1, <2>2 DEF IInv, SlotsRespected
<1> QED
  BY <1>1, Invariance, PTL
=============================================================================
