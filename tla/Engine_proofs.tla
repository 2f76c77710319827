----------------------------- MODULE Engine_proofs -----------------------------
(* Three parts of the engine, for any tests.                                 *)
(*                                                                           *)
(* What a test program runs in, and what is left of its jail, for any faults.*)
(* RunsIsolated only speaks of a child that runs; the invariant says of every*)
(* step on the way what has been done so far (Prepared), why a child may come*)
(* to run at all (Allowed) and that it is in a jail that exists (Inside).    *)
(* NoJailForgotten only speaks of the end; until then a jail, and a "jail -c"*)
(* at work, belong to a test that is yet to remove it or is not good any more*)
(* (Accountable).                                                            *)
(*                                                                           *)
(* What the interfaces make of what a program wrote, however long it is.  The*)
(* parsers go through the lines one by one: what each has found after n of   *)
(* them (ScanMeans, TallyMeans, AtfListMeans, GtestListMeans) is kept by a   *)
(* line, so it holds of the whole output, and a verdict or a list is nothing *)
(* but what the parser makes of it (JudgedInv).                              *)
(*                                                                           *)
(* What comes of the Kyuafiles, whatever their scripts call and whichever of *)
(* their failures they catch.  While they are read, each program of each     *)
(* parser is traced to the call that made it (Traced), and a parser knows    *)
(* the suite its own file declared (SuitesOK); the scanner then goes through *)
(* the programs in order, and what it has yielded it has checked (ScanOK).   *)
EXTENDS Loading, Isolation, TestInterfaces, WellFoundedInduction, SequenceTheorems,
        FiniteSetTheorems, TLAPS

(* The steps of a child that come after each of the first ones.              *)
Launching == {"create", "creating", "attach", "chdir back", "exec", "running"}
AfterUser == Launching \cup {"hook"}
AfterEnvironment == AfterUser \cup {"user"}
AfterSignals == AfterEnvironment \cup {"environment"}
AfterChdir == AfterSignals \cup {"signals"}
AfterPath == AfterChdir \cup {"chdir"}
AfterRedirect == AfterPath \cup {"isolate_path"}
Steps == AfterRedirect \cup {"redirect", "ended"}

(* The attributes of a child, whatever their values.                         *)
Attributes == {"uid", "gid", "groups", "cwd", "jail", "env", "out", "held", "core"}
AttrOK(p) ==
  /\ DOMAIN p = Attributes /\ p = [f \in Attributes |-> p[f]]
  /\ DOMAIN p.core = {"soft", "hard"} /\ p.core = [f \in {"soft", "hard"} |-> p.core[f]]

Shapes ==
  /\ def \in Defs /\ is_root \in BOOLEAN
  /\ stage \in [Cases -> {"new", "body", "cleanup", "execenv", "done"}]
  /\ step \in [Cases -> Steps]
  /\ proc = [t \in Cases |-> proc[t]] /\ \A t \in Cases : AttrOK(proc[t])
  /\ owner = [t \in Cases |-> owner[t]] /\ ended = [t \in Cases |-> ended[t]]
  /\ creating \subseteq Cases /\ faults \in Nat
  /\ \A n \in DOMAIN jails : jails[n] \in Cases /\ make_name(jails[n]) = n

(* What the child of t has done so far.                                      *)
Prepared(t) ==
  /\ step[t] \in AfterRedirect => proc[t].out = t
  /\ ~Drops(t) => owner[t] = Self.uid /\ proc[t].uid = Self.uid /\ proc[t].gid = Self.gid
  /\ Drops(t) /\ step[t] \in AfterPath => owner[t] = User.uid
  /\ Drops(t) /\ step[t] \in AfterUser => proc[t].uid = User.uid /\ proc[t].gid = User.gid
  /\ step[t] \in AfterChdir /\ step[t] # "chdir back" => proc[t].cwd = "work"
  /\ proc[t].core.hard = CoreLimit
  /\ step[t] \notin AfterSignals \cup {"ended"} =>
       proc[t].core.soft = 0 /\ proc[t].held = {"INT", "ALRM", "THR"}
  /\ step[t] \in AfterSignals =>
       proc[t].core.soft = CoreLimit /\ (proc[t].held \subseteq {"THR"} \/ faults > 0)
  /\ step[t] \in AfterEnvironment =>
       DOMAIN proc[t].env \cap Locale = {} /\ proc[t].env["HOME"] = "work"

(* Who gets as far as that.                                                  *)
Allowed(t) ==
  /\ stage[t] \in {"new", "done"} => step[t] = "ended"
  /\ stage[t] = "cleanup" => def[t].cleanup
  /\ step[t] \in Launching => stage[t] \in {"body", "cleanup"} /\ ~def[t].fake
  /\ step[t] \in Launching /\ stage[t] = "body" => ~def[t].unmet
  /\ def[t].unmet /\ ~def[t].fake /\ stage[t] = "body" /\ step[t] = "ended" => Skipped(t) \/ faults > 0
  /\ def[t].unmet /\ stage[t] = "cleanup" => faults > 0

(* Nobody is in a jail before the hook, and the jail of a child that has     *)
(* entered it exists.                                                        *)
Inside(t) ==
  /\ step[t] \notin Launching \cup {"ended"} => proc[t].jail = <<>>
  /\ UsesExecenv(t) /\ step[t] \in {"chdir back", "exec", "running"} =>
       proc[t].jail = make_name(t) /\ make_name(t) \in DOMAIN jails

(* A jail and a "jail -c" whose test is through: the test is not good.       *)
Owns(t) == \E n \in DOMAIN jails : jails[n] = t
Accountable(t) ==
  /\ t \in cookie => def[t].unmet
  /\ t \in good_tests => stage[t] \notin {"new", "body"}
  /\ step[t] \in {"create", "creating"} => stage[t] = "body" /\ UsesExecenv(t)
  /\ t \in creating \/ Owns(t) => UsesExecenv(t) /\ ~def[t].unmet /\ stage[t] # "new"
  /\ t \in creating => \/ At(t, "creating")
                       \/ stage[t] = "body" /\ step[t] = "ended" /\ ended[t] # Success
                       \/ stage[t] # "body" /\ t \notin good_tests
  /\ Owns(t) /\ stage[t] = "done" => t \notin good_tests
  /\ Owns(t) /\ stage[t] = "execenv" /\ step[t] = "ended" =>
       t \notin good_tests \/ ended[t] # Success

Fine(t) == Prepared(t) /\ Allowed(t) /\ Inside(t) /\ Accountable(t)
IsoInv == Shapes /\ \A t \in Cases : Fine(t)

(* Nothing changes for u, ...                                                *)
Same(u) ==
  /\ stage'[u] = stage[u] /\ step'[u] = step[u] /\ proc'[u] = proc[u]
  /\ owner'[u] = owner[u] /\ ended'[u] = ended[u]
  /\ u \in cookie' <=> u \in cookie
  /\ u \in good_tests' <=> u \in good_tests
  /\ u \in creating' <=> u \in creating

(* What the tests are does not change.                                       *)
LEMMA DefsStay ==
  ASSUME UNCHANGED <<def, is_root>>
  PROVE  /\ Self' = Self
         /\ \A u \in Cases : /\ make_name(u)' = make_name(u) /\ UsesExecenv(u)' = UsesExecenv(u)
                             /\ has_execenv(u)' = has_execenv(u) /\ Drops(u)' = Drops(u)
<1>1. Self' = Self
  BY DEF Self
<1>2. \A u \in Cases : make_name(u)' = make_name(u)
  BY DEF make_name
<1>3. \A u \in Cases : UsesExecenv(u)' = UsesExecenv(u) /\ has_execenv(u)' = has_execenv(u)
                       /\ Drops(u)' = Drops(u)
  BY DEF UsesExecenv, has_execenv, Drops
<1> QED
  BY <1>1, <1>2, <1>3

(* ... and so the invariant stays true of it, if it does not lose its jail.  *)
LEMMA SameFine ==
  ASSUME UNCHANGED <<def, is_root>>, NEW u \in Cases, Fine(u), Same(u),
         faults \in Nat, faults' \in Nat, faults > 0 => faults' > 0,
         Inside(u)', Owns(u)' => Owns(u)
  PROVE  Fine(u)'
<1> USE DefsStay DEF Same
<1>1. Prepared(u)'
  BY DEF Fine, Prepared
<1>2. Allowed(u)'
  BY DEF Fine, Allowed, Skipped
<1>3. Accountable(u)'
  BY DEF Fine, Accountable, At
<1> QED
  BY <1>1, <1>2, <1>3 DEF Fine

(* A step of one test that leaves the jails alone.                           *)
LEMMA OneStep ==
  ASSUME IsoInv, UNCHANGED <<def, is_root, jails>>, NEW t \in Cases,
         \A u \in Cases : u # t => Same(u), faults' \in {faults, faults + 1}, Shapes', Fine(t)'
  PROVE  IsoInv'
<1>1. faults \in Nat /\ faults' \in Nat /\ (faults > 0 => faults' > 0)
  BY DEF IsoInv, Shapes
<1>2. ASSUME NEW u \in Cases, u # t PROVE Fine(u)'
  <2>1. Owns(u)' => Owns(u)
    BY DEF Owns
  <2>2. Inside(u)'
    BY <1>2, DefsStay DEF IsoInv, Fine, Inside, Same
  <2> QED
    BY <1>1, <1>2, <2>1, <2>2, SameFine DEF IsoInv
<1> QED
  BY <1>2 DEF IsoInv

-----------------------------------------------------------------------------
(* Steps of one child. *)

(* A child that fails, or that may as well: nothing was prepared for good.   *)
LEMMA EndsBadly ==
  ASSUME IsoInv, UNCHANGED <<def, is_root, jails, creating, proc, owner, cookie>>,
         NEW t \in Cases, stage[t] \in {"body", "cleanup", "execenv"}, step[t] # "ended",
         NEW how, how # Success, Exit(t, how), faults' \in {faults, faults + 1},
         faults' = faults + 1 \/ step[t] \in Launching \/ stage[t] = "execenv"
  PROVE  IsoInv'
<1>1. /\ ended'[t] = how /\ step'[t] = "ended" /\ stage' = stage /\ good_tests' = good_tests
      /\ \A u \in Cases : u # t => ended'[u] = ended[u] /\ step'[u] = step[u]
      /\ step' \in [Cases -> Steps] /\ ended' = [u \in Cases |-> ended'[u]]
  BY DEF IsoInv, Shapes, Exit, Steps
<1>2. faults \in Nat /\ faults' \in Nat /\ (faults' = faults + 1 => faults' > 0)
  BY DEF IsoInv, Shapes
<1>3. Shapes'
  BY <1>1, <1>2, DefsStay DEF IsoInv, Shapes
<1>4. \A u \in Cases : u # t => Same(u)
  BY <1>1 DEF Same
<1>5. "ended" \notin AfterRedirect \cup AfterPath \cup AfterChdir \cup AfterSignals
                       \cup AfterEnvironment \cup AfterUser \cup Launching
  BY DEF AfterRedirect, AfterPath, AfterChdir, AfterSignals, AfterEnvironment, AfterUser, Launching
<1>6. Prepared(t)'
  BY <1>1, <1>5, DefsStay DEF IsoInv, Fine, Prepared
<1>7. Allowed(t)'
  BY <1>1, <1>2, <1>5, DefsStay DEF IsoInv, Fine, Allowed
<1>8. Inside(t)'
  BY <1>1 DEF Inside
<1>9. Accountable(t)'
  <2>1. Owns(t)' <=> Owns(t)
    BY DEF Owns
  <2> QED
    BY <1>1, <2>1, DefsStay DEF IsoInv, Fine, Accountable, At
<1> QED
  BY <1>2, <1>3, <1>4, <1>6, <1>7, <1>8, <1>9, OneStep DEF Fine

LEMMA AttrsAt ==
  ASSUME IsoInv, NEW t \in Cases
  PROVE  AttrOK(proc[t]) /\ Prepared(t) /\ Allowed(t) /\ Inside(t) /\ Accountable(t)
BY DEF IsoInv, Shapes, Fine

LEMMA AllSteps ==
  Launching \cup {"isolate_path", "chdir", "signals", "environment", "user", "hook", "redirect", "ended"}
    = Steps
BY DEF Steps, AfterRedirect, AfterPath, AfterChdir, AfterSignals, AfterEnvironment, AfterUser

(* What a step of the child of t may change.                                 *)
Changes(t) ==
  /\ step' \in [Cases -> Steps] /\ \A u \in Cases : u # t => step'[u] = step[u]
  /\ proc' = [u \in Cases |-> proc'[u]] /\ \A u \in Cases : u # t => proc'[u] = proc[u]
  /\ owner' = [u \in Cases |-> owner'[u]] /\ \A u \in Cases : u # t => owner'[u] = owner[u]
  /\ AttrOK(proc'[t])
  /\ faults' \in {faults, faults + 1}
  /\ UNCHANGED <<stage, ended, good_tests>>

(* A child that goes on.                                                     *)
LEMMA Advances ==
  ASSUME IsoInv, UNCHANGED <<def, is_root, jails, cookie>>, NEW t \in Cases, Changes(t),
         creating' \subseteq Cases, \A u \in Cases : u # t => (u \in creating' <=> u \in creating),
         Fine(t)'
  PROVE  IsoInv'
<1>1. \A u \in Cases : AttrOK(proc'[u])
  BY DEF IsoInv, Shapes, Changes
<1>2. faults \in Nat /\ faults' \in Nat
  BY DEF IsoInv, Shapes, Changes
<1>3. Shapes'
  BY <1>1, <1>2, DefsStay DEF IsoInv, Shapes, Changes
<1>4. \A u \in Cases : u # t => Same(u)
  BY DEF Same, Changes
<1> QED
  BY <1>3, <1>4, OneStep DEF Changes

(* ... to one of the first steps.                                            *)
LEMMA Prepares ==
  ASSUME IsoInv, UNCHANGED <<def, is_root, jails, creating, cookie>>, NEW t \in Cases, Changes(t),
         step'[t] \in {"isolate_path", "chdir", "signals", "environment", "user", "hook"},
         step[t] \notin Launching \cup {"ended"}, proc'[t].jail = proc[t].jail, Prepared(t)'
  PROVE  IsoInv'
<1>1. step'[t] \notin Launching \cup {"ended"}
  BY DEF Launching
<1>2. /\ stage' = stage /\ ended' = ended /\ good_tests' = good_tests
      /\ faults \in Nat /\ faults' \in Nat /\ (faults > 0 => faults' > 0)
      /\ Owns(t)' <=> Owns(t)
  BY DEF IsoInv, Shapes, Changes, Owns
<1>3. Allowed(t)'
  BY <1>1, <1>2 DEF IsoInv, Fine, Allowed, Skipped
<1>4. Inside(t)'
  BY <1>1, <1>2, AttrsAt DEF Inside, Launching
<1>5. Accountable(t)'
  BY <1>1, <1>2, DefsStay DEF IsoInv, Fine, Accountable, At, Launching
<1>6. creating' \subseteq Cases
  BY DEF IsoInv, Shapes
<1> QED
  BY <1>3, <1>4, <1>5, <1>6, Advances DEF Fine

(* A step that only changes the attributes of the child.                     *)
LEMMA Alters ==
  ASSUME IsoInv, NEW t \in Cases, NEW p, AttrOK(p), proc' = [proc EXCEPT ![t] = p],
         NEW s \in Steps, GoOn(t, s), UNCHANGED owner, faults' \in {faults, faults + 1}
  PROVE  Changes(t) /\ proc'[t] = p /\ step'[t] = s /\ owner'[t] = owner[t]
<1>1. /\ proc' = [u \in Cases |-> proc'[u]] /\ \A u \in Cases : u # t => proc'[u] = proc[u]
      /\ proc'[t] = p
  BY DEF IsoInv, Shapes
<1>2. /\ step' \in [Cases -> Steps] /\ \A u \in Cases : u # t => step'[u] = step[u]
      /\ step'[t] = s /\ UNCHANGED <<stage, ended, good_tests>>
  BY DEF IsoInv, Shapes, GoOn
<1>3. owner' = [u \in Cases |-> owner'[u]] /\ \A u \in Cases : u # t => owner'[u] = owner[u]
  BY DEF IsoInv, Shapes
<1> QED
  BY <1>1, <1>2, <1>3 DEF Changes

(* Redirection of its output.                                                *)
LEMMA Redirects ==
  ASSUME IsoInv, UNCHANGED <<def, is_root>>, NEW t \in Cases, Redirect(t) PROVE IsoInv'
<1>1. /\ stage[t] \in {"body", "cleanup", "execenv"} /\ step[t] = "redirect"
      /\ UNCHANGED <<jails, creating, cookie, owner>>
      /\ step[t] \notin Launching \cup {"ended"}
  BY DEF Redirect, At, machine, Launching
<1>2. CASE Fault /\ Exit(t, Aborted) /\ UNCHANGED proc
  BY <1>1, <1>2, EndsBadly DEF Fault, Aborted, Success
<1>3. CASE proc' = [proc EXCEPT ![t].out = t] /\ Goto(t, "isolate_path")
  <2>1. PICK p : p = [proc[t] EXCEPT !.out = t]
    OBVIOUS
  <2>2. AttrOK(p)
    BY <2>1, AttrsAt DEF AttrOK, Attributes
  <2>3. /\ p.out = t /\ p.uid = proc[t].uid /\ p.gid = proc[t].gid
        /\ p.core = proc[t].core /\ p.held = proc[t].held /\ p.jail = proc[t].jail
    BY <2>1, AttrsAt DEF AttrOK, Attributes
  <2>4. proc' = [proc EXCEPT ![t] = p]
    BY <1>3, <2>1
  <2>5. "isolate_path" \in Steps /\ GoOn(t, "isolate_path") /\ faults' = faults
    BY <1>3, AllSteps DEF Goto
  <2>6. Changes(t) /\ step'[t] = "isolate_path" /\ proc'[t] = p /\ owner'[t] = owner[t]
    BY <1>1, <2>2, <2>4, <2>5, Alters
  <2>7. Prepared(t)'
    <3>1. /\ "redirect" \notin AfterSignals \cup {"ended"}
          /\ "isolate_path" \notin AfterPath \cup AfterUser \cup AfterChdir \cup AfterSignals \cup AfterEnvironment
      BY DEF AfterPath, AfterChdir, AfterSignals, AfterEnvironment, AfterUser, Launching
    <3>2. PICK q : q = proc[t]
      OBVIOUS
    <3>3. /\ q.core.soft = 0 /\ q.held = {"INT", "ALRM", "THR"} /\ q.core.hard = CoreLimit
          /\ ~Drops(t) => owner[t] = Self.uid /\ q.uid = Self.uid /\ q.gid = Self.gid
      BY <1>1, <3>1, <3>2, AttrsAt DEF Prepared
    <3> QED
      BY <2>3, <2>6, <3>1, <3>2, <3>3, DefsStay DEF Prepared
  <2> QED
    BY <1>1, <2>3, <2>6, <2>7, Prepares
<1> QED
  BY <1>2, <1>3 DEF Redirect

(* Its working directory.                                                    *)
LEMMA Chdirs ==
  ASSUME IsoInv, UNCHANGED <<def, is_root>>, NEW t \in Cases, Chdir(t) PROVE IsoInv'
<1>1. /\ stage[t] \in {"body", "cleanup", "execenv"} /\ step[t] = "chdir"
      /\ UNCHANGED <<jails, creating, cookie, owner>>
      /\ step[t] \notin Launching \cup {"ended"}
  BY DEF Chdir, At, machine, Launching
<1>2. CASE Fault /\ Exit(t, exit_isolation_failure) /\ UNCHANGED proc
  BY <1>1, <1>2, EndsBadly DEF Fault, exit_isolation_failure, Success
<1>3. CASE proc' = [proc EXCEPT ![t].cwd = "work"] /\ Goto(t, "signals")
  <2>1. PICK p : p = [proc[t] EXCEPT !.cwd = "work"]
    OBVIOUS
  <2>2. AttrOK(p)
    BY <2>1, AttrsAt DEF AttrOK, Attributes
  <2>3. /\ p.cwd = "work" /\ p.out = proc[t].out /\ p.uid = proc[t].uid
        /\ p.gid = proc[t].gid /\ p.core = proc[t].core /\ p.held = proc[t].held
        /\ p.jail = proc[t].jail
    BY <2>1, AttrsAt DEF AttrOK, Attributes
  <2>4. proc' = [proc EXCEPT ![t] = p]
    BY <1>3, <2>1
  <2>5. "signals" \in Steps /\ GoOn(t, "signals") /\ faults' = faults
    BY <1>3, AllSteps DEF Goto
  <2>6. Changes(t) /\ step'[t] = "signals" /\ proc'[t] = p /\ owner'[t] = owner[t]
    BY <1>1, <2>2, <2>4, <2>5, Alters
  <2>7. Prepared(t)'
    <3>1. /\ {"chdir", "signals"} \cap (AfterSignals \cup AfterUser \cup AfterEnvironment \cup {"ended"}) = {}
          /\ {"chdir", "signals"} \subseteq AfterRedirect \cap AfterPath
      BY DEF AfterRedirect, AfterPath, AfterChdir, AfterSignals, AfterEnvironment, AfterUser, Launching
    <3>2. PICK q : q = proc[t]
      OBVIOUS
    <3>3. /\ q.core.soft = 0 /\ q.held = {"INT", "ALRM", "THR"} /\ q.core.hard = CoreLimit
          /\ ~Drops(t) => owner[t] = Self.uid /\ q.uid = Self.uid /\ q.gid = Self.gid
          /\ q.out = t /\ (Drops(t) => owner[t] = User.uid)
      BY <1>1, <3>1, <3>2, AttrsAt DEF Prepared
    <3> QED
      BY <2>3, <2>6, <3>1, <3>2, <3>3, DefsStay DEF Prepared
  <2> QED
    BY <1>1, <2>3, <2>6, <2>7, Prepares
<1> QED
  BY <1>2, <1>3 DEF Chdir

(* Ownership of its directories.                                             *)
LEMMA IsolatesPath ==
  ASSUME IsoInv, UNCHANGED <<def, is_root>>, NEW t \in Cases, IsolatePath(t) PROVE IsoInv'
<1>1. /\ stage[t] \in {"body", "cleanup", "execenv"} /\ step[t] = "isolate_path"
      /\ UNCHANGED <<jails, creating, cookie, proc>>
      /\ step[t] \notin Launching \cup {"ended"}
  BY DEF IsolatePath, At, machine, Launching
<1>2. CASE Fault /\ Exit(t, exit_isolation_failure) /\ UNCHANGED owner
  BY <1>1, <1>2, EndsBadly DEF Fault, exit_isolation_failure, Success
<1>3. CASE owner' = [owner EXCEPT ![t] = IF Drops(t) THEN User.uid ELSE @] /\ Goto(t, "chdir")
  <2>1. /\ owner' = [u \in Cases |-> owner'[u]] /\ \A u \in Cases : u # t => owner'[u] = owner[u]
        /\ owner'[t] = IF Drops(t) THEN User.uid ELSE owner[t]
    BY <1>3 DEF IsoInv, Shapes
  <2>2. step' \in [Cases -> Steps] /\ step'[t] = "chdir" /\ \A u \in Cases : u # t => step'[u] = step[u]
    BY <1>3, AllSteps DEF Goto, GoOn, IsoInv, Shapes
  <2>3. Changes(t)
    BY <1>1, <1>3, <2>1, <2>2 DEF Goto, GoOn, IsoInv, Shapes, Changes
  <2>4. Prepared(t)'
    BY <1>1, <2>1, <2>2, AttrsAt, DefsStay
       DEF Prepared, AfterRedirect, AfterPath, AfterChdir, AfterSignals, AfterEnvironment, AfterUser, Launching
  <2> QED
    BY <1>1, <2>2, <2>3, <2>4, Prepares
<1> QED
  BY <1>2, <1>3 DEF IsolatePath

(* Its core limit and its signals.                                           *)
LEMMA Resets ==
  ASSUME IsoInv, UNCHANGED <<def, is_root>>, NEW t \in Cases, ResetLimitsAndSignals(t) PROVE IsoInv'
<1>1. /\ stage[t] \in {"body", "cleanup", "execenv"} /\ step[t] = "signals"
      /\ UNCHANGED <<jails, creating, cookie, owner>>
      /\ step[t] \notin Launching \cup {"ended"}
  BY DEF ResetLimitsAndSignals, At, machine, Launching
<1>2. PICK refused \in {{"THR"}, {"THR", "ALRM"}} :
        /\ proc' = [proc EXCEPT ![t].core = unlimit_core_size(@), ![t].held = reset_all(@, refused)]
        /\ IF refused = {"THR"} THEN UNCHANGED faults ELSE Fault
  BY DEF ResetLimitsAndSignals
<1>3. PICK q : q = proc[t]
  OBVIOUS
<1>4. q.core.soft = 0 /\ q.held = {"INT", "ALRM", "THR"} /\ q.core.hard = CoreLimit /\ AttrOK(q)
  <2>1. "signals" \notin AfterSignals \cup {"ended"}
    BY DEF AfterSignals, AfterEnvironment, AfterUser, Launching
  <2> QED
    BY <1>1, <1>3, <2>1, AttrsAt DEF Prepared
<1>5. PICK core, held : core = unlimit_core_size(q.core) /\ held = reset_all(q.held, refused)
  OBVIOUS
<1>6. /\ DOMAIN core = {"soft", "hard"} /\ core = [f \in {"soft", "hard"} |-> core[f]]
      /\ core.soft = CoreLimit /\ core.hard = CoreLimit
  BY <1>4, <1>5 DEF unlimit_core_size, AttrOK
<1>7. held \subseteq refused
  BY <1>5 DEF reset_all, reset
<1>8. faults \in Nat /\ faults' \in {faults, faults + 1} /\ (held \subseteq {"THR"} \/ faults' > 0)
  BY <1>2, <1>7 DEF Fault, IsoInv, Shapes
<1>9. PICK p : p = [q EXCEPT !.core = core, !.held = held]
  OBVIOUS
<1>10. AttrOK(p)
  BY <1>4, <1>6, <1>9 DEF AttrOK, Attributes
<1>11. /\ p.out = q.out /\ p.uid = q.uid /\ p.gid = q.gid /\ p.cwd = q.cwd /\ p.core = core /\ p.held = held
       /\ p.jail = q.jail
  BY <1>4, <1>9 DEF AttrOK, Attributes
<1>12. proc' = [proc EXCEPT ![t] = p]
  BY <1>2, <1>3, <1>5, <1>9
<1>13. "environment" \in Steps /\ GoOn(t, "environment")
  BY AllSteps DEF ResetLimitsAndSignals
<1>14. Changes(t) /\ step'[t] = "environment" /\ proc'[t] = p /\ owner'[t] = owner[t]
  BY <1>1, <1>8, <1>10, <1>12, <1>13, Alters
<1>15. Prepared(t)'
  <2>1. /\ "environment" \notin AfterUser \cup AfterEnvironment /\ "environment" # "chdir back"
        /\ {"environment", "signals"} \subseteq AfterRedirect \cap AfterPath \cap AfterChdir
        /\ "environment" \in AfterSignals
    BY DEF AfterRedirect, AfterPath, AfterChdir, AfterSignals, AfterEnvironment, AfterUser, Launching
  <2>2. /\ q.out = t /\ (Drops(t) => owner[t] = User.uid) /\ q.cwd = "work"
        /\ ~Drops(t) => owner[t] = Self.uid /\ q.uid = Self.uid /\ q.gid = Self.gid
    BY <1>1, <1>3, <2>1, AttrsAt DEF Prepared
  <2> QED
    BY <1>6, <1>8, <1>11, <1>14, <2>1, <2>2, DefsStay DEF Prepared
<1> QED
  BY <1>1, <1>3, <1>11, <1>14, <1>15, Prepares

(* What is in the environment that a test program gets.                      *)
LEMMA Environment ==
  ASSUME NEW env PROVE LET new == prepare_environment(env)
                       IN DOMAIN new \cap Locale = {} /\ new["HOME"] = "work"
<1>1. PICK bare : bare = unsetenv(unsetenv(env, "LANG"), "LC_ALL")
  OBVIOUS
<1>2. DOMAIN bare \cap Locale = {}
  BY <1>1 DEF unsetenv, Locale
<1>3. PICK e1 : e1 = setenv(bare, "HOME", "work")
  OBVIOUS
<1>4. PICK e2 : e2 = setenv(e1, "TMPDIR", "work")
  OBVIOUS
<1>5. PICK e3 : e3 = setenv(e2, "TZ", "UTC")
  OBVIOUS
<1>6. DOMAIN e1 = DOMAIN bare \cup {"HOME"} /\ e1["HOME"] = "work"
  BY <1>3 DEF setenv
<1>7. DOMAIN e2 = DOMAIN e1 \cup {"TMPDIR"} /\ e2["HOME"] = "work"
  BY <1>4, <1>6 DEF setenv
<1>8. DOMAIN e3 = DOMAIN e2 \cup {"TZ"} /\ e3["HOME"] = "work"
  BY <1>5, <1>6, <1>7 DEF setenv
<1>9. DOMAIN e3 \cap Locale = {}
  BY <1>2, <1>6, <1>7, <1>8 DEF Locale
<1>10. e3 = prepare_environment(env)
  BY <1>1, <1>3, <1>4, <1>5 DEF prepare_environment
<1> QED
  BY <1>8, <1>9, <1>10

(* Its environment.                                                          *)
LEMMA PreparesEnvironment ==
  ASSUME IsoInv, UNCHANGED <<def, is_root>>, NEW t \in Cases, PrepareEnvironment(t) PROVE IsoInv'
<1>1. /\ stage[t] \in {"body", "cleanup", "execenv"} /\ step[t] = "environment"
      /\ UNCHANGED <<jails, creating, cookie, owner>>
      /\ step[t] \notin Launching \cup {"ended"}
  BY DEF PrepareEnvironment, At, machine, Launching
<1>2. CASE Fault /\ HookThrows(t) /\ UNCHANGED proc
  BY <1>1, <1>2, EndsBadly DEF Fault, HookThrows, Aborted, Success
<1>3. CASE proc' = [proc EXCEPT ![t].env = prepare_environment(@)] /\ Goto(t, "user")
  <2>1. PICK q : q = proc[t]
    OBVIOUS
  <2>2. PICK env : env = prepare_environment(q.env)
    OBVIOUS
  <2>3. DOMAIN env \cap Locale = {} /\ env["HOME"] = "work"
    BY <2>2, Environment
  <2>4. PICK p : p = [q EXCEPT !.env = env]
    OBVIOUS
  <2>5. AttrOK(p)
    BY <2>1, <2>4, AttrsAt DEF AttrOK, Attributes
  <2>6. /\ p.out = q.out /\ p.uid = q.uid /\ p.gid = q.gid /\ p.cwd = q.cwd
        /\ p.core = q.core /\ p.held = q.held /\ p.env = env /\ p.jail = q.jail
    BY <2>1, <2>4, AttrsAt DEF AttrOK, Attributes
  <2>7. proc' = [proc EXCEPT ![t] = p]
    BY <1>3, <2>1, <2>2, <2>4
  <2>8. "user" \in Steps /\ GoOn(t, "user") /\ faults' = faults
    BY <1>3, AllSteps DEF Goto
  <2>9. Changes(t) /\ step'[t] = "user" /\ proc'[t] = p /\ owner'[t] = owner[t]
    BY <1>1, <2>5, <2>7, <2>8, Alters
  <2>10. Prepared(t)'
    <3>1. /\ "user" \notin AfterUser /\ "user" # "chdir back" /\ "environment" # "chdir back"
          /\ {"environment", "user"} \subseteq AfterRedirect \cap AfterPath \cap AfterChdir \cap AfterSignals
      BY DEF AfterRedirect, AfterPath, AfterChdir, AfterSignals, AfterEnvironment, AfterUser, Launching
    <3>2. /\ q.out = t /\ (Drops(t) => owner[t] = User.uid) /\ q.cwd = "work"
          /\ ~Drops(t) => owner[t] = Self.uid /\ q.uid = Self.uid /\ q.gid = Self.gid
          /\ q.core.hard = CoreLimit /\ q.core.soft = CoreLimit
          /\ q.held \subseteq {"THR"} \/ faults > 0
      BY <1>1, <2>1, <3>1, AttrsAt DEF Prepared
    <3> QED
      BY <2>3, <2>6, <2>8, <2>9, <3>1, <3>2, DefsStay DEF Prepared
  <2> QED
    BY <1>1, <2>1, <2>6, <2>9, <2>10, Prepares
<1> QED
  BY <1>2, <1>3 DEF PrepareEnvironment

(* Its user.                                                                 *)
LEMMA SwitchesUser ==
  ASSUME IsoInv, UNCHANGED <<def, is_root>>, NEW t \in Cases, SwitchUser(t) PROVE IsoInv'
<1>1. /\ stage[t] \in {"body", "cleanup", "execenv"} /\ step[t] = "user"
      /\ UNCHANGED <<jails, creating, cookie, owner>>
      /\ step[t] \notin Launching \cup {"ended"}
  BY DEF SwitchUser, At, machine, Launching
<1>2. CASE Fault /\ Exit(t, exit_isolation_failure) /\ UNCHANGED proc
  BY <1>1, <1>2, EndsBadly DEF Fault, exit_isolation_failure, Success
<1>3. ASSUME NEW p, AttrOK(p), proc' = [proc EXCEPT ![t] = p], Goto(t, "hook"),
             Drops(t) => p.uid = User.uid /\ p.gid = User.gid,
             ~Drops(t) => p.uid = proc[t].uid /\ p.gid = proc[t].gid,
             p.out = proc[t].out, p.cwd = proc[t].cwd, p.core = proc[t].core,
             p.held = proc[t].held, p.env = proc[t].env, p.jail = proc[t].jail
      PROVE  IsoInv'
  <2>1. "hook" \in Steps /\ GoOn(t, "hook") /\ faults' = faults
    BY <1>3, AllSteps DEF Goto
  <2>2. Changes(t) /\ step'[t] = "hook" /\ proc'[t] = p /\ owner'[t] = owner[t]
    BY <1>1, <1>3, <2>1, Alters
  <2>3. Prepared(t)'
    <3>1. /\ "hook" # "chdir back" /\ "user" # "chdir back"
          /\ {"hook", "user"} \subseteq AfterRedirect \cap AfterPath \cap AfterChdir \cap AfterSignals \cap AfterEnvironment
      BY DEF AfterRedirect, AfterPath, AfterChdir, AfterSignals, AfterEnvironment, AfterUser, Launching
    <3>2. PICK q : q = proc[t]
      OBVIOUS
    <3>3. /\ q.out = t /\ (Drops(t) => owner[t] = User.uid) /\ q.cwd = "work"
          /\ ~Drops(t) => owner[t] = Self.uid /\ q.uid = Self.uid /\ q.gid = Self.gid
          /\ q.core.hard = CoreLimit /\ q.core.soft = CoreLimit
          /\ q.held \subseteq {"THR"} \/ faults > 0
          /\ DOMAIN q.env \cap Locale = {} /\ q.env["HOME"] = "work"
      BY <1>1, <3>1, <3>2, AttrsAt DEF Prepared
    <3> QED
      BY <1>3, <2>1, <2>2, <3>1, <3>2, <3>3, DefsStay DEF Prepared
  <2> QED
    BY <1>1, <1>3, <2>2, <2>3, Prepares
<1>4. CASE ~Drops(t) /\ Goto(t, "hook") /\ UNCHANGED proc
  <2>1. proc' = [proc EXCEPT ![t] = proc[t]]
    BY <1>4 DEF IsoInv, Shapes
  <2> QED
    BY <1>3, <1>4, <2>1, AttrsAt
<1>5. ASSUME NEW groups, Drops(t), Goto(t, "hook"),
             proc' = [proc EXCEPT ![t].gid = User.gid, ![t].uid = User.uid, ![t].groups = groups]
      PROVE  IsoInv'
  <2>1. PICK q : q = proc[t]
    OBVIOUS
  <2>2. PICK p : p = [q EXCEPT !.gid = User.gid, !.uid = User.uid, !.groups = groups]
    OBVIOUS
  <2>3. AttrOK(p)
    BY <2>1, <2>2, AttrsAt DEF AttrOK, Attributes
  <2>4. /\ p.out = q.out /\ p.uid = User.uid /\ p.gid = User.gid /\ p.cwd = q.cwd
        /\ p.core = q.core /\ p.held = q.held /\ p.env = q.env /\ p.jail = q.jail
    BY <2>1, <2>2, AttrsAt DEF AttrOK, Attributes
  <2>5. proc' = [proc EXCEPT ![t] = p]
    BY <1>5, <2>1, <2>2
  <2> QED
    BY <1>3, <1>5, <2>1, <2>3, <2>4, <2>5
<1>6. CASE Drops(t) /\ Goto(t, "hook")
           /\ proc' = [proc EXCEPT ![t].gid = User.gid, ![t].uid = User.uid,
                                   ![t].groups = IF User.gid # proc[t].gid THEN {User.gid} ELSE @]
  BY <1>5, <1>6
<1> QED
  BY <1>2, <1>4, <1>6 DEF SwitchUser

-----------------------------------------------------------------------------
(* From the hook to the program. *)

LEMMA FaultsGrow == \A f \in Nat : \A g \in {f, f + 1} : f > 0 => g > 0
OBVIOUS

(* A child stays as it was prepared.                                         *)
LEMMA StaysPrepared ==
  ASSUME IsoInv, UNCHANGED <<def, is_root>>, NEW t \in Cases,
         step[t] \in AfterUser, step'[t] \in AfterUser, owner'[t] = owner[t],
         proc'[t].uid = proc[t].uid, proc'[t].gid = proc[t].gid, proc'[t].out = proc[t].out,
         proc'[t].core = proc[t].core, proc'[t].held = proc[t].held, proc'[t].env = proc[t].env,
         step'[t] # "chdir back" =>
           proc'[t].cwd = "work" \/ (step[t] # "chdir back" /\ proc'[t].cwd = proc[t].cwd),
         faults' \in {faults, faults + 1}
  PROVE  Prepared(t)'
<1>1. AfterUser \subseteq AfterRedirect \cap AfterPath \cap AfterChdir \cap AfterSignals \cap AfterEnvironment
  BY DEF AfterRedirect, AfterPath, AfterChdir, AfterSignals, AfterEnvironment
<1>2. faults > 0 => faults' > 0
  BY FaultsGrow DEF IsoInv, Shapes
<1>3. PICK q, q2, o, o2 : q = proc[t] /\ q2 = proc'[t] /\ o = owner[t] /\ o2 = owner'[t]
  OBVIOUS
<1>4. /\ q.out = t /\ (Drops(t) => o = User.uid /\ q.uid = User.uid /\ q.gid = User.gid)
      /\ step[t] # "chdir back" => q.cwd = "work"
      /\ ~Drops(t) => o = Self.uid /\ q.uid = Self.uid /\ q.gid = Self.gid
      /\ q.core.hard = CoreLimit /\ q.core.soft = CoreLimit
      /\ q.held \subseteq {"THR"} \/ faults > 0
      /\ DOMAIN q.env \cap Locale = {} /\ q.env["HOME"] = "work"
  BY <1>1, <1>3, AttrsAt DEF Prepared
<1> QED
  BY <1>1, <1>2, <1>3, <1>4, DefsStay DEF Prepared

(* A child that ends, well or not, with no change but a cookie.              *)
LEMMA Ends ==
  ASSUME IsoInv, UNCHANGED <<def, is_root, jails, creating, proc, owner>>, NEW t \in Cases,
         stage[t] \in {"body", "cleanup"}, step[t] # "ended", NEW how, Exit(t, how),
         \A u \in Cases : u # t => (u \in cookie' <=> u \in cookie), t \in cookie' => def[t].unmet,
         faults' \in {faults, faults + 1},
         /\ t \notin creating \/ stage[t] = "cleanup" \/ how # Success
         /\ \/ ~def[t].unmet \/ def[t].fake \/ faults' > 0
            \/ how = exit_skipped /\ t \in cookie'
  PROVE  IsoInv'
<1>1. /\ ended'[t] = how /\ step'[t] = "ended" /\ stage' = stage /\ good_tests' = good_tests
      /\ \A u \in Cases : u # t => ended'[u] = ended[u] /\ step'[u] = step[u]
      /\ step' \in [Cases -> Steps] /\ ended' = [u \in Cases |-> ended'[u]]
  BY DEF IsoInv, Shapes, Exit, Steps
<1>2. faults \in Nat /\ faults' \in Nat /\ (faults > 0 => faults' > 0)
  BY DEF IsoInv, Shapes
<1>3. Shapes'
  BY <1>1, <1>2, DefsStay DEF IsoInv, Shapes
<1>4. \A u \in Cases : u # t => Same(u)
  BY <1>1 DEF Same
<1>5. "ended" \notin AfterRedirect \cup AfterPath \cup AfterChdir \cup AfterSignals
                       \cup AfterEnvironment \cup AfterUser \cup Launching
  BY DEF AfterRedirect, AfterPath, AfterChdir, AfterSignals, AfterEnvironment, AfterUser, Launching
<1>6. Prepared(t)'
  <2>1. Prepared(t) /\ proc'[t] = proc[t] /\ owner'[t] = owner[t] /\ (Drops(t)' <=> Drops(t))
    BY AttrsAt, DefsStay
  <2>2. /\ step'[t] = "ended"
        /\ step'[t] \notin AfterRedirect \cup AfterPath \cup AfterChdir \cup AfterSignals
                           \cup AfterEnvironment \cup AfterUser
    BY <1>1, <1>5
  <2>3. PICK q, q2, o, o2 : q = proc[t] /\ q2 = proc'[t] /\ o = owner[t] /\ o2 = owner'[t]
    OBVIOUS
  <2>4. /\ q2 = q /\ o2 = o /\ q.core.hard = CoreLimit
        /\ ~Drops(t) => o = Self.uid /\ q.uid = Self.uid /\ q.gid = Self.gid
    BY <2>1, <2>3 DEF Prepared
  <2>5. Self' = Self
    BY DefsStay
  <2> QED
    BY <2>1, <2>2, <2>3, <2>4, <2>5 DEF Prepared
<1>7. Allowed(t)'
  BY <1>1, <1>2, <1>5, AttrsAt, DefsStay DEF Allowed, Skipped
<1>8. Inside(t)'
  BY <1>1 DEF Inside
<1>9. Accountable(t)'
  <2>1. Owns(t)' <=> Owns(t)
    BY DEF Owns
  <2> QED
    BY <1>1, <2>1, AttrsAt, DefsStay DEF Accountable, At
<1> QED
  BY <1>2, <1>3, <1>4, <1>6, <1>7, <1>8, <1>9, OneStep DEF Fine

(* A child on its way to the program, in the jail or on the host.            *)
LEMMA Launches ==
  ASSUME IsoInv, UNCHANGED <<def, is_root, jails, cookie, owner, faults>>,
         NEW t \in Cases, NEW s \in Launching, Goto(t, s), step[t] \in AfterUser,
         NEW p, AttrOK(p), proc' = [proc EXCEPT ![t] = p],
         p.uid = proc[t].uid, p.gid = proc[t].gid, p.out = proc[t].out,
         p.core = proc[t].core, p.held = proc[t].held, p.env = proc[t].env,
         s # "chdir back" => p.cwd = "work" \/ (step[t] # "chdir back" /\ p.cwd = proc[t].cwd),
         stage[t] \in {"body", "cleanup"}, ~def[t].fake, stage[t] = "body" => ~def[t].unmet,
         UsesExecenv(t) /\ s \in {"chdir back", "exec", "running"} =>
           p.jail = make_name(t) /\ make_name(t) \in DOMAIN jails,
         s \in {"create", "creating"} => stage[t] = "body" /\ UsesExecenv(t),
         \/ creating' = creating /\ (t \in creating => stage[t] = "cleanup" \/ s = "creating")
         \/ creating' = creating \cup {t} /\ s = "creating"
  PROVE  IsoInv'
<1>1. s \in Steps /\ s \in AfterUser
  BY AllSteps DEF AfterUser
<1>2. GoOn(t, s) /\ faults' \in {faults, faults + 1}
  BY DEF Goto
<1>3. Changes(t) /\ proc'[t] = p /\ step'[t] = s /\ owner'[t] = owner[t]
  BY <1>1, <1>2, Alters
<1>4. Prepared(t)'
  BY <1>1, <1>2, <1>3, StaysPrepared
<1>5. stage' = stage /\ ended' = ended /\ good_tests' = good_tests /\ (Owns(t)' <=> Owns(t))
  BY <1>3 DEF Changes, Owns
<1>6. s # "ended"
  BY DEF Launching
<1>7. Allowed(t)'
  BY <1>3, <1>5, <1>6, AttrsAt DEF Allowed
<1>8. Inside(t)'
  BY <1>3, DefsStay DEF Inside
<1>9. Accountable(t)'
  <2>1. t \in creating' => t \in creating \/ s = "creating"
    OBVIOUS
  <2>2. s = "creating" => UsesExecenv(t) /\ ~def[t].unmet /\ stage[t] # "new" /\ At(t, "creating")'
    BY <1>3, <1>5 DEF At
  <2>3. t \in creating' => At(t, "creating")' \/ (stage[t] # "body" /\ t \notin good_tests)
    <3>1. CASE s = "creating"
      BY <2>2, <3>1
    <3>2. CASE s # "creating"
      <4>1. t \in creating' => t \in creating /\ stage[t] = "cleanup" /\ step[t] # "ended"
        BY <2>1, <3>2 DEF AfterUser, Launching
      <4>2. t \in creating' /\ At(t, "creating") => t \notin good_tests
        BY <4>1, AttrsAt DEF Accountable, At
      <4> QED
        BY <4>1, <4>2, AttrsAt DEF Accountable
    <3> QED
      BY <3>1, <3>2
  <2>4. t \in creating' \/ Owns(t)' => UsesExecenv(t) /\ ~def[t].unmet /\ stage[t] # "new"
    BY <1>5, <2>1, <2>2, AttrsAt DEF Accountable
  <2> QED
    BY <1>3, <1>5, <1>6, <2>3, <2>4, AttrsAt, DefsStay DEF Accountable
<1>10. creating' \subseteq Cases /\ \A u \in Cases : u # t => (u \in creating' <=> u \in creating)
  BY DEF IsoInv, Shapes
<1> QED
  BY <1>3, <1>4, <1>7, <1>8, <1>9, <1>10, Advances DEF Fine

LEMMA LaunchesAsIs ==
  ASSUME IsoInv, UNCHANGED <<def, is_root, jails, cookie, owner, proc>>,
         NEW t \in Cases, NEW s \in Launching \ {"chdir back"}, Goto(t, s),
         step[t] \in AfterUser \ {"chdir back"},
         stage[t] \in {"body", "cleanup"}, ~def[t].fake, stage[t] = "body" => ~def[t].unmet,
         UsesExecenv(t) /\ s \in {"exec", "running"} => step[t] \in {"exec", "running"},
         s \in {"create", "creating"} => stage[t] = "body" /\ UsesExecenv(t),
         \/ creating' = creating /\ (t \in creating => stage[t] = "cleanup" \/ s = "creating")
         \/ creating' = creating \cup {t} /\ s = "creating"
  PROVE  IsoInv'
<1>1. proc' = [proc EXCEPT ![t] = proc[t]]
  BY DEF IsoInv, Shapes
<1>2. UNCHANGED faults
  BY DEF Goto
<1>3. UsesExecenv(t) /\ s \in {"chdir back", "exec", "running"} =>
        proc[t].jail = make_name(t) /\ make_name(t) \in DOMAIN jails
  BY AttrsAt DEF Inside
<1>4. AttrOK(proc[t])
  BY AttrsAt
<1>5. PICK p : p = proc[t]
  OBVIOUS
<1>6. proc' = [proc EXCEPT ![t] = p] /\ AttrOK(p)
  BY <1>1, <1>4, <1>5
<1> QED
  BY <1>2, <1>3, <1>5, <1>6, Launches

(* The hook of the body.                                                     *)
LEMMA RunsTestProgram ==
  ASSUME IsoInv, UNCHANGED <<def, is_root>>, NEW t \in Cases, RunTestProgram(t) PROVE IsoInv'
<1>1. /\ stage[t] = "body" /\ step[t] = "hook" /\ UNCHANGED <<jails, creating, proc, owner>>
      /\ step[t] # "ended"
  BY DEF RunTestProgram, At, machine
<1>2. t \notin creating /\ (t \in cookie => def[t].unmet)
  BY <1>1, AttrsAt DEF Accountable, At
<1>3. CASE def[t].fake
  <2>1. Exit(t, Success) /\ UNCHANGED <<cookie, faults>>
    BY <1>3 DEF RunTestProgram
  <2> QED
    BY <1>1, <1>2, <1>3, <2>1, Ends
<1>4. CASE ~def[t].fake /\ def[t].unmet
  <2>1. \/ cookie' = cookie \cup {t} /\ Exit(t, exit_skipped) /\ UNCHANGED faults
        \/ Fault /\ HookThrows(t) /\ UNCHANGED cookie
    BY <1>4 DEF RunTestProgram
  <2>2. CASE cookie' = cookie \cup {t} /\ Exit(t, exit_skipped) /\ UNCHANGED faults
    BY <1>1, <1>2, <1>4, <2>2, Ends
  <2>3. CASE Fault /\ HookThrows(t) /\ UNCHANGED cookie
    BY <1>1, <2>3, EndsBadly DEF Fault, HookThrows, Aborted, Success
  <2> QED
    BY <2>1, <2>2, <2>3
<1>5. CASE ~def[t].fake /\ ~def[t].unmet
  <2>1. PICK s : s = exec_test(t)
    OBVIOUS
  <2>2. Goto(t, s) /\ UNCHANGED cookie
    BY <1>5, <2>1 DEF RunTestProgram
  <2>3. /\ s \in Launching \ {"chdir back"} /\ (UsesExecenv(t) => s = "create")
        /\ s \in {"create", "exec"} /\ (s = "create" => UsesExecenv(t))
        /\ step[t] \in AfterUser \ {"chdir back"}
    BY <1>1, <2>1 DEF exec_test, Launching, AfterUser
  <2> QED
    BY <1>1, <1>2, <1>5, <2>2, <2>3, LaunchesAsIs
<1> QED
  BY <1>3, <1>4, <1>5

(* The hook of the cleanup routine.                                          *)
LEMMA RunsTestCleanup ==
  ASSUME IsoInv, UNCHANGED <<def, is_root>>, NEW t \in Cases, RunTestCleanup(t) PROVE IsoInv'
<1>1. /\ stage[t] = "cleanup" /\ step[t] = "hook"
      /\ UNCHANGED <<jails, creating, proc, owner, cookie>> /\ Goto(t, exec_cleanup(t))
  BY DEF RunTestCleanup, At, machine
<1>2. ~def[t].fake
  BY <1>1, AttrsAt, IsolationAssumption DEF Allowed, IsoInv, Shapes
<1>3. PICK s : s = exec_cleanup(t)
  OBVIOUS
<1>4. /\ s \in Launching \ {"chdir back"} /\ (UsesExecenv(t) => s = "attach")
      /\ s \in {"attach", "exec"} /\ step[t] \in AfterUser \ {"chdir back"}
  BY <1>1, <1>3 DEF exec_cleanup, UsesExecenv, Launching, AfterUser
<1> QED
  BY <1>1, <1>2, <1>3, <1>4, LaunchesAsIs

(* What is known of a child that is past its hook.                           *)
LEMMA Launched ==
  ASSUME IsoInv, NEW t \in Cases, step[t] \in Launching
  PROVE  /\ step[t] \in AfterUser /\ step[t] # "ended"
         /\ stage[t] \in {"body", "cleanup"} /\ ~def[t].fake /\ (stage[t] = "body" => ~def[t].unmet)
         /\ t \in creating => step[t] = "creating" \/ stage[t] = "cleanup"
<1>1. step[t] \in AfterUser /\ step[t] # "ended"
  BY DEF AfterUser, Launching
<1>2. stage[t] \in {"body", "cleanup"} /\ ~def[t].fake /\ (stage[t] = "body" => ~def[t].unmet)
  BY AttrsAt DEF Allowed
<1>3. t \in creating => step[t] = "creating" \/ stage[t] = "cleanup"
  BY <1>1, <1>2, AttrsAt DEF Accountable, At
<1> QED
  BY <1>1, <1>2, <1>3

(* "jail -c" starts.                                                         *)
LEMMA CreatesJail ==
  ASSUME IsoInv, UNCHANGED <<def, is_root>>, NEW t \in Cases, CreateJail(t) PROVE IsoInv'
<1>1. /\ step[t] = "create" /\ creating' = creating \cup {t} /\ Goto(t, "creating")
      /\ UNCHANGED <<proc, owner, cookie, jails>>
  BY DEF CreateJail, At
<1>2. step[t] \in Launching \ {"chdir back"} /\ "creating" \in Launching \ {"chdir back"}
  BY <1>1 DEF Launching
<1>3. stage[t] = "body" /\ UsesExecenv(t)
  BY <1>1, AttrsAt DEF Accountable
<1> QED
  BY <1>1, <1>2, <1>3, Launched, LaunchesAsIs

(* The program starts.                                                       *)
LEMMA Execs ==
  ASSUME IsoInv, UNCHANGED <<def, is_root>>, NEW t \in Cases, Exec(t) PROVE IsoInv'
<1>1. /\ step[t] = "exec" /\ UNCHANGED <<proc, owner, cookie, jails, creating>>
  BY DEF Exec, At, machine
<1>2. step[t] \in Launching \ {"chdir back"} /\ "running" \in Launching \ {"chdir back"}
  BY <1>1 DEF Launching
<1>3. CASE Goto(t, "running")
  BY <1>1, <1>2, <1>3, Launched, LaunchesAsIs
<1>4. CASE Fault /\ Exit(t, Aborted)
  BY <1>1, <1>2, <1>4, Launched, EndsBadly DEF Fault, Aborted, Success
<1> QED
  BY <1>3, <1>4 DEF Exec

(* It ends.                                                                  *)
LEMMA ProgramIsOver ==
  ASSUME IsoInv, UNCHANGED <<def, is_root>>, NEW t \in Cases, ProgramEnds(t) PROVE IsoInv'
<1>1. step[t] = "running" /\ UNCHANGED <<proc, owner, cookie, jails, creating, faults>>
  BY DEF ProgramEnds, At, machine
<1>2. PICK how : Exit(t, how)
  BY DEF ProgramEnds
<1>3. step[t] \in Launching
  BY <1>1 DEF Launching
<1>4. t \in cookie' => def[t].unmet
  BY <1>1, AttrsAt DEF Accountable
<1>5. ~def[t].unmet \/ faults' > 0
  BY <1>1, <1>3, Launched, AttrsAt DEF Allowed
<1> QED
  BY <1>1, <1>2, <1>3, <1>4, <1>5, Launched, Ends

(* It is killed at its deadline.                                             *)
LEMMA IsTimedOut ==
  ASSUME IsoInv, UNCHANGED <<def, is_root>>, NEW t \in Cases, TimesOut(t) PROVE IsoInv'
BY EndsBadly DEF TimesOut, Fault, machine, Killed, Success

-----------------------------------------------------------------------------
(* Jails. *)

LEMMA Singletons == ASSUME NEW S, NEW x \in S PROVE <<x>> \in Seq(S)
OBVIOUS

(* The end of a name, with a prefix.                                         *)
LEMMA CutNames ==
  ASSUME NEW S, NEW pre \in S, NEW name \in Seq(S), NEW other \in S, NEW drop, NEW limit \in Nat
  PROVE  LET plain == [i \in DOMAIN name |-> IF name[i] \in drop THEN other ELSE name[i]]
         IN <<pre>> \o SubSeq(plain, IF Len(plain) > limit THEN Len(plain) - limit + 1 ELSE 1, Len(plain)) # <<>>
<1>1. PICK plain : plain = [i \in DOMAIN name |-> IF name[i] \in drop THEN other ELSE name[i]]
  OBVIOUS
<1>2. PICK n \in Nat : n = Len(name) /\ DOMAIN name = 1..n /\ \A i \in 1..n : name[i] \in S
  OBVIOUS
<1>3. DOMAIN plain = 1..n /\ (\A i \in 1..n : plain[i] \in S) /\ plain \in [1..n -> S]
  BY <1>1, <1>2
<1>4. plain \in Seq(S) /\ Len(plain) = n
  BY <1>3
<1>5. PICK m \in Nat : m = (IF n > limit THEN n - limit + 1 ELSE 1) /\ m >= 1
  <2>1. CASE n > limit
    <3>1. n - limit + 1 \in Nat /\ n - limit + 1 >= 1
      BY <2>1
    <3> QED
      BY <2>1, <3>1
  <2>2. CASE ~(n > limit)
    BY <2>2
  <2> QED
    BY <2>1, <2>2
<1>6. \A i \in m..n : plain[i] \in S
  BY <1>3, <1>5
<1>7. SubSeq(plain, m, n) \in Seq(S)
  BY <1>6, SubSeqProperties
<1>8. <<pre>> \in Seq(S) /\ <<pre>> # <<>>
  OBVIOUS
<1>9. <<pre>> \o SubSeq(plain, m, n) # <<>>
  BY <1>7, <1>8, ConcatEqualIffEmpty
<1> QED
  BY <1>1, <1>4, <1>5, <1>9

(* A jail has a name.                                                        *)
LEMMA NamesAreNotEmpty ==
  ASSUME def \in Defs, NEW t \in Cases PROVE make_name(t) # <<>>
<1>1. PICK S : S = STRING \cup {"kyua", "_"}
  OBVIOUS
<1>2. STRING \subseteq S /\ "kyua" \in S /\ "_" \in S /\ <<"_">> \in Seq(S)
  <2>1. STRING \subseteq S
    BY <1>1, Zenon
  <2>2. "kyua" \in S /\ "_" \in S
    BY <1>1, Zenon
  <2>3. <<"_">> \in Seq(S)
    BY <2>2, Singletons, Zenon
  <2> QED
    BY <2>1, <2>2, <2>3
<1>3. def[t].path \in Seq(STRING) /\ def[t].case \in Seq(STRING)
  BY IsolationAssumption, Zenon
<1>4. PICK path \in Seq(S), case \in Seq(S) : path = def[t].path /\ case = def[t].case
  BY <1>2, <1>3, SeqMonotonic
<1>5. PICK name : name = path \o <<"_">> \o case
  OBVIOUS
<1>6. name \in Seq(S)
  <2>1. path \o <<"_">> \in Seq(S)
    BY <1>2, ConcatProperties
  <2> QED
    BY <1>5, <2>1, ConcatProperties
<1>7. Limit \in Nat
  BY IsolationAssumption
<1>8. LET plain == [i \in DOMAIN name |-> IF name[i] \in Special THEN "_" ELSE name[i]]
      IN <<"kyua">> \o SubSeq(plain, IF Len(plain) > Limit THEN Len(plain) - Limit + 1 ELSE 1, Len(plain)) # <<>>
  <2>1. PICK limit \in Nat : limit = Limit
    BY <1>7
  <2>2. PICK pre \in S, other \in S : pre = "kyua" /\ other = "_"
    BY <1>2
  <2>3. LET plain == [i \in DOMAIN name |-> IF name[i] \in Special THEN other ELSE name[i]]
        IN <<pre>> \o SubSeq(plain, IF Len(plain) > limit THEN Len(plain) - limit + 1 ELSE 1, Len(plain)) # <<>>
    BY <1>6, CutNames
  <2> QED
    BY <2>1, <2>2, <2>3, Zenon
<1> QED
  BY <1>4, <1>5, <1>8, Zenon DEF make_name

(* A child enters its jail, ...                                              *)
LEMMA AttachesToJail ==
  ASSUME IsoInv, UNCHANGED <<def, is_root>>, NEW t \in Cases, AttachToJail(t) PROVE IsoInv'
<1>1. step[t] = "attach" /\ UNCHANGED <<owner, cookie, jails, creating>>
  BY DEF AttachToJail, At, machine
<1>2. step[t] \in Launching /\ "chdir back" \in Launching
  BY <1>1 DEF Launching
<1>3. CASE make_name(t) \notin DOMAIN jails
  <2>1. Exit(t, Failure) /\ UNCHANGED <<proc, faults>>
    BY <1>3 DEF AttachToJail
  <2> QED
    BY <1>1, <1>2, <2>1, Launched, EndsBadly DEF Failure, Success
<1>4. CASE make_name(t) \in DOMAIN jails
  <2>1. /\ proc' = [proc EXCEPT ![t].jail = make_name(t), ![t].cwd = "root of the jail"]
        /\ Goto(t, "chdir back")
    BY <1>4 DEF AttachToJail
  <2>2. PICK q : q = proc[t]
    OBVIOUS
  <2>3. PICK p : p = [q EXCEPT !.jail = make_name(t), !.cwd = "root of the jail"]
    OBVIOUS
  <2>4. AttrOK(p)
    BY <2>2, <2>3, AttrsAt DEF AttrOK, Attributes
  <2>5. /\ p.out = q.out /\ p.uid = q.uid /\ p.gid = q.gid /\ p.jail = make_name(t)
        /\ p.core = q.core /\ p.held = q.held /\ p.env = q.env
    BY <2>2, <2>3, AttrsAt DEF AttrOK, Attributes
  <2>6. proc' = [proc EXCEPT ![t] = p] /\ UNCHANGED faults
    BY <2>1, <2>2, <2>3 DEF Goto
  <2> QED
    BY <1>1, <1>2, <1>4, <2>1, <2>2, <2>4, <2>5, <2>6, Launched, Launches
<1> QED
  BY <1>3, <1>4

(* ... and goes back to its directory.                                       *)
LEMMA ChdirsBack ==
  ASSUME IsoInv, UNCHANGED <<def, is_root>>, NEW t \in Cases, ChdirBack(t) PROVE IsoInv'
<1>1. step[t] = "chdir back" /\ UNCHANGED <<owner, cookie, jails, creating>>
  BY DEF ChdirBack, At, machine
<1>2. step[t] \in Launching /\ "exec" \in Launching
  BY <1>1 DEF Launching
<1>3. CASE Fault /\ Exit(t, Failure) /\ UNCHANGED proc
  BY <1>1, <1>2, <1>3, Launched, EndsBadly DEF Fault, Failure, Success
<1>4. CASE proc' = [proc EXCEPT ![t].cwd = "work"] /\ Goto(t, "exec")
  <2>1. PICK q : q = proc[t]
    OBVIOUS
  <2>2. PICK p : p = [q EXCEPT !.cwd = "work"]
    OBVIOUS
  <2>3. AttrOK(p)
    BY <2>1, <2>2, AttrsAt DEF AttrOK, Attributes
  <2>4. /\ p.out = q.out /\ p.uid = q.uid /\ p.gid = q.gid /\ p.jail = q.jail
        /\ p.core = q.core /\ p.held = q.held /\ p.env = q.env /\ p.cwd = "work"
    BY <2>1, <2>2, AttrsAt DEF AttrOK, Attributes
  <2>5. proc' = [proc EXCEPT ![t] = p] /\ UNCHANGED faults
    BY <1>4, <2>1, <2>2 DEF Goto
  <2>6. UsesExecenv(t) => p.jail = make_name(t) /\ make_name(t) \in DOMAIN jails
    BY <1>1, <2>1, <2>4, AttrsAt DEF Inside
  <2> QED
    BY <1>1, <1>2, <1>4, <2>1, <2>3, <2>4, <2>5, <2>6, Launched, Launches
<1> QED
  BY <1>3, <1>4 DEF ChdirBack

(* "jail -c" ends: with the jail, which its test has to answer for, ...      *)
LEMMA JailAppears ==
  ASSUME IsoInv, UNCHANGED <<def, is_root, proc, owner, cookie, faults>>, NEW t \in Cases,
         t \in creating, creating' = creating \ {t},
         make_name(t) \notin DOMAIN jails,
         jails' = [n \in DOMAIN jails \cup {make_name(t)} |-> IF n = make_name(t) THEN t ELSE jails[n]],
         \/ At(t, "creating") /\ Goto(t, "attach")
         \/ ~At(t, "creating") /\ UNCHANGED <<stage, step, ended, good_tests>>
  PROVE  IsoInv'
<1>1. PICK name : name = make_name(t)
  OBVIOUS
<1>2. /\ DOMAIN jails' = DOMAIN jails \cup {name} /\ jails'[name] = t
      /\ \A n \in DOMAIN jails : n # name /\ jails'[n] = jails[n]
  BY <1>1
<1>3. /\ stage' = stage /\ ended' = ended /\ good_tests' = good_tests /\ step' \in [Cases -> Steps]
      /\ \A u \in Cases : u # t => step'[u] = step[u]
      /\ IF At(t, "creating") THEN step'[t] = "attach" ELSE step'[t] = step[t]
  BY AllSteps DEF Goto, GoOn, IsoInv, Shapes, Launching
<1>4. Shapes'
  <2>1. (\A n \in DOMAIN jails : jails[n] \in Cases /\ make_name(jails[n]) = n)'
    BY <1>1, <1>2, DefsStay DEF IsoInv, Shapes
  <2>2. creating' \subseteq Cases
    BY DEF IsoInv, Shapes
  <2> QED
    BY <1>3, <2>1, <2>2 DEF IsoInv, Shapes
<1>5. ASSUME NEW u \in Cases, u # t PROVE Fine(u)'
  <2>1. Same(u)
    BY <1>3, <1>5 DEF Same
  <2>2. Owns(u)' => Owns(u)
    BY <1>2, <1>5 DEF Owns
  <2>3. Inside(u)'
    BY <1>2, <2>1, DefsStay, AttrsAt DEF Inside, Same
  <2>4. Fine(u) /\ faults \in Nat /\ faults' \in Nat /\ (faults > 0 => faults' > 0)
    BY DEF IsoInv, Shapes
  <2> QED
    BY <2>1, <2>2, <2>3, <2>4, SameFine
<1>6. UsesExecenv(t) /\ ~def[t].unmet /\ stage[t] # "new"
  BY AttrsAt DEF Accountable
<1>7. CASE At(t, "creating")
  <2>1. step[t] = "creating" /\ step'[t] = "attach"
    BY <1>3, <1>7 DEF At
  <2>2. step[t] \in Launching /\ {"creating", "attach"} \subseteq AfterUser /\ "attach" \in Launching
    BY <2>1 DEF Launching, AfterUser
  <2>3. Prepared(t)'
    BY <2>1, <2>2, StaysPrepared
  <2>4. Allowed(t)'
    BY <1>3, <2>1, <2>2, Launched, AttrsAt DEF Allowed
  <2>5. Inside(t)'
    BY <2>1, <2>2 DEF Inside
  <2>6. stage[t] = "body" /\ t \notin good_tests
    BY <2>1, AttrsAt DEF Accountable
  <2>7. Accountable(t)'
    BY <1>3, <1>6, <2>1, <2>6, AttrsAt, DefsStay DEF Accountable
  <2> QED
    BY <1>4, <1>5, <2>3, <2>4, <2>5, <2>7 DEF IsoInv, Fine
<1>8. CASE ~At(t, "creating")
  <2>1. step'[t] = step[t]
    BY <1>3, <1>8
  <2>2. Prepared(t)'
    BY <2>1, AttrsAt, DefsStay DEF Prepared
  <2>3. Allowed(t)'
    BY <1>3, <2>1, AttrsAt DEF Allowed, Skipped
  <2>4. Inside(t)'
    BY <1>2, <2>1, DefsStay, AttrsAt DEF Inside
  <2>5. \/ stage[t] = "body" /\ step[t] = "ended" /\ ended[t] # Success
        \/ stage[t] # "body" /\ t \notin good_tests
    BY <1>8, AttrsAt DEF Accountable
  <2>6. t \in good_tests => stage[t] \notin {"new", "body"}
    BY AttrsAt DEF Accountable
  <2>7. Accountable(t)'
    BY <1>3, <1>6, <2>1, <2>5, <2>6, AttrsAt, DefsStay DEF Accountable
  <2> QED
    BY <1>4, <1>5, <2>2, <2>3, <2>4, <2>7 DEF IsoInv, Fine
<1> QED
  BY <1>7, <1>8

(* ... or without one.                                                       *)
LEMMA NoJailAppears ==
  ASSUME IsoInv, UNCHANGED <<def, is_root, proc, owner, cookie, faults, jails>>, NEW t \in Cases,
         t \in creating, creating' = creating \ {t},
         \/ At(t, "creating") /\ Exit(t, Failure)
         \/ ~At(t, "creating") /\ UNCHANGED <<stage, step, ended, good_tests>>
  PROVE  IsoInv'
<1>1. /\ stage' = stage /\ good_tests' = good_tests /\ step' \in [Cases -> Steps]
      /\ \A u \in Cases : u # t => step'[u] = step[u] /\ ended'[u] = ended[u]
      /\ ended' = [u \in Cases |-> ended'[u]]
      /\ IF At(t, "creating") THEN step'[t] = "ended" /\ ended'[t] # Success
                              ELSE step'[t] = step[t] /\ ended'[t] = ended[t]
  BY DEF Exit, IsoInv, Shapes, Steps, Failure, Success
<1>2. Shapes'
  BY <1>1, DefsStay DEF IsoInv, Shapes
<1>3. \A u \in Cases : u # t => Same(u)
  BY <1>1 DEF Same
<1>4. Owns(t)' <=> Owns(t)
  BY DEF Owns
<1>5. "ended" \notin AfterRedirect \cup AfterPath \cup AfterChdir \cup AfterSignals
                       \cup AfterEnvironment \cup AfterUser \cup Launching
  BY DEF AfterRedirect, AfterPath, AfterChdir, AfterSignals, AfterEnvironment, AfterUser, Launching
<1>6. At(t, "creating") => step[t] \in Launching
  BY DEF At, Launching
<1>7. Prepared(t)'
  BY <1>1, <1>5, AttrsAt, DefsStay DEF Prepared
<1>8. Allowed(t)'
  BY <1>1, <1>5, <1>6, Launched, AttrsAt DEF Allowed, Skipped
<1>9. Inside(t)'
  BY <1>1, <1>5, AttrsAt, DefsStay DEF Inside
<1>10. Accountable(t)'
  BY <1>1, <1>4, AttrsAt, DefsStay DEF Accountable
<1> QED
  BY <1>2, <1>3, <1>7, <1>8, <1>9, <1>10, OneStep DEF Fine

LEMMA JailIsCreated ==
  ASSUME IsoInv, UNCHANGED <<def, is_root>>, NEW t \in Cases, JailCreates(t) PROVE IsoInv'
<1>1. t \in creating /\ creating' = creating \ {t} /\ UNCHANGED <<proc, owner, cookie, faults>>
  BY DEF JailCreates, Goto
<1>2. CASE /\ make_name(t) \notin DOMAIN jails
           /\ jails' = [n \in DOMAIN jails \cup {make_name(t)} |-> IF n = make_name(t) THEN t ELSE jails[n]]
           /\ IF At(t, "creating") THEN Goto(t, "attach")
              ELSE UNCHANGED <<stage, step, ended, good_tests, faults>>
  BY <1>1, <1>2, JailAppears
<1>3. CASE /\ IF At(t, "creating") THEN Exit(t, Failure) ELSE UNCHANGED <<stage, step, ended, good_tests>>
           /\ UNCHANGED <<jails, faults>>
  BY <1>1, <1>3, NoJailAppears
<1> QED
  BY <1>2, <1>3 DEF JailCreates

LEMMA EndsPrepared ==
  ASSUME IsoInv, UNCHANGED <<def, is_root, proc, owner>>, NEW t \in Cases, step'[t] = "ended"
  PROVE  Prepared(t)'
<1>1. "ended" \notin AfterRedirect \cup AfterPath \cup AfterChdir \cup AfterSignals
                       \cup AfterEnvironment \cup AfterUser \cup Launching
  BY DEF AfterRedirect, AfterPath, AfterChdir, AfterSignals, AfterEnvironment, AfterUser, Launching
<1> QED
  BY <1>1, AttrsAt, DefsStay DEF Prepared

(* The jail goes, and all who are in it.                                     *)
LEMMA JailDisappears ==
  ASSUME IsoInv, UNCHANGED <<def, is_root, proc, owner, cookie, creating, stage, good_tests, faults>>,
         NEW t \in Cases, stage[t] = "execenv", step[t] = "hook",
         NEW inside, inside = {u \in Cases : proc[u].jail = make_name(t) /\ step[u] # "ended"},
         jails' = [n \in DOMAIN jails \ {make_name(t)} |-> jails[n]],
         ended' = [u \in Cases |-> IF u = t THEN Success
                                    ELSE IF u \in inside THEN Killed ELSE ended[u]],
         step' = [u \in Cases |-> IF u \in inside \cup {t} THEN "ended" ELSE step[u]]
  PROVE  IsoInv'
<1>1. PICK name : name = make_name(t)
  OBVIOUS
<1>2. /\ DOMAIN jails' = DOMAIN jails \ {name}
      /\ \A n \in DOMAIN jails' : n # name /\ jails'[n] = jails[n]
  BY <1>1
<1>3. name # <<>>
  BY <1>1, NamesAreNotEmpty DEF IsoInv, Shapes
<1>4. /\ step' \in [Cases -> Steps] /\ ended' = [u \in Cases |-> ended'[u]]
      /\ step'[t] = "ended"
      /\ \A u \in Cases : u # t /\ u \in inside => step'[u] = "ended" /\ ended'[u] # Success
      /\ \A u \in Cases : u # t /\ u \notin inside => step'[u] = step[u] /\ ended'[u] = ended[u]
  BY DEF IsoInv, Shapes, Steps, Success, Killed
<1>5. \A u \in Cases : Owns(u)' => Owns(u)
  BY <1>2 DEF Owns
<1>6. Shapes'
  <2>1. (\A n \in DOMAIN jails : jails[n] \in Cases /\ make_name(jails[n]) = n)'
    BY <1>1, <1>2, DefsStay DEF IsoInv, Shapes
  <2> QED
    BY <1>4, <2>1 DEF IsoInv, Shapes
<1>7. "ended" \notin AfterRedirect \cup AfterPath \cup AfterChdir \cup AfterSignals
                       \cup AfterEnvironment \cup AfterUser \cup Launching
  BY DEF AfterRedirect, AfterPath, AfterChdir, AfterSignals, AfterEnvironment, AfterUser, Launching
<1>8. ASSUME NEW u \in Cases, u # t, u \notin inside PROVE Fine(u)'
  <2>1. Same(u)
    BY <1>4, <1>8 DEF Same
  <2>2. Inside(u)'
    <3>1. /\ step'[u] \notin Launching \cup {"ended"} => proc'[u].jail = <<>>
          /\ UsesExecenv(u) /\ step[u] \in {"chdir back", "exec", "running"} =>
               proc[u].jail = make_name(u) /\ make_name(u) \in DOMAIN jails
      BY <2>1, AttrsAt DEF Inside, Same
    <3>2. step[u] \in {"chdir back", "exec", "running"} => proc[u].jail # name
      BY <1>1, <1>8
    <3> QED
      BY <1>2, <2>1, <3>1, <3>2, DefsStay DEF Inside, Same
  <2>3. Fine(u) /\ faults \in Nat /\ faults' \in Nat /\ (faults > 0 => faults' > 0)
    BY DEF IsoInv, Shapes
  <2> QED
    BY <1>5, <2>1, <2>2, <2>3, SameFine
<1>9. ASSUME NEW u \in Cases, u # t, u \in inside PROVE Fine(u)'
  <2>1. step[u] # "ended" /\ step[u] \in Launching
    BY <1>1, <1>3, <1>9, AttrsAt DEF Inside
  <2>2. step'[u] = "ended" /\ ended'[u] # Success
    BY <1>4, <1>9
  <2>3. Prepared(u)'
    BY <1>7, <2>2, AttrsAt, DefsStay DEF Prepared
  <2>4. Allowed(u)'
    BY <1>7, <2>1, <2>2, AttrsAt, Launched DEF Allowed
  <2>5. Inside(u)'
    BY <2>2 DEF Inside
  <2>6. Accountable(u)'
    BY <1>5, <2>1, <2>2, AttrsAt, Launched, DefsStay DEF Accountable, At
  <2> QED
    BY <2>3, <2>4, <2>5, <2>6 DEF Fine
<1>10. Fine(t)'
  <2>1. Prepared(t)'
    BY <1>4, EndsPrepared
  <2>2. Allowed(t)'
    BY <1>4, <1>7, AttrsAt DEF Allowed
  <2>3. Inside(t)'
    BY <1>4 DEF Inside
  <2>4. ~Owns(t)'
    BY <1>1, <1>2 DEF Owns, IsoInv, Shapes
  <2>5. Accountable(t)'
    BY <1>4, <2>4, AttrsAt, DefsStay DEF Accountable, At
  <2> QED
    BY <2>1, <2>2, <2>3, <2>5 DEF Fine
<1> QED
  BY <1>6, <1>8, <1>9, <1>10 DEF IsoInv

LEMMA JailIsRemoved ==
  ASSUME IsoInv, UNCHANGED <<def, is_root>>, NEW t \in Cases, RunExecenvCleanup(t) PROVE IsoInv'
<1>1. /\ stage[t] = "execenv" /\ step[t] = "hook" /\ UNCHANGED <<proc, owner, cookie, creating>>
      /\ RemoveJail(t)
  BY DEF RunExecenvCleanup, At, RemoveJail
<1>2. CASE Exit(t, Failure) /\ UNCHANGED jails /\ (UNCHANGED faults \/ Fault)
  BY <1>1, <1>2, EndsBadly DEF Fault, Failure, Success
<1>3. PICK inside : inside = {u \in Cases : proc[u].jail = make_name(t) /\ step[u] # "ended"}
  OBVIOUS
<1>4. CASE /\ jails' = [n \in DOMAIN jails \ {make_name(t)} |-> jails[n]]
           /\ ended' = [u \in Cases |-> IF u = t THEN Success
                                         ELSE IF u \in inside THEN Killed ELSE ended[u]]
           /\ step' = [u \in Cases |-> IF u \in inside \cup {t} THEN "ended" ELSE step[u]]
           /\ UNCHANGED <<stage, good_tests, faults>>
  BY <1>1, <1>3, <1>4, JailDisappears
<1> QED
  BY <1>1, <1>2, <1>3, <1>4 DEF RemoveJail

-----------------------------------------------------------------------------
(* From one child to the next. *)

(* What every child starts with.                                             *)
LEMMA Inherits ==
  /\ AttrOK(Inherited) /\ Inherited.uid = Self.uid /\ Inherited.gid = Self.gid
  /\ Inherited.core.soft = 0 /\ Inherited.core.hard = CoreLimit
  /\ Inherited.held = {"INT", "ALRM", "THR"} /\ Inherited.jail = <<>>
<1>1. PICK self, env : self = Self /\ env = [v \in Locale \cup {"HOME", "TERM"} |-> "inherited"]
  OBVIOUS
<1>2. PICK p : p = [uid |-> self.uid, gid |-> self.gid, groups |-> {self.gid, 7},
                    cwd |-> "elsewhere", jail |-> <<>>, env |-> env,
                    out |-> "inherited", held |-> {"INT", "ALRM", "THR"},
                    core |-> [soft |-> 0, hard |-> CoreLimit]]
  OBVIOUS
<1>3. p = Inherited
  BY <1>1, <1>2 DEF Inherited
<1>4. AttrOK(p)
  BY <1>2 DEF AttrOK, Attributes
<1>5. /\ p.uid = self.uid /\ p.gid = self.gid /\ p.core.soft = 0 /\ p.core.hard = CoreLimit
      /\ p.held = {"INT", "ALRM", "THR"} /\ p.jail = <<>>
  BY <1>2
<1> QED
  BY <1>1, <1>3, <1>4, <1>5

(* A child that starts has done nothing yet, ...                             *)
LEMMA StartsPrepared ==
  ASSUME UNCHANGED <<def, is_root>>, NEW t \in Cases,
         step'[t] \in {"redirect", "ended"}, proc'[t] = Inherited,
         ~Drops(t) => owner'[t] = Self.uid
  PROVE  Prepared(t)'
<1>1. PICK p : p = Inherited
  OBVIOUS
<1>2. /\ p.uid = Self.uid /\ p.gid = Self.gid /\ p.core.soft = 0 /\ p.core.hard = CoreLimit
      /\ p.held = {"INT", "ALRM", "THR"}
  BY <1>1, Inherits
<1>3. {"redirect", "ended"} \cap (AfterRedirect \cup AfterPath \cup AfterChdir \cup AfterSignals
                                  \cup AfterEnvironment \cup AfterUser) = {}
  BY DEF AfterRedirect, AfterPath, AfterChdir, AfterSignals, AfterEnvironment, AfterUser, Launching
<1> QED
  BY <1>1, <1>2, <1>3, DefsStay DEF Prepared

(* ... and follows the one before if that may be so.                         *)
LEMMA Spawns ==
  ASSUME IsoInv, UNCHANGED <<def, is_root, owner, ended, cookie, jails, creating, faults>>,
         NEW t \in Cases, NEW next \in {"body", "cleanup", "execenv", "done"}, Spawn(t, next),
         \A u \in Cases : u # t => (u \in good_tests' <=> u \in good_tests),
         next = "cleanup" => def[t].cleanup /\ (def[t].unmet => faults > 0),
         Accountable(t)'
  PROVE  IsoInv'
<1>1. /\ stage' \in [Cases -> {"new", "body", "cleanup", "execenv", "done"}]
      /\ stage'[t] = next /\ \A u \in Cases : u # t => stage'[u] = stage[u]
  BY DEF Spawn, IsoInv, Shapes
<1>2. /\ step' \in [Cases -> Steps] /\ \A u \in Cases : u # t => step'[u] = step[u]
      /\ step'[t] = (IF next = "done" THEN "ended" ELSE "redirect")
  BY DEF Spawn, IsoInv, Shapes, Steps
<1>3. /\ proc' = [u \in Cases |-> proc'[u]] /\ \A u \in Cases : u # t => proc'[u] = proc[u]
      /\ proc'[t] = Inherited
  BY DEF Spawn, IsoInv, Shapes
<1>4. \A u \in Cases : AttrOK(proc'[u])
  BY <1>3, Inherits DEF IsoInv, Shapes
<1>5. Shapes'
  BY <1>1, <1>2, <1>3, <1>4, DefsStay DEF IsoInv, Shapes
<1>6. \A u \in Cases : u # t => Same(u)
  BY <1>1, <1>2, <1>3 DEF Same
<1>7. Prepared(t)'
  BY <1>2, <1>3, StartsPrepared, AttrsAt DEF Prepared
<1>8. {"redirect", "ended"} \cap Launching = {}
  BY DEF Launching
<1>9. Allowed(t)'
  BY <1>1, <1>2, <1>8 DEF Allowed
<1>10. Inside(t)'
  BY <1>2, <1>3, <1>8, Inherits DEF Inside
<1> QED
  BY <1>5, <1>6, <1>7, <1>9, <1>10, OneStep DEF Fine

LEMMA WaitsAny ==
  ASSUME IsoInv, UNCHANGED <<def, is_root>>, NEW t \in Cases, WaitAny(t) PROVE IsoInv'
<1>1. step[t] = "ended" /\ UNCHANGED <<owner, ended, cookie, jails, creating, faults>>
  BY DEF WaitAny, machine
<1>2. (Owns(t)' <=> Owns(t)) /\ (\A s : ~At(t, s) \/ s = "ended")
  BY <1>1 DEF Owns, At
<1>3. t \in creating \/ Owns(t) => UsesExecenv(t) /\ has_execenv(t) /\ ~def[t].unmet /\ stage[t] # "new"
                                   /\ t \notin cookie
  BY AttrsAt DEF Accountable, UsesExecenv
<1>4. t \in creating => (stage[t] = "body" /\ ended[t] # Success) \/ (stage[t] # "body" /\ t \notin good_tests)
  BY <1>1, <1>2, AttrsAt DEF Accountable
<1>5. ASSUME NEW next, Spawn(t, next)
      PROVE  stage'[t] = next /\ step'[t] \notin {"create", "creating"} /\ (next # "done" => step'[t] # "ended")
  BY <1>5 DEF Spawn, IsoInv, Shapes
<1>6. CASE stage[t] = "new" /\ Spawn(t, "body") /\ good_tests' = good_tests
  <2>1. t \notin good_tests /\ t \notin creating /\ ~Owns(t) /\ (t \in cookie => def[t].unmet)
    BY <1>3, <1>6, AttrsAt DEF Accountable
  <2>2. stage'[t] = "body" /\ step'[t] \notin {"create", "creating"}
    BY <1>5, <1>6
  <2>3. Accountable(t)'
    BY <1>1, <1>2, <1>6, <2>1, <2>2, DefsStay DEF Accountable
  <2> QED
    BY <1>1, <1>6, <2>3, Spawns
<1>7. CASE stage[t] = "body"
  <2>1. PICK next \in {"cleanup", "execenv", "done"} :
          /\ Spawn(t, next)
          /\ next = "cleanup" => ~Skipped(t) /\ def[t].cleanup
          /\ next = "done" => Skipped(t) \/ ~has_execenv(t)
    <3>1. PICK next : /\ Spawn(t, next)
                      /\ next = CASE ~Skipped(t) /\ def[t].cleanup -> "cleanup"
                                  [] ~Skipped(t) /\ ~def[t].cleanup /\ has_execenv(t) -> "execenv"
                                  [] OTHER -> "done"
      BY <1>7 DEF WaitAny
    <3> QED
      BY <3>1
  <2>2. /\ t \notin good_tests /\ \A u \in Cases : u # t => (u \in good_tests' <=> u \in good_tests)
        /\ t \in good_tests' => Skipped(t) \/ ended[t] = Success
    BY <1>7, AttrsAt DEF WaitAny, Accountable
  <2>3. next = "cleanup" => (def[t].unmet => faults > 0)
    <3>1. next = "cleanup" => ~def[t].fake
      BY <2>1, IsolationAssumption DEF IsoInv, Shapes
    <3> QED
      BY <1>1, <1>7, <2>1, <3>1, AttrsAt DEF Allowed
  <2>4. stage'[t] = next /\ step'[t] \notin {"create", "creating"} /\ (next # "done" => step'[t] # "ended")
    BY <1>5, <2>1
  <2>5. t \in creating => t \notin good_tests'
    BY <1>3, <1>4, <1>7, <2>2 DEF Skipped
  <2>6. Owns(t) => next # "done"
    BY <1>3, <2>1 DEF Skipped
  <2>7. Accountable(t)'
    BY <1>1, <1>2, <1>3, <2>1, <2>4, <2>5, <2>6, DefsStay, AttrsAt DEF Accountable
  <2> QED
    BY <1>1, <2>1, <2>2, <2>3, <2>7, Spawns
<1>8. CASE stage[t] \in {"cleanup", "execenv"}
  <2>1. PICK next \in {"execenv", "done"} :
          Spawn(t, next) /\ (next = "done" => stage[t] = "execenv" \/ ~has_execenv(t))
    BY <1>8 DEF WaitAny
  <2>2. /\ \A u \in Cases : u # t => (u \in good_tests' <=> u \in good_tests)
        /\ t \in good_tests' => t \in good_tests /\ ended[t] = Success
    BY <1>8 DEF WaitAny
  <2>3. stage'[t] = next /\ step'[t] \notin {"create", "creating"} /\ (next # "done" => step'[t] # "ended")
    BY <1>5, <2>1
  <2>4. Owns(t) /\ next = "done" => t \notin good_tests'
    BY <1>1, <1>3, <2>1, <2>2, AttrsAt DEF Accountable
  <2>5. t \in creating => t \notin good_tests'
    BY <1>4, <1>8, <2>2
  <2>6. Accountable(t)'
    BY <1>1, <1>2, <1>3, <2>1, <2>3, <2>4, <2>5, DefsStay, AttrsAt DEF Accountable
  <2> QED
    BY <1>1, <2>1, <2>2, <2>6, Spawns
<1> QED
  BY <1>6, <1>7, <1>8 DEF WaitAny

-----------------------------------------------------------------------------
(* The invariant, and what it is for. *)

LEMMA StartsFine == IsolationInit => IsoInv
<1> SUFFICES ASSUME IsolationInit PROVE IsoInv
  OBVIOUS
<1>1. /\ def \in Defs /\ is_root \in BOOLEAN /\ cookie = {} /\ good_tests = {} /\ creating = {}
      /\ faults = 0 /\ DOMAIN jails = {}
      /\ stage \in [Cases -> {"new", "body", "cleanup", "execenv", "done"}] /\ step \in [Cases -> Steps]
      /\ \A t \in Cases : stage[t] = "new" /\ step[t] = "ended"
  BY AllSteps DEF IsolationInit
<1>2. /\ proc = [t \in Cases |-> proc[t]] /\ owner = [t \in Cases |-> owner[t]]
      /\ ended = [t \in Cases |-> ended[t]]
      /\ \A t \in Cases : proc[t] = Inherited /\ owner[t] = Self.uid
  BY DEF IsolationInit
<1>3. Shapes
  <2>1. \A t \in Cases : AttrOK(proc[t])
    BY <1>2, Inherits
  <2> QED
    BY <1>1, <1>2, <2>1 DEF Shapes
<1>4. ASSUME NEW t \in Cases PROVE Fine(t)
  <2>1. "ended" \notin AfterRedirect \cup AfterPath \cup AfterChdir \cup AfterSignals
                         \cup AfterEnvironment \cup AfterUser \cup Launching
    BY DEF AfterRedirect, AfterPath, AfterChdir, AfterSignals, AfterEnvironment, AfterUser, Launching
  <2>2. Prepared(t)
    <3>1. PICK p : p = Inherited
      OBVIOUS
    <3>2. p.uid = Self.uid /\ p.gid = Self.gid /\ p.core.hard = CoreLimit
      BY <3>1, Inherits
    <3> QED
      BY <1>1, <1>2, <2>1, <3>1, <3>2 DEF Prepared
  <2>3. Allowed(t)
    BY <1>1, <2>1 DEF Allowed
  <2>4. Inside(t)
    BY <1>1 DEF Inside
  <2>5. Accountable(t)
    BY <1>1 DEF Accountable, Owns
  <2> QED
    BY <2>2, <2>3, <2>4, <2>5 DEF Fine
<1> QED
  BY <1>3, <1>4 DEF IsoInv

LEMMA StaysFine == IsoInv /\ [IsolationNext]_isolation_vars => IsoInv'
<1> SUFFICES ASSUME IsoInv, [IsolationNext]_isolation_vars PROVE IsoInv'
  OBVIOUS
<1>1. CASE UNCHANGED isolation_vars
  <2>1. UNCHANGED <<def, is_root, stage, step, proc, owner, ended, cookie, good_tests, jails, creating, faults>>
    BY <1>1 DEF isolation_vars
  <2>2. Shapes'
    BY <2>1, DefsStay DEF IsoInv, Shapes
  <2>3. ASSUME NEW u \in Cases PROVE Fine(u)'
    <3>1. Same(u) /\ (Owns(u)' => Owns(u))
      BY <2>1 DEF Same, Owns
    <3>2. Inside(u)'
      BY <2>1, DefsStay, AttrsAt DEF Inside
    <3>3. Fine(u) /\ faults \in Nat /\ faults' \in Nat /\ (faults > 0 => faults' > 0)
      BY <2>1 DEF IsoInv, Shapes
    <3> QED
      BY <2>1, <3>1, <3>2, <3>3, SameFine
  <2> QED
    BY <2>2, <2>3 DEF IsoInv
<1>2. CASE IsolationNext
  <2>1. UNCHANGED <<def, is_root>>
    BY <1>2 DEF IsolationNext
  <2>2. PICK t \in Cases :
          \/ Redirect(t) \/ IsolatePath(t) \/ Chdir(t) \/ ResetLimitsAndSignals(t)
          \/ PrepareEnvironment(t) \/ SwitchUser(t)
          \/ RunTestProgram(t) \/ RunTestCleanup(t)
          \/ CreateJail(t) \/ JailCreates(t) \/ AttachToJail(t) \/ ChdirBack(t)
          \/ RunExecenvCleanup(t) \/ Exec(t) \/ ProgramEnds(t) \/ TimesOut(t) \/ WaitAny(t)
    BY <1>2 DEF IsolationNext
  <2> QED
    BY <2>1, <2>2, Redirects, IsolatesPath, Chdirs, Resets, PreparesEnvironment, SwitchesUser,
       RunsTestProgram, RunsTestCleanup, CreatesJail, JailIsCreated, AttachesToJail, ChdirsBack,
       JailIsRemoved, Execs, ProgramIsOver, IsTimedOut, WaitsAny
<1> QED
  BY <1>1, <1>2

LEMMA FineIsIsolated == IsoInv => RunsIsolated
<1> SUFFICES ASSUME IsoInv, NEW t \in Cases, At(t, "running")
             PROVE  LET who == IF Drops(t) THEN User ELSE Self
                    IN /\ proc[t].uid = who.uid /\ proc[t].gid = who.gid /\ owner[t] = who.uid
                       /\ proc[t].cwd = "work" /\ proc[t].out = t /\ proc[t].core.soft = CoreLimit
                       /\ DOMAIN proc[t].env \cap Locale = {} /\ proc[t].env["HOME"] = "work"
                       /\ proc[t].held \subseteq {"THR"} \/ faults > 0
                       /\ ~def[t].fake /\ (def[t].unmet => stage[t] = "cleanup" /\ faults > 0)
                       /\ UsesExecenv(t) =>
                            /\ proc[t].jail = make_name(t) /\ make_name(t) \in DOMAIN jails
                            /\ Clashes(t) \/ jails[make_name(t)] = t
  BY DEF RunsIsolated
<1>1. step[t] = "running" /\ step[t] \in Launching /\ step[t] # "chdir back"
  BY DEF At, Launching
<1>2. step[t] \in AfterRedirect /\ step[t] \in AfterPath /\ step[t] \in AfterUser
      /\ step[t] \in AfterChdir /\ step[t] \in AfterSignals /\ step[t] \in AfterEnvironment
  BY <1>1 DEF AfterRedirect, AfterPath, AfterChdir, AfterSignals, AfterEnvironment, AfterUser, Launching
<1>3. PICK q : q = proc[t]
  OBVIOUS
<1>4. /\ Drops(t) => q.uid = User.uid /\ q.gid = User.gid /\ owner[t] = User.uid
      /\ ~Drops(t) => q.uid = Self.uid /\ q.gid = Self.gid /\ owner[t] = Self.uid
      /\ q.cwd = "work" /\ q.out = t /\ q.core.soft = CoreLimit
      /\ DOMAIN q.env \cap Locale = {} /\ q.env["HOME"] = "work"
      /\ q.held \subseteq {"THR"} \/ faults > 0
  BY <1>1, <1>2, <1>3, AttrsAt DEF Prepared
<1>5. ~def[t].fake /\ (def[t].unmet => stage[t] = "cleanup" /\ faults > 0)
  BY <1>1, AttrsAt DEF Allowed
<1>6. ASSUME UsesExecenv(t)
      PROVE  /\ q.jail = make_name(t) /\ make_name(t) \in DOMAIN jails
             /\ Clashes(t) \/ jails[make_name(t)] = t
  <2>1. q.jail = make_name(t) /\ make_name(t) \in DOMAIN jails
    BY <1>1, <1>3, <1>6, AttrsAt DEF Inside
  <2>2. PICK u : u = jails[make_name(t)]
    OBVIOUS
  <2>3. u \in Cases /\ make_name(u) = make_name(t) /\ Owns(u)
    BY <2>1, <2>2 DEF IsoInv, Shapes, Owns
  <2>4. def[u].jail
    BY <2>3, AttrsAt DEF Accountable, UsesExecenv, has_execenv
  <2> QED
    BY <2>1, <2>2, <2>3, <2>4 DEF Clashes
<1> QED
  BY <1>3, <1>4, <1>5, <1>6

LEMMA FineForgetsNoJail == IsoInv => NoJailForgotten
<1> SUFFICES ASSUME IsoInv, \A t \in Cases : stage[t] = "done", NEW name \in DOMAIN jails
             PROVE  \E t \in Cases : make_name(t) = name /\ t \notin good_tests
  BY DEF NoJailForgotten
<1>1. PICK t : t = jails[name]
  OBVIOUS
<1>2. t \in Cases /\ make_name(t) = name /\ Owns(t)
  BY <1>1 DEF IsoInv, Shapes, Owns
<1>3. t \notin good_tests
  BY <1>2, AttrsAt DEF Accountable
<1> QED
  BY <1>2, <1>3

(* For any tests, users, names and failures: a test program runs isolated,   *)
(* as RunsIsolated says, whatever the children before it met with.           *)
THEOREM IsolationHolds == IsolationSpec => []RunsIsolated
BY StartsFine, StaysFine, FineIsIsolated, PTL DEF IsolationSpec

(* For any tests and failures: a jail that is left once all tests are        *)
(* through is that of a test whose result is not good.                       *)
THEOREM JailsAreRemembered == IsolationSpec => []NoJailForgotten
BY StartsFine, StaysFine, FineForgetsNoJail, PTL DEF IsolationSpec
-----------------------------------------------------------------------------
(* A set of numbers has a least one.                                         *)
LEMMA LeastNumber ==
  ASSUME NEW T, T \subseteq Nat, T # {}
  PROVE  \E x \in T : \A y \in T : x <= y
<1>1. IsWellFoundedOn(OpToRel(<, Nat), Nat)
  BY NatLessThanWellFounded
<1>2. PICK x \in T : \A y \in T : ~ (<<y, x>> \in OpToRel(<, Nat))
  BY <1>1, WFMin
<1>3. ASSUME NEW y \in T PROVE x <= y
  <2>1. ~ (<<y, x>> \in OpToRel(<, Nat)) BY <1>2
  <2>2. ~ (y < x) BY <2>1 DEF OpToRel
  <2> QED BY <2>2
<1> QED BY <1>3

(* What holds of 0, and of every n when it holds of n - 1, holds up to N:    *)
(* the induction of the proofs below, whose statements are sets.             *)
LEMMA Upto ==
  ASSUME NEW N \in Nat, NEW T, 0 \in T, \A n \in 1..N : n - 1 \in T => n \in T
  PROVE  \A n \in 0..N : n \in T
<1> DEFINE Missed == {n \in 0..N : n \notin T}
<1> SUFFICES ASSUME Missed # {} PROVE FALSE
  OBVIOUS
<1>1. PICK m \in Missed : \A k \in Missed : m <= k
  <2>1. Missed \subseteq Nat OBVIOUS
  <2> HIDE DEF Missed
  <2> QED BY <2>1, LeastNumber
<1>2. m \in 1..N
  OBVIOUS
<1>3. m - 1 \in 0..N /\ ~ (m <= m - 1)
  BY <1>2
<1>4. m - 1 \in T
  BY <1>1, <1>3
<1> QED BY <1>2, <1>4

(* f goes through what N steps leave, one after the other, from base.        *)
Goes(f, N, S, base, move) ==
  f \in [0..N -> S] /\ f[0] = base /\ \A n \in 1..N : f[n] = move[n][f[n - 1]]

(* However the steps go, there is a function that goes through them.         *)
LEMMA StepsExist ==
  ASSUME NEW N \in Nat, NEW S, NEW base \in S, NEW move \in [1..N -> [S -> S]]
  PROVE  \E f : Goes(f, N, S, base, move)
<1> DEFINE G(m) == \E f : Goes(f, m, S, base, move)
           T == {m \in 0..N : G(m)}
<1>1. 0 \in T
  <2> DEFINE f == [k \in 0..0 |-> base]
  <2>1. Goes(f, 0, S, base, move) BY DEF Goes
  <2>2. G(0) BY <2>1
  <2> HIDE DEF G
  <2> QED BY <2>2
<1>2. ASSUME NEW m \in 1..N, m - 1 \in T PROVE m \in T
  <2>0. PICK f : Goes(f, m - 1, S, base, move)
    BY <1>2
  <2>1. f \in [0..(m - 1) -> S] /\ f[0] = base /\ \A n \in 1..(m - 1) : f[n] = move[n][f[n - 1]]
    BY <2>0 DEF Goes
  <2> DEFINE g == [k \in 0..m |-> IF k = m THEN move[m][f[m - 1]] ELSE f[k]]
  <2>2. m - 1 \in 0..(m - 1) OBVIOUS
  <2>3. move[m][f[m - 1]] \in S BY <2>1, <2>2
  <2>4. g \in [0..m -> S] BY <2>1, <2>3
  <2>5. g[0] = base BY <2>1
  <2>6. ASSUME NEW n \in 1..m PROVE g[n] = move[n][g[n - 1]]
    <3>1. g[n - 1] = f[n - 1] OBVIOUS
    <3>2. CASE n = m BY <3>1, <3>2
    <3>3. CASE n # m
      <4>1. n \in 1..(m - 1) BY <3>3
      <4>2. g[n] = f[n] BY <3>3
      <4> QED BY <2>1, <3>1, <4>1, <4>2
    <3> QED BY <3>2, <3>3
  <2> HIDE DEF g
  <2>7. Goes(g, m, S, base, move) BY <2>4, <2>5, <2>6 DEF Goes
  <2>8. G(m) BY <2>7
  <2> HIDE DEF G
  <2> QED BY <2>8
<1>3. N \in T
  <2>1. N \in 0..N OBVIOUS
  <2> HIDE DEF T
  <2>2. \A m \in 1..N : m - 1 \in T => m \in T BY <1>2
  <2>3. \A m \in 0..N : m \in T BY <1>1, <2>2, Upto
  <2> QED BY <2>1, <2>3
<1> QED BY <1>3

(* The lines that mark the end of a googletest, and the states of its        *)
(* parser.                                                                   *)
Marks == {"ok", "failed", "skipped", "disabled"}
ScanStates == [status : {"", "disabled", "successful", "failed", "skipped"},
               context : BOOLEAN, capture : BOOLEAN, valid : BOOLEAN, done : BOOLEAN]

LEMMA ScanTyped == ASSUME NEW s \in ScanStates, NEW l PROVE ScanLine(s, l) \in ScanStates
BY DEF ScanStates, ScanLine

(* scan() is what its steps leave: the function it is defined by exists, and *)
(* goes through states of the parser.                                        *)
LEMMA ScanRuns ==
  ASSUME NEW lines \in Seq(GtestLines)
  PROVE  \E f \in [0..Len(lines) -> ScanStates] :
           /\ scan(lines) = f[Len(lines)] /\ f[0] = Scan0
           /\ \A n \in 1..Len(lines) : f[n] = ScanLine(f[n - 1], lines[n])
<1> DEFINE N == Len(lines)
           move == [n \in 1..N |-> [s \in ScanStates |-> ScanLine(s, lines[n])]]
           Follows(f) == f = [n \in 0..Len(lines) |-> IF n = 0 THEN Scan0
                                                    ELSE ScanLine(f[n - 1], lines[n])]
<1>1. N \in Nat /\ \A n \in 1..N : lines[n] \in GtestLines
  OBVIOUS
<1> HIDE DEF N
<1>2. Scan0 \in ScanStates
  BY DEF Scan0, ScanStates
<1>3. \A n \in 1..N : \A s \in ScanStates : ScanLine(s, lines[n]) \in ScanStates
  BY <1>1, <1>2, ScanTyped
<1>4. PICK f : Goes(f, N, ScanStates, Scan0, move)
  <2>1. move \in [1..N -> [ScanStates -> ScanStates]]
    BY <1>3
  <2> HIDE DEF move
  <2> QED
    BY <1>1, <1>2, <2>1, StepsExist
<1>5. f \in [0..N -> ScanStates] /\ f[0] = Scan0 /\ \A n \in 1..N : f[n] = move[n][f[n - 1]]
  BY <1>4 DEF Goes
<1>6. Follows(f)
  <2>1. f = [n \in 0..N |-> f[n]]
    BY <1>5
  <2>2. ASSUME NEW n \in 0..N
        PROVE  f[n] = IF n = 0 THEN Scan0 ELSE ScanLine(f[n - 1], lines[n])
    <3>1. CASE n # 0
      <4>1. n \in 1..N /\ n - 1 \in 0..N
        BY <1>1, <3>1
      <4>2. f[n - 1] \in ScanStates
        BY <1>5, <4>1
      <4>3. f[n] = move[n][f[n - 1]]
        BY <1>5, <4>1
      <4> QED
        BY <3>1, <4>1, <4>2, <4>3
    <3> QED
      BY <1>5, <3>1
  <2> QED
    BY <2>1, <2>2 DEF N
<1>7. Follows(CHOOSE g : Follows(g))
  BY <1>6, Zenon
<1> DEFINE h == CHOOSE g : Follows(g)
<1>8. scan(lines) = h[N]
  BY DEF scan, N
<1>9. Follows(h)
  BY <1>7
<1> HIDE DEF h
<1>10. h[0] = Scan0 /\ \A n \in 1..N : h[n] = ScanLine(h[n - 1], lines[n])
  BY <1>1, <1>9 DEF N
<1>11. h \in [0..N -> ScanStates]
  <2> DEFINE T == {n \in 0..N : h[n] \in ScanStates}
  <2>1. 0 \in T
    BY <1>1, <1>2, <1>10
  <2>2. ASSUME NEW n \in 1..N, n - 1 \in T
        PROVE  n \in T
    BY <1>3, <1>10, <2>2
  <2>3. \A n \in 0..N : n \in T
    <3> HIDE DEF T
    <3> QED
      BY <1>1, <2>1, <2>2, Upto
  <2>4. h = [n \in 0..N |-> h[n]]
    BY <1>9 DEF N
  <2> QED
    BY <2>3, <2>4
<1> QED
  BY <1>8, <1>10, <1>11 DEF N


(* What the lines of a googletest program say up to the n-th.                *)
ScanMeans(s, lines, n) ==
  /\ s.done <=> \E i \in 1..n : lines[i] = "disabled"
  /\ s.valid <=> \E i \in 1..n : lines[i] \in Marks
  /\ s.done => s.status = "disabled"
  /\ s.valid /\ ~s.done =>
       \E i \in 1..n :
         /\ lines[i] \in Marks /\ \A j \in 1..n : lines[j] \in Marks => j <= i
         /\ s.status = IF lines[i] = "ok" THEN "successful" ELSE lines[i]

(* One line of a googletest program.                                         *)
LEMMA ScanStep ==
  ASSUME NEW lines, NEW n \in Nat \ {0}, NEW s \in ScanStates, ScanMeans(s, lines, n - 1)
  PROVE  ScanMeans(ScanLine(s, lines[n]), lines, n)
<1> DEFINE l == lines[n]
           t == ScanLine(s, l)
<1>1. n \in 1..n /\ 1..n = 1..(n - 1) \cup {n}
  OBVIOUS
<1>2. CASE s.done
  <2>1. t = s
    BY <1>2 DEF ScanLine
  <2>2. PICK i \in 1..(n - 1) : lines[i] = "disabled"
    BY <1>2 DEF ScanMeans
  <2>3. i \in 1..n /\ lines[i] \in Marks
    BY <2>2 DEF Marks
  <2>4. s.valid
    BY <2>2, <2>3 DEF ScanMeans
  <2>5. s.status = "disabled"
    BY <1>2 DEF ScanMeans
  <2>6. ScanMeans(s, lines, n)
    BY <1>2, <2>2, <2>3, <2>4, <2>5 DEF ScanMeans
  <2> QED
    BY <2>1, <2>6
<1>3. CASE ~s.done /\ l \notin Marks
  <2>1. t.done = s.done /\ t.valid = s.valid /\ t.status = s.status
    BY <1>3 DEF ScanLine, ScanStates, Marks
  <2>2. l # "disabled"
    BY <1>3 DEF Marks
  <2> QED
    BY <1>1, <1>3, <2>1, <2>2 DEF ScanMeans
<1>4. CASE ~s.done /\ l \in Marks
  <2>1. /\ t.done <=> l = "disabled"
        /\ t.valid
        /\ t.done => t.status = "disabled"
        /\ ~t.done => t.status = IF l = "ok" THEN "successful" ELSE l
    BY <1>4 DEF ScanLine, ScanStates, Marks
  <2>2. \A j \in 1..n : j <= n
    OBVIOUS
  <2>3. ~ \E i \in 1..(n - 1) : lines[i] = "disabled"
    BY <1>4 DEF ScanMeans
  <2> QED
    BY <1>1, <1>4, <2>1, <2>2, <2>3 DEF ScanMeans
<1> QED
  BY <1>2, <1>3, <1>4

(* What parse_googletest_result() has found when it is through.              *)
LEMMA ScanIsRight ==
  ASSUME NEW lines \in Seq(GtestLines)
  PROVE  scan(lines) \in ScanStates /\ ScanMeans(scan(lines), lines, Len(lines))
<1> DEFINE N == Len(lines)
<1>1. PICK f \in [0..N -> ScanStates] :
        /\ scan(lines) = f[N] /\ f[0] = Scan0
        /\ \A n \in 1..N : f[n] = ScanLine(f[n - 1], lines[n])
  BY ScanRuns
<1> DEFINE T == {n \in 0..N : ScanMeans(f[n], lines, n)}
<1>2. 0 \in T
  <2>1. ScanMeans(Scan0, lines, 0)
    BY DEF ScanMeans, Scan0
  <2> QED
    BY <1>1, <2>1
<1>3. ASSUME NEW n \in 1..N, n - 1 \in T
      PROVE  n \in T
  <2>1. f[n - 1] \in ScanStates /\ n \in Nat \ {0} /\ ScanMeans(f[n - 1], lines, n - 1)
    BY <1>3
  <2>2. ScanMeans(ScanLine(f[n - 1], lines[n]), lines, n)
    BY <2>1, ScanStep
  <2>3. f[n] = ScanLine(f[n - 1], lines[n])
    BY <1>1
  <2> QED
    BY <2>2, <2>3
<1>4. N \in T
  <2>1. N \in 0..N /\ N \in Nat
    OBVIOUS
  <2> HIDE DEF T, N
  <2> QED
    BY <1>2, <1>3, <2>1, Upto
<1> QED
  BY <1>1, <1>4

(* The states of the tap parser, and the lines it tells apart.               *)
TapStates == [plan : Int \X Int, ok : Nat, notok : Nat, bailed : BOOLEAN, error : BOOLEAN]
Resulting == {"ok", "not ok", "todo"}
Planning == {"plan", "skipplan"}

(* A plan that is refused wherever it comes.                                 *)
Wrong(l) ==
  \/ l.kind = "skipplan" /\ <<l.first, l.second>> # AllSkipped
  \/ l.kind = "plan" /\ l.first > l.second

(* One line of a tap program with a plan, and one without.                   *)
LEMMA PlanLine ==
  ASSUME NEW s \in TapStates, NEW l, l.kind \in Planning, l.first \in Nat, l.second \in Nat
  PROVE  /\ TapLine(s, l) \in TapStates
         /\ ~s.bailed /\ ~s.error =>
              LET t == TapLine(s, l)
              IN /\ t.bailed = s.bailed /\ t.ok = s.ok /\ t.notok = s.notok
                 /\ t.error <=> s.plan # NoPlan \/ Wrong(l)
                 /\ ~t.error => t.plan = <<l.first, l.second>>
<1>1. CASE s.bailed \/ s.error
  BY <1>1 DEF TapLine
<1>2. CASE ~s.bailed /\ ~s.error
  <2>1. TapLine(s, l) = try_parse_plan(s, l)
    BY <1>2 DEF TapLine, Planning
  <2>2. try_parse_plan(s, l) = IF s.plan # NoPlan \/ Wrong(l) THEN [s EXCEPT !.error = TRUE]
                               ELSE [s EXCEPT !.plan = <<l.first, l.second>>]
    BY DEF try_parse_plan, Wrong
  <2>3. [s EXCEPT !.error = TRUE] \in TapStates /\ [s EXCEPT !.plan = <<l.first, l.second>>] \in TapStates
    <3>1. <<l.first, l.second>> \in Int \X Int
      OBVIOUS
    <3> DEFINE plan == <<l.first, l.second>>
    <3> HIDE DEF plan
    <3>2. [s EXCEPT !.error = TRUE] \in TapStates /\ [s EXCEPT !.plan = plan] \in TapStates
      <4>1. plan \in Int \X Int
        BY <3>1 DEF plan
      <4> DEFINE Plans == Int \X Int
      <4> HIDE DEF Plans
      <4> QED
        BY <4>1 DEF TapStates, Plans
    <3> QED
      BY <3>2 DEF plan
  <2>4. CASE s.plan # NoPlan \/ Wrong(l)
    <3>1. TapLine(s, l) = [s EXCEPT !.error = TRUE]
      BY <2>1, <2>2, <2>4
    <3> QED
      BY <1>2, <2>3, <2>4, <3>1 DEF TapStates
  <2>5. CASE ~(s.plan # NoPlan \/ Wrong(l))
    <3>1. TapLine(s, l) = [s EXCEPT !.plan = <<l.first, l.second>>]
      BY <2>1, <2>2, <2>5
    <3> QED
      BY <1>2, <2>3, <2>5, <3>1 DEF TapStates
  <2> QED
    BY <2>4, <2>5
<1> QED
  BY <1>1, <1>2

LEMMA OtherLine ==
  ASSUME NEW s \in TapStates, NEW l, l.kind \notin Planning
  PROVE  /\ TapLine(s, l) \in TapStates
         /\ ~s.bailed /\ ~s.error =>
              LET t == TapLine(s, l)
              IN /\ t.error = s.error /\ t.plan = s.plan
                 /\ t.bailed <=> l.kind = "bail"
                 /\ t.ok = IF l.kind \in {"ok", "todo"} THEN s.ok + 1 ELSE s.ok
                 /\ t.notok = IF l.kind = "not ok" THEN s.notok + 1 ELSE s.notok
<1>1. CASE s.bailed \/ s.error
  BY <1>1 DEF TapLine
<1>2. CASE ~s.bailed /\ ~s.error /\ l.kind \notin {"ok", "not ok", "todo", "bail"}
  <2>1. TapLine(s, l) = s
    BY <1>2 DEF TapLine, Planning
  <2> QED
    BY <1>2, <2>1
<1>3. CASE ~s.bailed /\ ~s.error /\ l.kind \in {"ok", "todo"}
  <2>1. TapLine(s, l) = [s EXCEPT !.ok = @ + 1]
    BY <1>3 DEF TapLine, try_parse_result
  <2>2. s.ok \in Nat /\ s.notok \in Nat /\ s.ok + 1 \in Nat
    BY DEF TapStates
  <2>3. [s EXCEPT !.ok = @ + 1] \in TapStates
    BY <2>2 DEF TapStates
  <2>4. LET t == [s EXCEPT !.ok = @ + 1]
        IN /\ t.error = s.error /\ t.plan = s.plan /\ t.bailed = s.bailed
           /\ t.ok = s.ok + 1 /\ t.notok = s.notok
    BY DEF TapStates
  <2> QED
    BY <1>3, <2>1, <2>3, <2>4
<1>4. CASE ~s.bailed /\ ~s.error /\ l.kind = "not ok"
  <2>1. TapLine(s, l) = [s EXCEPT !.notok = @ + 1]
    BY <1>4 DEF TapLine, try_parse_result
  <2>2. s.ok \in Nat /\ s.notok \in Nat /\ s.notok + 1 \in Nat
    BY DEF TapStates
  <2>3. [s EXCEPT !.notok = @ + 1] \in TapStates
    BY <2>2 DEF TapStates
  <2>4. LET t == [s EXCEPT !.notok = @ + 1]
        IN /\ t.error = s.error /\ t.plan = s.plan /\ t.bailed = s.bailed
           /\ t.ok = s.ok /\ t.notok = s.notok + 1
    BY DEF TapStates
  <2> QED
    BY <1>4, <2>1, <2>3, <2>4
<1>5. CASE ~s.bailed /\ ~s.error /\ l.kind = "bail"
  <2>1. TapLine(s, l) = [s EXCEPT !.bailed = TRUE]
    BY <1>5 DEF TapLine, try_parse_result
  <2> QED
    BY <1>5, <2>1 DEF TapStates
<1> QED
  BY <1>1, <1>2, <1>3, <1>4, <1>5

LEMMA TapTyped ==
  ASSUME NEW s \in TapStates, NEW l \in TapLines
  PROVE  TapLine(s, l) \in TapStates
<1>1. CASE l.kind \in Planning
  <2>1. l.first \in Nat /\ l.second \in Nat
    BY <1>1, TapLinesAssumption DEF Planning
  <2> QED
    BY <1>1, <2>1, PlanLine
<1>2. CASE l.kind \notin Planning
  BY <1>2, OtherLine
<1> QED
  BY <1>1, <1>2

(* The results among the first n lines.                                      *)
ResultsIn(lines, n) == {i \in 1..n : lines[i].kind \in Resulting}

(* What the lines of a tap program say up to the n-th.                       *)
TallyMeans(s, lines, n) ==
  /\ s.bailed => \E i \in 1..n : lines[i].kind = "bail"
  /\ s.error => \E i, j \in 1..n :
       /\ lines[i].kind \in Planning /\ lines[j].kind \in Planning
       /\ i # j \/ Wrong(lines[i])
  /\ ~s.bailed /\ ~s.error =>
       /\ \A i \in 1..n : lines[i].kind # "bail"
       /\ IsFiniteSet(ResultsIn(lines, n))
       /\ Cardinality(ResultsIn(lines, n)) = s.ok + s.notok
       /\ s.notok > 0 <=> \E i \in 1..n : lines[i].kind = "not ok"
       /\ s.plan = NoPlan => \A i \in 1..n : lines[i].kind \notin Planning
       /\ s.plan # NoPlan => \E i \in 1..n :
            /\ lines[i].kind \in Planning /\ ~Wrong(lines[i])
            /\ s.plan = <<lines[i].first, lines[i].second>>
            /\ \A j \in 1..n : lines[j].kind \in Planning => j = i

(* One line of a tap program, whatever came before.                          *)
LEMMA TallyStep ==
  ASSUME NEW lines, NEW n \in Nat \ {0}, NEW s \in TapStates, TallyMeans(s, lines, n - 1),
         lines[n].kind \in Planning => lines[n].first \in Nat /\ lines[n].second \in Nat
  PROVE  TallyMeans(TapLine(s, lines[n]), lines, n)
<1> DEFINE l == lines[n]
           t == TapLine(s, l)
<1> SUFFICES TallyMeans(t, lines, n)
  OBVIOUS
<1>1. n \in 1..n /\ 1..n = 1..(n - 1) \cup {n} /\ n \notin 1..(n - 1)
  OBVIOUS
<1>2. CASE s.bailed \/ s.error
  <2>1. t = s
    BY <1>2 DEF TapLine
  <2>2. s.bailed => \E i \in 1..n : lines[i].kind = "bail"
    BY <1>1 DEF TallyMeans
  <2>3. s.error => \E i, j \in 1..n :
          /\ lines[i].kind \in Planning /\ lines[j].kind \in Planning
          /\ i # j \/ Wrong(lines[i])
    BY <1>1 DEF TallyMeans
  <2>4. TallyMeans(s, lines, n)
    BY <1>2, <2>2, <2>3 DEF TallyMeans
  <2> QED
    BY <2>1, <2>4
<1>3. CASE ~s.bailed /\ ~s.error /\ l.kind \in Planning
  <2>1. /\ ~t.bailed /\ t.ok = s.ok /\ t.notok = s.notok
        /\ t.error <=> s.plan # NoPlan \/ Wrong(l)
        /\ ~t.error => t.plan = <<l.first, l.second>>
    BY <1>3, PlanLine
  <2>2. l.kind \notin Resulting /\ l.kind # "bail" /\ l.kind # "not ok"
    BY <1>3 DEF Planning, Resulting
  <2>3. CASE s.plan # NoPlan
    <3>1. PICK i \in 1..(n - 1) : lines[i].kind \in Planning
      BY <1>3, <2>3 DEF TallyMeans
    <3>2. i \in 1..n /\ i # n
      BY <1>1, <3>1
    <3> HIDE DEF t
    <3> QED
      BY <1>1, <1>3, <2>1, <2>3, <3>1, <3>2 DEF TallyMeans
  <2>4. CASE Wrong(l)
    <3> HIDE DEF t
    <3> QED
      BY <1>1, <1>3, <2>1, <2>4 DEF TallyMeans
  <2>5. CASE s.plan = NoPlan /\ ~Wrong(l)
    <3>1. ~t.error /\ t.plan = <<l.first, l.second>>
      BY <2>1, <2>5
    <3>2. t.plan # NoPlan
      BY <1>3, <3>1 DEF NoPlan
    <3>3. ResultsIn(lines, n) = ResultsIn(lines, n - 1)
      BY <1>1, <2>2 DEF ResultsIn
    <3>4. \A i \in 1..(n - 1) : lines[i].kind \notin Planning
      BY <1>3, <2>5 DEF TallyMeans
    <3>5. /\ \A i \in 1..n : lines[i].kind # "bail"
          /\ IsFiniteSet(ResultsIn(lines, n))
          /\ Cardinality(ResultsIn(lines, n)) = t.ok + t.notok
          /\ t.notok > 0 <=> \E i \in 1..n : lines[i].kind = "not ok"
      BY <1>1, <1>3, <2>1, <2>2, <3>3 DEF TallyMeans
    <3>6. \A j \in 1..n : lines[j].kind \in Planning => j = n
      BY <1>1, <3>4
    <3> HIDE DEF t
    <3> QED
      BY <1>1, <1>3, <2>1, <2>5, <3>1, <3>2, <3>5, <3>6 DEF TallyMeans
  <2> QED
    BY <2>3, <2>4, <2>5
<1>4. CASE ~s.bailed /\ ~s.error /\ l.kind \notin Planning
  <2>1. /\ ~t.error /\ t.plan = s.plan
        /\ t.bailed <=> l.kind = "bail"
        /\ t.ok = IF l.kind \in {"ok", "todo"} THEN s.ok + 1 ELSE s.ok
        /\ t.notok = IF l.kind = "not ok" THEN s.notok + 1 ELSE s.notok
    BY <1>4, OtherLine
  <2>2. CASE l.kind = "bail"
    <3> HIDE DEF t
    <3> QED
      BY <1>1, <2>1, <2>2 DEF TallyMeans
  <2>3. CASE l.kind # "bail"
    <3>1. s.ok \in Nat /\ s.notok \in Nat
      BY DEF TapStates
    <3>2. \A i \in 1..n : lines[i].kind # "bail"
      BY <1>1, <1>4, <2>3 DEF TallyMeans
    <3>3. t.notok > 0 <=> \E i \in 1..n : lines[i].kind = "not ok"
      <4>1. s.notok > 0 <=> \E i \in 1..(n - 1) : lines[i].kind = "not ok"
        BY <1>4 DEF TallyMeans
      <4>2. CASE l.kind = "not ok"
        <5>1. t.notok = s.notok + 1
          BY <2>1, <4>2
        <5>2. t.notok > 0
          BY <3>1, <5>1
        <5> QED
          BY <1>1, <4>2, <5>2
      <4>3. CASE l.kind # "not ok"
        <5>1. t.notok = s.notok
          BY <2>1, <4>3
        <5> QED
          BY <1>1, <4>1, <4>3, <5>1
      <4> QED
        BY <4>2, <4>3
    <3>4. IsFiniteSet(ResultsIn(lines, n)) /\ Cardinality(ResultsIn(lines, n)) = t.ok + t.notok
      <4>1. IsFiniteSet(ResultsIn(lines, n - 1)) /\ Cardinality(ResultsIn(lines, n - 1)) = s.ok + s.notok
        BY <1>4 DEF TallyMeans
      <4>2. CASE l.kind \in Resulting
        <5>1. ResultsIn(lines, n) = ResultsIn(lines, n - 1) \cup {n} /\ n \notin ResultsIn(lines, n - 1)
          BY <1>1, <4>2 DEF ResultsIn
        <5>2. /\ IsFiniteSet(ResultsIn(lines, n))
              /\ Cardinality(ResultsIn(lines, n)) = Cardinality(ResultsIn(lines, n - 1)) + 1
          <6> DEFINE Before == ResultsIn(lines, n - 1)
          <6>1. IsFiniteSet(Before) /\ n \notin Before /\ Cardinality(Before) \in Nat
            BY <4>1, <5>1, FS_CardinalityType
          <6> HIDE DEF Before
          <6>2. IsFiniteSet(Before \cup {n}) /\ Cardinality(Before \cup {n}) = Cardinality(Before) + 1
            BY <6>1, FS_AddElement
          <6> QED
            BY <5>1, <6>2 DEF Before
        <5>3. t.ok + t.notok = s.ok + s.notok + 1
          <6>1. CASE l.kind = "not ok"
            <7>1. t.notok = s.notok + 1 /\ t.ok = s.ok
              BY <2>1, <6>1
            <7> QED
              BY <3>1, <7>1
          <6>2. CASE l.kind # "not ok"
            <7>1. t.notok = s.notok /\ t.ok = s.ok + 1
              BY <2>1, <4>2, <6>2 DEF Resulting
            <7> QED
              BY <3>1, <7>1
          <6> QED
            BY <6>1, <6>2
        <5> QED
          BY <4>1, <5>2, <5>3
      <4>3. CASE l.kind \notin Resulting
        <5>1. ResultsIn(lines, n) = ResultsIn(lines, n - 1)
          BY <1>1, <4>3 DEF ResultsIn
        <5>2. t.ok = s.ok /\ t.notok = s.notok
          BY <2>1, <4>3 DEF Resulting
        <5> QED
          BY <4>1, <5>1, <5>2
      <4> QED
        BY <4>2, <4>3
    <3>5. t.plan = NoPlan => \A i \in 1..n : lines[i].kind \notin Planning
      BY <1>1, <1>4, <2>1 DEF TallyMeans
    <3>6. t.plan # NoPlan => \E i \in 1..n :
            /\ lines[i].kind \in Planning /\ ~Wrong(lines[i])
            /\ t.plan = <<lines[i].first, lines[i].second>>
            /\ \A j \in 1..n : lines[j].kind \in Planning => j = i
      <4> SUFFICES ASSUME t.plan # NoPlan
                   PROVE  \E i \in 1..n :
                     /\ lines[i].kind \in Planning /\ ~Wrong(lines[i])
                     /\ t.plan = <<lines[i].first, lines[i].second>>
                     /\ \A j \in 1..n : lines[j].kind \in Planning => j = i
        OBVIOUS
      <4>1. PICK i \in 1..(n - 1) :
              /\ lines[i].kind \in Planning /\ ~Wrong(lines[i])
              /\ s.plan = <<lines[i].first, lines[i].second>>
              /\ \A j \in 1..(n - 1) : lines[j].kind \in Planning => j = i
        BY <1>4, <2>1 DEF TallyMeans
      <4>2. i \in 1..n /\ \A j \in 1..n : lines[j].kind \in Planning => j = i
        BY <1>1, <1>4, <4>1
      <4> HIDE DEF t
      <4> QED
        BY <2>1, <4>1, <4>2
    <3> HIDE DEF t
    <3> QED
      BY <2>1, <2>3, <3>2, <3>3, <3>4, <3>5, <3>6 DEF TallyMeans
  <2> QED
    BY <2>2, <2>3
<1> QED
  BY <1>2, <1>3, <1>4

(* tally() is what its steps leave.                                          *)
LEMMA TapRuns ==
  ASSUME NEW lines \in Seq(TapLines)
  PROVE  \E f \in [0..Len(lines) -> TapStates] :
           /\ tally(lines) = f[Len(lines)] /\ f[0] = Tap0
           /\ \A n \in 1..Len(lines) : f[n] = TapLine(f[n - 1], lines[n])
<1> DEFINE N == Len(lines)
           move == [n \in 1..N |-> [s \in TapStates |-> TapLine(s, lines[n])]]
           Follows(f) == f = [n \in 0..Len(lines) |-> IF n = 0 THEN Tap0
                                                    ELSE TapLine(f[n - 1], lines[n])]
<1>1. N \in Nat /\ \A n \in 1..N : lines[n] \in TapLines
  OBVIOUS
<1> HIDE DEF N
<1>2. Tap0 \in TapStates
  BY DEF Tap0, TapStates, NoPlan
<1>3. \A n \in 1..N : \A s \in TapStates : TapLine(s, lines[n]) \in TapStates
  BY <1>1, <1>2, TapTyped
<1>4. PICK f : Goes(f, N, TapStates, Tap0, move)
  <2>1. move \in [1..N -> [TapStates -> TapStates]]
    BY <1>3
  <2> HIDE DEF move
  <2> QED
    BY <1>1, <1>2, <2>1, StepsExist
<1>5. f \in [0..N -> TapStates] /\ f[0] = Tap0 /\ \A n \in 1..N : f[n] = move[n][f[n - 1]]
  BY <1>4 DEF Goes
<1>6. Follows(f)
  <2>1. f = [n \in 0..N |-> f[n]]
    BY <1>5
  <2>2. ASSUME NEW n \in 0..N
        PROVE  f[n] = IF n = 0 THEN Tap0 ELSE TapLine(f[n - 1], lines[n])
    <3>1. CASE n # 0
      <4>1. n \in 1..N /\ n - 1 \in 0..N
        BY <1>1, <3>1
      <4>2. f[n - 1] \in TapStates
        BY <1>5, <4>1
      <4>3. f[n] = move[n][f[n - 1]]
        BY <1>5, <4>1
      <4> QED
        BY <3>1, <4>1, <4>2, <4>3
    <3> QED
      BY <1>5, <3>1
  <2> QED
    BY <2>1, <2>2 DEF N
<1>7. Follows(CHOOSE g : Follows(g))
  BY <1>6, Zenon
<1> DEFINE h == CHOOSE g : Follows(g)
<1>8. tally(lines) = h[N]
  BY DEF tally, N
<1>9. Follows(h)
  BY <1>7
<1> HIDE DEF h
<1>10. h[0] = Tap0 /\ \A n \in 1..N : h[n] = TapLine(h[n - 1], lines[n])
  BY <1>1, <1>9 DEF N
<1>11. h \in [0..N -> TapStates]
  <2> DEFINE T == {n \in 0..N : h[n] \in TapStates}
  <2>1. 0 \in T
    BY <1>1, <1>2, <1>10
  <2>2. ASSUME NEW n \in 1..N, n - 1 \in T
        PROVE  n \in T
    BY <1>3, <1>10, <2>2
  <2>3. \A n \in 0..N : n \in T
    <3> HIDE DEF T
    <3> QED
      BY <1>1, <2>1, <2>2, Upto
  <2>4. h = [n \in 0..N |-> h[n]]
    BY <1>9 DEF N
  <2> QED
    BY <2>3, <2>4
<1> QED
  BY <1>8, <1>10, <1>11 DEF N


(* What parse_tap_output() has counted when it is through.                   *)
LEMMA TallyIsRight ==
  ASSUME NEW lines \in Seq(TapLines)
  PROVE  tally(lines) \in TapStates /\ TallyMeans(tally(lines), lines, Len(lines))
<1> DEFINE N == Len(lines)
<1>1. N \in Nat /\ \A n \in 1..N : lines[n] \in TapLines
  OBVIOUS
<1>2. PICK f \in [0..N -> TapStates] :
        /\ tally(lines) = f[N] /\ f[0] = Tap0
        /\ \A n \in 1..N : f[n] = TapLine(f[n - 1], lines[n])
  BY TapRuns
<1> HIDE DEF N
<1> DEFINE T == {n \in 0..N : TallyMeans(f[n], lines, n)}
<1>3. 0 \in T
  <2>1. ResultsIn(lines, 0) = {}
    BY DEF ResultsIn
  <2>2. IsFiniteSet(ResultsIn(lines, 0)) /\ Cardinality(ResultsIn(lines, 0)) = 0
    BY <2>1, FS_EmptySet
  <2>3. TallyMeans(Tap0, lines, 0)
    BY <2>2 DEF TallyMeans, Tap0
  <2> QED
    BY <1>1, <1>2, <2>3
<1>4. ASSUME NEW n \in 1..N, n - 1 \in T
      PROVE  n \in T
  <2>1. f[n - 1] \in TapStates /\ n \in Nat \ {0} /\ TallyMeans(f[n - 1], lines, n - 1)
    BY <1>1, <1>4
  <2>2. lines[n].kind \in Planning => lines[n].first \in Nat /\ lines[n].second \in Nat
    BY <1>1, TapLinesAssumption DEF Planning
  <2>3. TallyMeans(TapLine(f[n - 1], lines[n]), lines, n)
    BY <2>1, <2>2, TallyStep
  <2>4. f[n] = TapLine(f[n - 1], lines[n])
    BY <1>2
  <2> QED
    BY <2>3, <2>4
<1>5. N \in T
  <2>1. N \in 0..N
    BY <1>1
  <2> HIDE DEF T
  <2> QED
    BY <1>1, <1>3, <1>4, <2>1, Upto
<1> QED
  BY <1>1, <1>2, <1>5 DEF N

(* The names on the lines of a list, and the states of the two parsers.      *)
ListNames(lines) == {l.name : l \in lines}
AtfListStates ==
  [names : SUBSET ListNames(AtfListLines), cur : ListNames(AtfListLines) \cup {"none"},
   props : SUBSET ListNames(AtfListLines), error : BOOLEAN]
Pairs == ListNames(GtestListLines) \X ListNames(GtestListLines)
GtestListStates ==
  [names : SUBSET Pairs, suite : ListNames(GtestListLines) \cup {"none"}, error : BOOLEAN]

(* What the line does to the names, when it is not refused.                  *)
LEMMA AtfListNames ==
  ASSUME NEW s \in AtfListStates, NEW l \in AtfListLines
  PROVE  /\ AtfListLine(s, l) \in AtfListStates
         /\ ~AtfListLine(s, l).error =>
              /\ ~s.error
              /\ AtfListLine(s, l).names = IF l.kind = "ident" THEN s.names \cup {l.name} ELSE s.names
<1>1. l.name \in ListNames(AtfListLines)
  BY DEF ListNames
<1>2. CASE s.error
  BY <1>2 DEF AtfListLine
<1>3. CASE ~s.error /\ s.cur # "none"
  <2>1. AtfListLine(s, l) = parse_properties(s, l)
    BY <1>3 DEF AtfListLine
  <2>2. CASE l.kind = "blank"
    <3>1. AtfListLine(s, l) = [s EXCEPT !.cur = "none"]
      BY <2>1, <2>2 DEF parse_properties
    <3> QED
      BY <1>3, <2>2, <3>1 DEF AtfListStates
  <2>3. CASE l.kind = "prop" /\ l.name \notin s.props
    <3>1. AtfListLine(s, l) = [s EXCEPT !.props = @ \cup {l.name}]
      BY <2>1, <2>3 DEF parse_properties
    <3> QED
      BY <1>1, <1>3, <2>3, <3>1 DEF AtfListStates
  <2>4. CASE l.kind # "blank" /\ ~(l.kind = "prop" /\ l.name \notin s.props)
    <3>1. AtfListLine(s, l) = [s EXCEPT !.error = TRUE]
      BY <2>1, <2>4 DEF parse_properties
    <3> QED
      BY <3>1 DEF AtfListStates
  <2> QED
    BY <2>2, <2>3, <2>4
<1>4. CASE ~s.error /\ s.cur = "none" /\ l.kind = "ident"
  <2>1. AtfListLine(s, l) = [s EXCEPT !.names = @ \cup {l.name}, !.cur = l.name, !.props = {}]
    BY <1>4 DEF AtfListLine
  <2>2. s.names \cup {l.name} \in SUBSET ListNames(AtfListLines)
    BY <1>1 DEF AtfListStates
  <2>3. AtfListLine(s, l) \in AtfListStates
    BY <1>1, <2>1, <2>2 DEF AtfListStates
  <2>4. AtfListLine(s, l).names = s.names \cup {l.name}
    BY <2>1 DEF AtfListStates
  <2> QED
    BY <1>4, <2>3, <2>4
<1>5. CASE ~s.error /\ s.cur = "none" /\ l.kind # "ident"
  <2>1. AtfListLine(s, l) = [s EXCEPT !.error = TRUE]
    BY <1>5 DEF AtfListLine
  <2> QED
    BY <2>1 DEF AtfListStates
<1> QED
  BY <1>2, <1>3, <1>4, <1>5

LEMMA AtfListTyped ==
  ASSUME NEW s \in AtfListStates, NEW l \in AtfListLines
  PROVE  AtfListLine(s, l) \in AtfListStates
BY AtfListNames

(* atf_list() is what its steps leave.                                       *)
LEMMA AtfListRuns ==
  ASSUME NEW lines \in Seq(AtfListLines)
  PROVE  \E f \in [0..Len(lines) -> AtfListStates] :
           /\ atf_list(lines) = f[Len(lines)] /\ f[0] = AtfList0
           /\ \A n \in 1..Len(lines) : f[n] = IF n <= 2 THEN AtfList0 ELSE AtfListLine(f[n - 1], lines[n])
<1> DEFINE N == Len(lines)
           move == [n \in 1..N |-> [s \in AtfListStates |->
                      (IF n <= 2 THEN AtfList0 ELSE AtfListLine(s, lines[n]))]]
           Follows(f) == f = [n \in 0..Len(lines) |-> IF n <= 2 THEN AtfList0
                                                    ELSE AtfListLine(f[n - 1], lines[n])]
<1>1. N \in Nat /\ \A n \in 1..N : lines[n] \in AtfListLines
  OBVIOUS
<1> HIDE DEF N
<1>2. AtfList0 \in AtfListStates
  BY DEF AtfList0, AtfListStates
<1>3. \A n \in 1..N : \A s \in AtfListStates :
        (IF n <= 2 THEN AtfList0 ELSE AtfListLine(s, lines[n])) \in AtfListStates
  BY <1>1, <1>2, AtfListTyped
<1>4. PICK f : Goes(f, N, AtfListStates, AtfList0, move)
  <2>1. move \in [1..N -> [AtfListStates -> AtfListStates]]
    BY <1>3
  <2> HIDE DEF move
  <2> QED
    BY <1>1, <1>2, <2>1, StepsExist
<1>5. f \in [0..N -> AtfListStates] /\ f[0] = AtfList0 /\ \A n \in 1..N : f[n] = move[n][f[n - 1]]
  BY <1>4 DEF Goes
<1>6. Follows(f)
  <2>1. f = [n \in 0..N |-> f[n]]
    BY <1>5
  <2>2. ASSUME NEW n \in 0..N
        PROVE  f[n] = IF n <= 2 THEN AtfList0 ELSE AtfListLine(f[n - 1], lines[n])
    <3>1. CASE n # 0
      <4>1. n \in 1..N /\ n - 1 \in 0..N
        BY <1>1, <3>1
      <4>2. f[n - 1] \in AtfListStates
        BY <1>5, <4>1
      <4>3. f[n] = move[n][f[n - 1]]
        BY <1>5, <4>1
      <4> QED
        BY <3>1, <4>1, <4>2, <4>3
    <3> QED
      BY <1>5, <3>1
  <2> QED
    BY <2>1, <2>2 DEF N
<1>7. Follows(CHOOSE g : Follows(g))
  BY <1>6, Zenon
<1> DEFINE h == CHOOSE g : Follows(g)
<1>8. atf_list(lines) = h[N]
  BY DEF atf_list, N
<1>9. Follows(h)
  BY <1>7
<1> HIDE DEF h
<1>10. /\ h[0] = AtfList0
       /\ \A n \in 1..N : h[n] = IF n <= 2 THEN AtfList0 ELSE AtfListLine(h[n - 1], lines[n])
  BY <1>1, <1>9 DEF N
<1>11. h \in [0..N -> AtfListStates]
  <2> DEFINE T == {n \in 0..N : h[n] \in AtfListStates}
  <2>1. 0 \in T
    BY <1>1, <1>2, <1>10
  <2>2. ASSUME NEW n \in 1..N, n - 1 \in T
        PROVE  n \in T
    BY <1>3, <1>10, <2>2
  <2>3. \A n \in 0..N : n \in T
    <3> HIDE DEF T
    <3> QED
      BY <1>1, <2>1, <2>2, Upto
  <2>4. h = [n \in 0..N |-> h[n]]
    BY <1>9 DEF N
  <2> QED
    BY <2>3, <2>4
<1> QED
  BY <1>8, <1>10, <1>11 DEF N


(* A list without error has the names of all its test cases, the first two   *)
(* lines being the header.                                                   *)
AtfListMeans(s, lines, n) ==
  ~s.error => s.names = {lines[i].name : i \in {k \in 3..n : lines[k].kind = "ident"}}

(* What parse_atf_list() has found when it is through.                       *)
LEMMA AtfListIsRight ==
  ASSUME NEW lines \in Seq(AtfListLines)
  PROVE  AtfListMeans(atf_list(lines), lines, Len(lines))
<1> DEFINE N == Len(lines)
<1>1. N \in Nat /\ \A n \in 1..N : lines[n] \in AtfListLines
  OBVIOUS
<1>2. PICK f \in [0..N -> AtfListStates] :
        /\ atf_list(lines) = f[N] /\ f[0] = AtfList0
        /\ \A n \in 1..N : f[n] = IF n <= 2 THEN AtfList0 ELSE AtfListLine(f[n - 1], lines[n])
  BY AtfListRuns
<1> HIDE DEF N
<1> DEFINE T == {n \in 0..N : AtfListMeans(f[n], lines, n)}
<1>3. \A n \in 0..2 : AtfListMeans(AtfList0, lines, n)
  BY DEF AtfListMeans, AtfList0
<1>4. 0 \in T
  BY <1>1, <1>2, <1>3
<1>5. ASSUME NEW n \in 1..N, n - 1 \in T
      PROVE  n \in T
  <2>1. n \in Nat /\ n - 1 \in 0..N /\ f[n - 1] \in AtfListStates
    BY <1>1
  <2>2. CASE n <= 2
    <3>1. n \in 0..2 /\ f[n] = AtfList0
      BY <1>2, <2>1, <2>2
    <3> QED
      BY <1>3, <3>1
  <2>3. CASE n > 2
    <3> DEFINE Idents(m) == {k \in 3..m : lines[k].kind = "ident"}
    <3>1. f[n] = AtfListLine(f[n - 1], lines[n])
      BY <1>2, <2>1, <2>3
    <3>2. 3..n = 3..(n - 1) \cup {n}
      BY <2>1, <2>3
    <3>3. SUFFICES ASSUME ~f[n].error
                   PROVE  f[n].names = {lines[i].name : i \in Idents(n)}
      BY DEF AtfListMeans
    <3>4. /\ ~f[n - 1].error
          /\ f[n].names = IF lines[n].kind = "ident" THEN f[n - 1].names \cup {lines[n].name}
                          ELSE f[n - 1].names
      <4>1. f[n - 1] \in AtfListStates /\ lines[n] \in AtfListLines
        BY <1>1, <2>1
      <4> DEFINE next == AtfListLine(f[n - 1], lines[n])
      <4>2. ~next.error =>
              /\ ~f[n - 1].error
              /\ next.names = IF lines[n].kind = "ident" THEN f[n - 1].names \cup {lines[n].name}
                              ELSE f[n - 1].names
        BY <4>1, AtfListNames
      <4> HIDE DEF next
      <4>3. f[n] = next
        BY <3>1 DEF next
      <4> QED
        BY <3>3, <4>2, <4>3
    <3>5. f[n - 1].names = {lines[i].name : i \in Idents(n - 1)}
      BY <1>5, <3>4 DEF AtfListMeans
    <3>6. CASE lines[n].kind = "ident"
      <4>1. Idents(n) = Idents(n - 1) \cup {n}
        BY <3>2, <3>6
      <4> HIDE DEF Idents
      <4> QED
        BY <3>4, <3>5, <3>6, <4>1
    <3>7. CASE lines[n].kind # "ident"
      <4>1. Idents(n) = Idents(n - 1)
        BY <3>2, <3>7
      <4> HIDE DEF Idents
      <4> QED
        BY <3>4, <3>5, <3>7, <4>1
    <3> QED
      BY <3>6, <3>7
  <2> QED
    BY <2>1, <2>2, <2>3
<1>6. N \in T
  <2>1. N \in 0..N
    BY <1>1
  <2> HIDE DEF T
  <2> QED
    BY <1>1, <1>4, <1>5, <2>1, Upto
<1> QED
  BY <1>1, <1>2, <1>6 DEF N

(* One line of "program --gtest_list_tests".                                 *)
LEMMA GtestListTyped ==
  ASSUME NEW s \in GtestListStates, NEW l \in GtestListLines
  PROVE  GtestListLine(s, l) \in GtestListStates
<1>1. l.name \in ListNames(GtestListLines)
  BY DEF ListNames
<1>2. CASE l.kind = "case" /\ s.suite # "none"
  <2>1. <<s.suite, l.name>> \in Pairs
    BY <1>1, <1>2 DEF GtestListStates, Pairs
  <2>2. s.names \cup {<<s.suite, l.name>>} \in SUBSET Pairs
    BY <2>1 DEF GtestListStates
  <2>3. GtestListLine(s, l) \in {s, [s EXCEPT !.names = @ \cup {<<s.suite, l.name>>}]}
    BY <1>2 DEF GtestListLine
  <2> QED
    BY <2>2, <2>3 DEF GtestListStates
<1>3. CASE ~(l.kind = "case" /\ s.suite # "none")
  <2>1. GtestListLine(s, l) \in {s, [s EXCEPT !.error = TRUE], [s EXCEPT !.suite = l.name]}
    BY <1>3 DEF GtestListLine
  <2> QED
    BY <1>1, <2>1 DEF GtestListStates
<1> QED
  BY <1>2, <1>3

(* gtest_list() is what its steps leave.                                     *)
LEMMA GtestListRuns ==
  ASSUME NEW lines \in Seq(GtestListLines)
  PROVE  \E f \in [0..Len(lines) -> GtestListStates] :
           /\ gtest_list(lines) = f[Len(lines)] /\ f[0] = GtestList0
           /\ \A n \in 1..Len(lines) : f[n] = GtestListLine(f[n - 1], lines[n])
<1> DEFINE N == Len(lines)
           move == [n \in 1..N |-> [s \in GtestListStates |-> GtestListLine(s, lines[n])]]
           Follows(f) == f = [n \in 0..Len(lines) |-> IF n = 0 THEN GtestList0
                                                    ELSE GtestListLine(f[n - 1], lines[n])]
<1>1. N \in Nat /\ \A n \in 1..N : lines[n] \in GtestListLines
  OBVIOUS
<1> HIDE DEF N
<1>2. GtestList0 \in GtestListStates
  BY DEF GtestList0, GtestListStates
<1>3. \A n \in 1..N : \A s \in GtestListStates : GtestListLine(s, lines[n]) \in GtestListStates
  BY <1>1, <1>2, GtestListTyped
<1>4. PICK f : Goes(f, N, GtestListStates, GtestList0, move)
  <2>1. move \in [1..N -> [GtestListStates -> GtestListStates]]
    BY <1>3
  <2> HIDE DEF move
  <2> QED
    BY <1>1, <1>2, <2>1, StepsExist
<1>5. f \in [0..N -> GtestListStates] /\ f[0] = GtestList0 /\ \A n \in 1..N : f[n] = move[n][f[n - 1]]
  BY <1>4 DEF Goes
<1>6. Follows(f)
  <2>1. f = [n \in 0..N |-> f[n]]
    BY <1>5
  <2>2. ASSUME NEW n \in 0..N
        PROVE  f[n] = IF n = 0 THEN GtestList0 ELSE GtestListLine(f[n - 1], lines[n])
    <3>1. CASE n # 0
      <4>1. n \in 1..N /\ n - 1 \in 0..N
        BY <1>1, <3>1
      <4>2. f[n - 1] \in GtestListStates
        BY <1>5, <4>1
      <4>3. f[n] = move[n][f[n - 1]]
        BY <1>5, <4>1
      <4> QED
        BY <3>1, <4>1, <4>2, <4>3
    <3> QED
      BY <1>5, <3>1
  <2> QED
    BY <2>1, <2>2 DEF N
<1>7. Follows(CHOOSE g : Follows(g))
  BY <1>6, Zenon
<1> DEFINE h == CHOOSE g : Follows(g)
<1>8. gtest_list(lines) = h[N]
  BY DEF gtest_list, N
<1>9. Follows(h)
  BY <1>7
<1> HIDE DEF h
<1>10. h[0] = GtestList0 /\ \A n \in 1..N : h[n] = GtestListLine(h[n - 1], lines[n])
  BY <1>1, <1>9 DEF N
<1>11. h \in [0..N -> GtestListStates]
  <2> DEFINE T == {n \in 0..N : h[n] \in GtestListStates}
  <2>1. 0 \in T
    BY <1>1, <1>2, <1>10
  <2>2. ASSUME NEW n \in 1..N, n - 1 \in T
        PROVE  n \in T
    BY <1>3, <1>10, <2>2
  <2>3. \A n \in 0..N : n \in T
    <3> HIDE DEF T
    <3> QED
      BY <1>1, <2>1, <2>2, Upto
  <2>4. h = [n \in 0..N |-> h[n]]
    BY <1>9 DEF N
  <2> QED
    BY <2>3, <2>4
<1> QED
  BY <1>8, <1>10, <1>11 DEF N


(* The suite of the i-th line: the last one up to there.                     *)
SuitesUpTo(lines, i) == {k \in 1..i : lines[k].kind = "suite"}
SuiteLine(lines, i) == CHOOSE k \in SuitesUpTo(lines, i) : \A m \in SuitesUpTo(lines, i) : m <= k
CasesIn(lines, n) == {i \in 1..n : lines[i].kind = "case"}
FullName(lines, i) == <<lines[SuiteLine(lines, i)].name, lines[i].name>>

(* A list without error has every test case under its suite, and the suite   *)
(* of the lines to come is the last one seen.                                *)
GtestListMeans(s, lines, n) ==
  ~s.error =>
    /\ s.names = {FullName(lines, i) : i \in CasesIn(lines, n)}
    /\ s.suite # "none" => \E k \in 1..n :
         /\ lines[k].kind = "suite" /\ s.suite = lines[k].name
         /\ \A m \in 1..n : lines[m].kind = "suite" => m <= k

LEMMA GtestListStep ==
  ASSUME NEW lines, NEW n \in Nat \ {0}, NEW s \in GtestListStates, GtestListMeans(s, lines, n - 1)
  PROVE  GtestListMeans(GtestListLine(s, lines[n]), lines, n)
<1> DEFINE l == lines[n]
           t == GtestListLine(s, l)
<1>1. n \in 1..n /\ 1..n = 1..(n - 1) \cup {n} /\ \A k \in 1..n : k <= n
  OBVIOUS
<1>2. CASE s.error
  BY <1>2 DEF GtestListLine, GtestListMeans
<1>3. CASE ~s.error /\ l.kind = "case" /\ s.suite = "none"
  <2>1. t = [s EXCEPT !.error = TRUE]
    BY <1>3 DEF GtestListLine
  <2>2. t.error
    BY <2>1 DEF GtestListStates
  <2> QED
    BY <2>2 DEF GtestListMeans
<1>4. CASE ~s.error /\ l.kind = "case" /\ s.suite # "none"
  <2>1. t = [s EXCEPT !.names = @ \cup {<<s.suite, l.name>>}]
    BY <1>4 DEF GtestListLine
  <2>2. ~t.error /\ t.suite = s.suite /\ t.names = s.names \cup {<<s.suite, l.name>>}
    BY <1>4, <2>1 DEF GtestListStates
  <2>3. PICK k \in 1..(n - 1) :
          /\ lines[k].kind = "suite" /\ s.suite = lines[k].name
          /\ \A m \in 1..(n - 1) : lines[m].kind = "suite" => m <= k
    BY <1>4 DEF GtestListMeans
  <2>4. k \in 1..n /\ \A m \in 1..n : lines[m].kind = "suite" => m <= k
    BY <1>1, <1>4, <2>3
  <2>5. SuiteLine(lines, n) = k
    <3> DEFINE suites == {j \in 1..n : lines[j].kind = "suite"}
    <3>1. k \in suites /\ \A m \in suites : m <= k
      BY <2>3, <2>4
    <3>2. \A j \in suites : (\A m \in suites : m <= j) => j = k
      BY <3>1
    <3> HIDE DEF suites
    <3>3. (CHOOSE j \in suites : \A m \in suites : m <= j) = k
      BY <3>1, <3>2
    <3> QED
      BY <3>3 DEF SuiteLine, SuitesUpTo, suites
  <2>6. FullName(lines, n) = <<s.suite, l.name>>
    BY <2>3, <2>5 DEF FullName
  <2>7. CasesIn(lines, n) = CasesIn(lines, n - 1) \cup {n}
    BY <1>1, <1>4 DEF CasesIn
  <2>8. s.names = {FullName(lines, i) : i \in CasesIn(lines, n - 1)}
    BY <1>4 DEF GtestListMeans
  <2>9. t.names = {FullName(lines, i) : i \in CasesIn(lines, n)}
    <3> HIDE DEF t
    <3> QED
      BY <2>2, <2>6, <2>7, <2>8
  <2>10. GtestListMeans(t, lines, n)
    <3> HIDE DEF t
    <3> QED
      BY <2>2, <2>3, <2>4, <2>9 DEF GtestListMeans
  <2> QED
    BY <2>10
<1>5. CASE ~s.error /\ l.kind = "suite"
  <2>1. t = [s EXCEPT !.suite = l.name]
    BY <1>5 DEF GtestListLine
  <2>2. ~t.error /\ t.suite = l.name /\ t.names = s.names
    BY <1>5, <2>1 DEF GtestListStates
  <2>3. CasesIn(lines, n) = CasesIn(lines, n - 1)
    BY <1>1, <1>5 DEF CasesIn
  <2>4. t.names = {FullName(lines, i) : i \in CasesIn(lines, n)}
    BY <1>5, <2>2, <2>3 DEF GtestListMeans
  <2>5. GtestListMeans(t, lines, n)
    <3> HIDE DEF t
    <3> QED
      BY <1>1, <1>5, <2>2, <2>4 DEF GtestListMeans
  <2> QED
    BY <2>5
<1>6. CASE ~s.error /\ l.kind \notin {"case", "suite"}
  <2>1. t = s
    BY <1>6 DEF GtestListLine
  <2>2. CasesIn(lines, n) = CasesIn(lines, n - 1)
    BY <1>1, <1>6 DEF CasesIn
  <2>3. s.names = {FullName(lines, i) : i \in CasesIn(lines, n)}
    BY <1>6, <2>2 DEF GtestListMeans
  <2>4. GtestListMeans(s, lines, n)
    BY <1>1, <1>6, <2>3 DEF GtestListMeans
  <2> QED
    BY <2>1, <2>4
<1> QED
  BY <1>2, <1>3, <1>4, <1>5, <1>6

(* What parse_googletest_list() has found when it is through.                *)
LEMMA GtestListIsRight ==
  ASSUME NEW lines \in Seq(GtestListLines)
  PROVE  GtestListMeans(gtest_list(lines), lines, Len(lines))
<1> DEFINE N == Len(lines)
<1>1. N \in Nat
  OBVIOUS
<1>2. PICK f \in [0..N -> GtestListStates] :
        /\ gtest_list(lines) = f[N] /\ f[0] = GtestList0
        /\ \A n \in 1..N : f[n] = GtestListLine(f[n - 1], lines[n])
  BY GtestListRuns
<1> HIDE DEF N
<1> DEFINE T == {n \in 0..N : GtestListMeans(f[n], lines, n)}
<1>3. 0 \in T
  <2>1. CasesIn(lines, 0) = {}
    BY DEF CasesIn
  <2>2. {FullName(lines, i) : i \in CasesIn(lines, 0)} = {}
    BY <2>1
  <2>3. GtestListMeans(GtestList0, lines, 0)
    BY <2>2 DEF GtestListMeans, GtestList0
  <2> QED
    BY <1>1, <1>2, <2>3
<1>4. ASSUME NEW n \in 1..N, n - 1 \in T
      PROVE  n \in T
  <2>1. f[n - 1] \in GtestListStates /\ n \in Nat \ {0} /\ GtestListMeans(f[n - 1], lines, n - 1)
    BY <1>1, <1>4
  <2>2. GtestListMeans(GtestListLine(f[n - 1], lines[n]), lines, n)
    BY <2>1, GtestListStep
  <2>3. f[n] = GtestListLine(f[n - 1], lines[n])
    BY <1>2
  <2> QED
    BY <2>2, <2>3
<1>5. N \in T
  <2>1. N \in 0..N
    BY <1>1
  <2> HIDE DEF T
  <2> QED
    BY <1>1, <1>3, <1>4, <2>1, Upto
<1> QED
  BY <1>1, <1>2, <1>5 DEF N

(* What is said of a program follows from what it wrote and how it ended.    *)
JudgedInv ==
  /\ job \in Jobs /\ cut \in BOOLEAN /\ out \in Seq(Lines(job)) /\ (cut => out # <<>>)
  /\ status.how \in {"running", "timeout", "exited", "signaled"}
  /\ status.how = "running" <=> status = Running
  /\ status.how = "timeout" <=> status = TimedOut
  /\ verdict # Pending => status # Running
  /\ Tested => verdict = compute_result(job.iface, status)
  /\ Listed => parse_list(job.iface, status).ok /\ names = parse_list(job.iface, status).names

(* As long as nothing more is written, the parsers say the same.             *)
LEMMA SameWords ==
  ASSUME UNCHANGED <<job, out, cut, stderr, status>>
  PROVE  /\ compute_result(job.iface, status)' = compute_result(job.iface, status)
         /\ parse_list(job.iface, status)' = parse_list(job.iface, status)
<1>1. parse_gtest' = parse_gtest
  BY DEF parse_gtest
<1>2. parse_tap_output' = parse_tap_output
  BY DEF parse_tap_output
<1>3. parse_atf' = parse_atf
  BY DEF parse_atf, read_lines
<1>4. parse_atf_list' = parse_atf_list
  BY DEF parse_atf_list, Complete
<1>5. parse_googletest_list' = parse_googletest_list
  BY DEF parse_googletest_list, Complete
<1>6. \A st : calculate_googletest_result(st)' = calculate_googletest_result(st)
  BY <1>1 DEF calculate_googletest_result
<1>7. compute_gtest(status)' = compute_gtest(status)
  BY <1>6 DEF compute_gtest
<1> QED
  BY <1>1, <1>2, <1>3, <1>4, <1>5
     DEF compute_result, compute_plain, compute_tap, compute_gtest, calculate_atf_result,
         calculate_googletest_result, parse_list, parse_list_atf, parse_list_googletest

(* Every step of the program, and of who judges it, keeps the invariant.     *)
LEMMA JudgedStarts == ASSUME ProgramInit PROVE JudgedInv
<1>1. out \in Seq(Lines(job))
  BY DEF ProgramInit
<1> QED
  BY <1>1 DEF ProgramInit, JudgedInv, Tested, Listed, Pending, Running, TimedOut

LEMMA WriteKeeps == ASSUME JudgedInv, Write PROVE JudgedInv'
<1>1. PICK l \in Lines(job) : out' = Append(out, l)
  BY DEF Write
<1>2. status = Running /\ cut' \in BOOLEAN /\ UNCHANGED <<job, status, verdict>>
  BY DEF Write
<1>3. Lines(job)' = Lines(job)
  BY <1>2 DEF Lines
<1>4. out' \in Seq(Lines(job)) /\ out' # <<>>
  BY <1>1 DEF JudgedInv
<1>5. verdict = Pending
  BY <1>2 DEF JudgedInv
<1> QED
  BY <1>2, <1>3, <1>4, <1>5 DEF JudgedInv, Tested, Listed, Pending

LEMMA EndKeeps == ASSUME JudgedInv, End PROVE JudgedInv'
<1>1. status = Running /\ status' \in Statuses /\ UNCHANGED <<job, out, cut, verdict>>
  BY DEF End
<1>2. /\ status'.how \in {"timeout", "exited", "signaled"}
      /\ status'.how = "timeout" <=> status' = TimedOut
  <2>1. \/ \E c : status' = Exited(c)
        \/ \E s : status' = Signaled(s)
        \/ status' = TimedOut
    BY <1>1 DEF Statuses
  <2> QED
    BY <2>1 DEF Exited, Signaled, TimedOut
<1>3. verdict = Pending
  BY <1>1 DEF JudgedInv
<1>4. Lines(job)' = Lines(job)
  BY <1>1 DEF Lines
<1> QED
  BY <1>1, <1>2, <1>3, <1>4 DEF JudgedInv, Tested, Listed, Pending, Running

LEMMA ComputeResultKeeps == ASSUME JudgedInv, ComputeResult PROVE JudgedInv'
<1>1. /\ status # Running /\ job.mode = "test" /\ verdict' = compute_result(job.iface, status)
      /\ UNCHANGED <<job, out, cut, stderr, status>>
  BY DEF ComputeResult
<1>2. Lines(job)' = Lines(job)
  BY <1>1 DEF Lines
<1>3. compute_result(job.iface, status)' = compute_result(job.iface, status)
  BY <1>1, SameWords
<1>4. Tested' => verdict' = compute_result(job.iface, status)'
  BY <1>1, <1>3
<1>5. ~Listed'
  BY <1>1 DEF Listed
<1> QED
  BY <1>1, <1>2, <1>4, <1>5 DEF JudgedInv

LEMMA ParseListKeeps == ASSUME JudgedInv, ParseList PROVE JudgedInv'
<1>1. /\ status # Running /\ job.mode = "list"
      /\ verdict' = (IF parse_list(job.iface, status).ok THEN "listed" ELSE "error")
      /\ names' = parse_list(job.iface, status).names
      /\ UNCHANGED <<job, out, cut, stderr, status>>
  BY DEF ParseList
<1>2. Lines(job)' = Lines(job)
  BY <1>1 DEF Lines
<1>3. parse_list(job.iface, status)' = parse_list(job.iface, status)
  BY <1>1, SameWords
<1>4. ~Tested'
  BY <1>1 DEF Tested
<1>5. Listed' => parse_list(job.iface, status).ok' /\ names' = parse_list(job.iface, status).names'
  BY <1>1, <1>3 DEF Listed
<1> QED
  BY <1>1, <1>2, <1>4, <1>5 DEF JudgedInv

LEMMA StutterJudged == ASSUME JudgedInv, UNCHANGED program_vars PROVE JudgedInv'
<1>1. UNCHANGED <<job, out, cut, stderr, status, verdict, names>>
  BY DEF program_vars
<1>2. Lines(job)' = Lines(job)
  BY <1>1 DEF Lines
<1>3. /\ compute_result(job.iface, status)' = compute_result(job.iface, status)
      /\ parse_list(job.iface, status)' = parse_list(job.iface, status)
  BY <1>1, SameWords
<1> QED
  BY <1>1, <1>2, <1>3 DEF JudgedInv, Tested, Listed

LEMMA JudgedAlways == ProgramSpec => []JudgedInv
<1>1. ProgramInit => JudgedInv
  BY JudgedStarts
<1>2. JudgedInv /\ [ProgramNext]_program_vars => JudgedInv'
  BY WriteKeeps, EndKeeps, ComputeResultKeeps, ParseListKeeps, StutterJudged DEF ProgramNext
<1> QED
  BY <1>1, <1>2, PTL DEF ProgramSpec

(* What the verdict on an ATF test says of the only line it wrote.           *)
LEMMA AtfLineRead ==
  ASSUME out \in Seq(AtfLines), parse_atf # FormatError, parse_atf # OutOfRange
  PROVE  /\ read_lines = 1
         /\ parse_atf.type = out[1].word
         /\ \/ out[1].word = "passed" /\ out[1].form = "none"
            \/ out[1].word \in AtfWithReason /\ out[1].form = "reason"
            \/ /\ out[1].word \in AtfWithArg /\ out[1].form \in {"arg", "open", "blank", "reason"}
               /\ out[1].form \in {"arg", "open"} => out[1].arg # BadArg
               /\ parse_atf.arg = IF out[1].form \in {"arg", "open"} THEN out[1].arg ELSE NoArg
<1> DEFINE l == out[1]
<1>1. read_lines = 1
  BY DEF parse_atf
<1>2. CASE l.word \in AtfWithReason
  <2>1. parse_atf = parse_with_reason(l)
    BY <1>1, <1>2 DEF parse_atf, AtfWithReason, AtfWithArg
  <2>2. l.form = "reason" /\ parse_atf.type = l.word
    BY <2>1 DEF parse_with_reason, atf
  <2> QED
    BY <1>1, <1>2, <2>2
<1>3. CASE l.word \in AtfWithArg
  <2>1. parse_atf = parse_with_reason_and_arg(l)
    BY <1>1, <1>3 DEF parse_atf, AtfWithReason, AtfWithArg
  <2>2. /\ l.form \notin {"none", "junk", "colon", "argcolon"}
        /\ ~(l.form \in {"arg", "open"} /\ l.arg = BadArg)
        /\ parse_atf = atf(l.word, IF l.form \in {"arg", "open"} THEN l.arg ELSE NoArg)
    BY <2>1 DEF parse_with_reason_and_arg
  <2>3. l.form \in {"arg", "open", "blank", "reason"}
    <3>1. l \in AtfLines
      BY <1>1 DEF read_lines
    <3> QED
      BY <2>2, <3>1, AtfLinesAssumption
  <2> QED
    BY <1>1, <1>3, <2>2, <2>3 DEF atf
<1>4. CASE l.word = "passed"
  <2>1. parse_atf = parse_without_reason(l)
    BY <1>1, <1>4 DEF parse_atf, AtfWithReason, AtfWithArg
  <2>2. l.form = "none" /\ parse_atf.type = l.word
    BY <2>1 DEF parse_without_reason, atf
  <2> QED
    BY <1>1, <1>4, <2>2
<1>5. CASE l.word \notin AtfWithReason \cup AtfWithArg \cup {"passed"}
  BY <1>1, <1>5 DEF parse_atf
<1> QED
  BY <1>2, <1>3, <1>4, <1>5

(* The claims an ATF test can make, and the argument one shows.              *)
AtfTypes == AtfWithReason \cup AtfWithArg \cup {"passed"}
ShownArg(l) == IF l.form \in {"arg", "open"} THEN l.arg ELSE NoArg

(* Which claims the end of the program bears out, and what becomes of them.  *)
BorneOut(r, st) ==
  \/ st.how = "timeout" /\ r.type = "expected_timeout"
  \/ /\ st.how # "timeout"
     /\ \/ r.type = "expected_death"
        \/ r.type = "expected_exit" /\ st.how = "exited" /\ r.arg \in {NoArg, st.code}
        \/ r.type = "expected_signal" /\ st.how = "signaled" /\ r.arg \in {NoArg, st.sig}
        \/ r.type \in {"expected_failure", "passed", "skipped"} /\ Clean(st)

LEMMA AtfOutcome ==
  ASSUME NEW r, r.type \in AtfTypes, NEW st
  PROVE  good(externalize_atf(apply_atf(r, st))) <=> BorneOut(r, st)
<1> DEFINE v == apply_atf(r, st)
           ext == {"expected_death", "expected_exit", "expected_failure",
                   "expected_signal", "expected_timeout"}
           broken == atf("broken", NoArg)
           failure == atf("failed", NoArg)
<1>1. good(externalize_atf(v)) <=> v.type \in ext \cup GoodTypes
  <2> HIDE DEF v
  <2>1. CASE v.type \in ext
    BY <2>1 DEF externalize_atf, good, GoodTypes
  <2>2. CASE v.type \notin ext
    <3>1. externalize_atf(v) = v.type
      BY <2>2 DEF externalize_atf
    <3> QED
      BY <2>2, <3>1 DEF good
  <2> QED
    BY <2>1, <2>2
<1>2. broken.type \notin ext \cup GoodTypes /\ failure.type \notin ext \cup GoodTypes
  BY DEF atf, GoodTypes
<1>3. CASE st.how = "timeout"
  <2>1. v = IF r.type = "expected_timeout" THEN r ELSE broken
    BY <1>3 DEF apply_atf
  <2> QED
    BY <1>1, <1>2, <1>3, <2>1 DEF BorneOut
<1>4. CASE st.how # "timeout" /\ r.type \in {"broken", "expected_death"}
  <2>1. v = r
    BY <1>4 DEF apply_atf
  <2> QED
    BY <1>1, <1>4, <2>1 DEF BorneOut, GoodTypes
<1>5. CASE st.how # "timeout" /\ r.type = "expected_exit"
  <2>1. v = IF st.how = "exited" THEN IF r.arg \in {NoArg, st.code} THEN r ELSE failure ELSE broken
    BY <1>5 DEF apply_atf
  <2> QED
    BY <1>1, <1>2, <1>5, <2>1 DEF BorneOut
<1>6. CASE st.how # "timeout" /\ r.type = "expected_signal"
  <2>1. v = IF st.how = "signaled" THEN IF r.arg \in {NoArg, st.sig} THEN r ELSE failure ELSE broken
    BY <1>6 DEF apply_atf
  <2> QED
    BY <1>1, <1>2, <1>6, <2>1 DEF BorneOut
<1>7. CASE st.how # "timeout" /\ r.type = "expected_timeout"
  <2>1. v = broken
    BY <1>7 DEF apply_atf
  <2> QED
    BY <1>1, <1>2, <1>7, <2>1 DEF BorneOut
<1>8. CASE st.how # "timeout" /\ r.type = "failed"
  <2>1. v.type \in {"failed", "broken"}
    BY <1>8 DEF apply_atf, atf
  <2> QED
    BY <1>1, <1>8, <2>1 DEF BorneOut, GoodTypes
<1>9. CASE st.how # "timeout" /\ r.type \in {"expected_failure", "passed", "skipped"}
  <2>1. v = IF Clean(st) THEN r ELSE broken
    BY <1>9 DEF apply_atf, Clean
  <2> QED
    BY <1>1, <1>2, <1>9, <2>1 DEF BorneOut, GoodTypes
<1> QED
  BY <1>3, <1>4, <1>5, <1>6, <1>7, <1>8, <1>9 DEF AtfTypes, AtfWithReason, AtfWithArg

(* A program that earned a good result wrote one legible line.               *)
LEMMA AtfEarnedRead ==
  ASSUME out \in Seq(AtfLines), AtfEarned
  PROVE  parse_atf # FormatError /\ parse_atf # OutOfRange
<1> DEFINE l == out[1]
<1>1. Len(out) = 1 /\ read_lines = 1
  BY DEF AtfEarned, read_lines
<1>2. \/ l.word = "passed" /\ l.form = "none"
      \/ l.word \in AtfWithReason /\ l.form = "reason"
      \/ /\ l.word \in AtfWithArg /\ l.form \in {"reason", "arg", "open", "blank"}
         /\ l.form \in {"arg", "open"} => l.arg # BadArg
  BY DEF AtfEarned, AtfWithReason, AtfWithArg
<1>3. CASE l.word = "passed" /\ l.form = "none"
  <2>1. parse_atf = atf(l.word, NoArg)
    BY <1>1, <1>3 DEF parse_atf, AtfWithReason, AtfWithArg, parse_without_reason
  <2> QED
    BY <1>3, <2>1 DEF atf, FormatError, OutOfRange
<1>4. CASE l.word \in AtfWithReason /\ l.form = "reason"
  <2>1. parse_atf = atf(l.word, NoArg)
    BY <1>1, <1>4 DEF parse_atf, AtfWithReason, AtfWithArg, parse_with_reason
  <2> QED
    BY <1>4, <2>1 DEF atf, FormatError, OutOfRange, AtfWithReason
<1>5. CASE /\ l.word \in AtfWithArg /\ l.form \in {"reason", "arg", "open", "blank"}
           /\ l.form \in {"arg", "open"} => l.arg # BadArg
  <2>1. parse_atf = parse_with_reason_and_arg(l)
    BY <1>1, <1>5 DEF parse_atf, AtfWithReason, AtfWithArg
  <2>2. parse_with_reason_and_arg(l) = atf(l.word, ShownArg(l))
    BY <1>5 DEF parse_with_reason_and_arg, ShownArg
  <2> QED
    BY <1>5, <2>1, <2>2 DEF atf, FormatError, OutOfRange, AtfWithArg
<1> QED
  BY <1>2, <1>3, <1>4, <1>5

(* The four interfaces: a good verdict is what the program earned.           *)
LEMMA AtfGood ==
  ASSUME JudgedInv, out \in Seq(AtfLines)
  PROVE  good(calculate_atf_result(status)) <=> AtfEarned
<1> DEFINE l == out[1]
<1>1. CASE parse_atf = OutOfRange
  <2>1. ~ good(calculate_atf_result(status))
    BY <1>1 DEF calculate_atf_result, good, GoodTypes
  <2> QED
    BY <1>1, <2>1, AtfEarnedRead
<1>2. CASE parse_atf = FormatError
  <2>1. FormatError # OutOfRange
    BY DEF FormatError, OutOfRange
  <2>2. calculate_atf_result(status) = externalize_atf(apply_atf(atf("broken", NoArg), status))
    BY <1>2, <2>1 DEF calculate_atf_result
  <2>3. ~ good(calculate_atf_result(status))
    <3>1. atf("broken", NoArg).type = "broken"
      BY DEF atf
    <3>2. atf("broken", NoArg).type \in AtfTypes /\ ~BorneOut(atf("broken", NoArg), status)
      BY <3>1 DEF AtfTypes, AtfWithReason, BorneOut
    <3> QED
      BY <2>2, <3>2, AtfOutcome
  <2> QED
    BY <1>2, <2>3, AtfEarnedRead
<1>3. CASE parse_atf # OutOfRange /\ parse_atf # FormatError
  <2>1. calculate_atf_result(status) = externalize_atf(apply_atf(parse_atf, status))
    BY <1>3 DEF calculate_atf_result
  <2>2. /\ read_lines = 1
        /\ parse_atf.type = l.word
        /\ \/ l.word = "passed" /\ l.form = "none"
           \/ l.word \in AtfWithReason /\ l.form = "reason"
           \/ /\ l.word \in AtfWithArg /\ l.form \in {"arg", "open", "blank", "reason"}
              /\ l.form \in {"arg", "open"} => l.arg # BadArg
              /\ parse_atf.arg = ShownArg(l)
    BY <1>3, AtfLineRead DEF ShownArg
  <2>3. l.word \in AtfTypes
    BY <2>2 DEF AtfTypes
  <2>4. good(calculate_atf_result(status)) <=> BorneOut(parse_atf, status)
    BY <2>1, <2>2, <2>3, AtfOutcome
  <2>5. Len(out) = 1 /\ ~cut
    BY <2>2 DEF read_lines
  <2>6. l \in AtfLines
    BY <2>5
  <2>7. /\ l.form \in {"blank", "reason"} => l.arg = NoArg /\ l.arg # BadArg
        /\ l.form \in {"arg", "open"} => l.arg # NoArg
    BY <2>6, AtfLinesAssumption DEF NoArg, BadArg
  <2>8. status.how = "timeout" <=> status = TimedOut
    BY DEF JudgedInv
  <2>9. BorneOut(parse_atf, status) <=> AtfEarned
    <3>1. CASE l.word = "passed" /\ l.form = "none"
      BY <2>2, <2>5, <3>1 DEF BorneOut, AtfEarned, Clean, ExitedWith
    <3>2. CASE l.word \in AtfWithReason /\ l.form = "reason"
      BY <2>2, <2>5, <2>8, <3>2 DEF BorneOut, AtfEarned, Clean, ExitedWith, AtfWithReason
    <3>3. CASE /\ l.word \in AtfWithArg /\ l.form \in {"arg", "open", "blank", "reason"}
               /\ l.form \in {"arg", "open"} => l.arg # BadArg
               /\ parse_atf.arg = ShownArg(l)
      <4>1. CASE l.form \in {"arg", "open"}
        <5>1. parse_atf.arg = l.arg /\ l.arg # NoArg
          BY <2>7, <3>3, <4>1 DEF ShownArg
        <5> QED
          BY <2>2, <2>5, <3>3, <4>1, <5>1 DEF BorneOut, AtfEarned, AtfWithArg
      <4>2. CASE l.form \in {"blank", "reason"}
        <5>1. parse_atf.arg = NoArg /\ l.arg # BadArg
          BY <2>7, <3>3, <4>2 DEF ShownArg
        <5> QED
          BY <2>2, <2>5, <3>3, <4>2, <5>1 DEF BorneOut, AtfEarned, AtfWithArg
      <4> QED
        BY <3>3, <4>1, <4>2
    <3> QED
      BY <2>2, <3>1, <3>2, <3>3
  <2> QED
    BY <2>4, <2>9
<1> QED
  BY <1>1, <1>2, <1>3

LEMMA GtestGood ==
  ASSUME JudgedInv, out \in Seq(GtestLines)
  PROVE  good(compute_gtest(status)) <=> GtestEarned
<1> DEFINE s == scan(out)
           marked == {i \in DOMAIN out : out[i] \in {"ok", "failed", "skipped", "disabled"}}
<1>1. Len(out) \in Nat /\ DOMAIN out = 1..Len(out)
  OBVIOUS
<1>2. s \in ScanStates /\ ScanMeans(s, out, Len(out))
  BY ScanIsRight
<1> HIDE DEF s
<1>3. /\ s.done <=> \E i \in marked : out[i] = "disabled"
      /\ s.valid <=> marked # {}
      /\ s.done => s.status = "disabled"
      /\ s.valid /\ ~s.done =>
           \E i \in marked : /\ \A j \in marked : j <= i
                             /\ s.status = IF out[i] = "ok" THEN "successful" ELSE out[i]
  BY <1>1, <1>2 DEF ScanMeans, Marks
<1>4. s.valid => s.status \in {"disabled", "successful", "failed", "skipped"}
  BY <1>3
<1>5. /\ parse_gtest \in {"broken", "abort", "disabled", "successful", "failed", "skipped"}
      /\ parse_gtest \in {"disabled", "successful", "skipped"} <=>
           s.valid /\ s.status \in {"disabled", "successful", "skipped"}
  BY <1>4 DEF parse_gtest, s
<1>6. parse_gtest \in {"disabled", "successful", "skipped"} <=>
        /\ marked # {}
        /\ \/ \E i \in marked : out[i] = "disabled"
           \/ \E i \in marked : out[i] # "failed" /\ \A j \in marked : j <= i
  <2>1. CASE ~s.valid
    BY <1>3, <1>5, <2>1
  <2>2. CASE s.valid /\ s.done
    BY <1>3, <1>5, <2>2
  <2>3. CASE s.valid /\ ~s.done
    <3>1. PICK i \in marked : /\ \A j \in marked : j <= i
                             /\ s.status = IF out[i] = "ok" THEN "successful" ELSE out[i]
      BY <1>3, <2>3
    <3>2. \A k \in marked : (\A j \in marked : j <= k) => k = i
      <4>1. marked \subseteq Nat
        BY <1>1
      <4> HIDE DEF marked
      <4> QED
        BY <3>1, <4>1
    <3>3. s.status \in {"disabled", "successful", "skipped"} <=> out[i] # "failed"
      BY <3>1
    <3> QED
      BY <1>3, <1>5, <2>3, <3>1, <3>2, <3>3
  <2> QED
    BY <2>1, <2>2, <2>3
<1>7. good(compute_gtest(status)) <=>
        Clean(status) /\ parse_gtest \in {"disabled", "successful", "skipped"}
  <2>1. Clean(status) => status.how # "timeout"
    BY DEF Clean, ExitedWith
  <2>2. CASE status.how = "timeout"
    BY <2>1, <2>2 DEF compute_gtest, good, GoodTypes
  <2>3. CASE status.how # "timeout" /\ parse_gtest \in {"broken", "abort"}
    <3>1. apply_gtest(parse_gtest, status) = parse_gtest
      BY <2>3 DEF apply_gtest
    <3> QED
      BY <2>3, <3>1 DEF compute_gtest, calculate_googletest_result, externalize_gtest, good, GoodTypes
  <2>4. CASE status.how # "timeout" /\ parse_gtest = "failed"
    <3>1. apply_gtest(parse_gtest, status) \in {"failed", "broken"}
      BY <2>4 DEF apply_gtest
    <3> QED
      BY <2>4, <3>1 DEF compute_gtest, calculate_googletest_result, externalize_gtest, good, GoodTypes
  <2>5. CASE status.how # "timeout" /\ parse_gtest \in {"disabled", "successful", "skipped"}
    <3>1. apply_gtest(parse_gtest, status) = IF Clean(status) THEN parse_gtest ELSE "broken"
      BY <2>5 DEF apply_gtest, Clean
    <3> QED
      BY <2>5, <3>1 DEF compute_gtest, calculate_googletest_result, externalize_gtest, good, GoodTypes
  <2> QED
    BY <1>5, <2>2, <2>3, <2>4, <2>5
<1> QED
  BY <1>6, <1>7 DEF GtestEarned

(* What a run of the tap parser ends in.                                     *)
LEMMA TapGood ==
  ASSUME JudgedInv, out \in Seq(TapLines)
  PROVE  good(compute_tap(status)) <=> TapEarned
<1> DEFINE s == tally(out)
           N == Len(out)
           plans == {i \in DOMAIN out : out[i].kind \in {"plan", "skipplan"}}
           expected == s.plan[2] - s.plan[1] + 1
           mismatch == s.plan # AllSkipped /\ expected # s.ok + s.notok
<1>1. N \in Nat /\ DOMAIN out = 1..N /\ \A i \in 1..N : out[i] \in TapLines
  OBVIOUS
<1>2. s \in TapStates /\ TallyMeans(s, out, N)
  BY TallyIsRight
<1>3. Count(Resulting) = Cardinality(ResultsIn(out, N))
  BY <1>1 DEF Count, ResultsIn
<1>4. \A i, j \in plans : Cardinality(plans) = 1 => i = j
  <2> SUFFICES ASSUME NEW i \in plans, NEW j \in plans, Cardinality(plans) = 1
               PROVE  i = j
    OBVIOUS
  <2>1. IsFiniteSet(plans)
    <3>1. IsFiniteSet(1..N) /\ plans \subseteq 1..N
      BY <1>1, FS_Interval
    <3> QED
      BY <3>1, FS_Subset
  <2> HIDE DEF plans
  <2>2. \E x : plans = {x}
    BY <2>1, FS_Singleton
  <2> QED
    BY <2>2
<1>5. CASE status.how # "exited"
  BY <1>5 DEF compute_tap, good, GoodTypes, TapEarned
<1>6. CASE status.how = "exited" /\ s.bailed
  <2>1. PICK i \in 1..N : out[i].kind = "bail"
    BY <1>2, <1>6 DEF TallyMeans
  <2>2. ~TapEarned
    BY <1>1, <2>1 DEF TapEarned, Has
  <2>3. compute_tap(status) \in {"broken", "failed"}
    BY <1>2, <1>6 DEF compute_tap, parse_tap_output, tap_to_result, TapStates
  <2> QED
    BY <2>2, <2>3 DEF good, GoodTypes
<1>7. CASE status.how = "exited" /\ ~s.bailed /\ s.error
  <2>1. PICK i \in 1..N, j \in 1..N :
          /\ out[i].kind \in Planning /\ out[j].kind \in Planning
          /\ i # j \/ Wrong(out[i])
    BY <1>2, <1>7 DEF TallyMeans
  <2>2. i \in plans /\ j \in plans
    BY <1>1, <2>1 DEF Planning
  <2>3. ~TapEarned
    <3> SUFFICES ASSUME TapEarned PROVE FALSE
      OBVIOUS
    <3>1. Cardinality(plans) = 1
      BY DEF TapEarned
    <3> DEFINE c == CHOOSE k \in plans : TRUE
    <3>2. c \in plans
      BY <2>2
    <3>3. /\ \/ out[c].kind = "skipplan" /\ out[c].first = 1 /\ out[c].second = 0
             \/ out[c].kind = "plan" /\ out[c].first <= out[c].second
      BY DEF TapEarned
    <3> HIDE DEF c
    <3>4. i = j /\ i = c
      BY <1>4, <2>2, <3>1, <3>2
    <3>5. ~Wrong(out[c])
      <4>1. out[c].kind = "plan" => out[c].first \in Nat /\ out[c].second \in Nat
        BY <1>1, <3>2, TapLinesAssumption
      <4> QED
        BY <3>3, <4>1 DEF Wrong, AllSkipped
    <3> QED
      BY <2>1, <3>4, <3>5
  <2>4. compute_tap(status) = "broken"
    BY <1>2, <1>7 DEF compute_tap, parse_tap_output, TapStates
  <2> QED
    BY <2>3, <2>4 DEF good, GoodTypes
<1>8. CASE status.how = "exited" /\ ~s.bailed /\ ~s.error /\ s.plan = NoPlan
  <2>1. plans = {}
    BY <1>1, <1>2, <1>8 DEF TallyMeans, Planning
  <2>2. Cardinality(plans) # 1
    <3> HIDE DEF plans
    <3> QED
      BY <2>1, FS_EmptySet
  <2>3. ~TapEarned
    BY <2>2 DEF TapEarned
  <2>4. compute_tap(status) = "broken"
    BY <1>2, <1>8 DEF compute_tap, parse_tap_output, TapStates
  <2> QED
    BY <2>3, <2>4 DEF good, GoodTypes
<1>9. CASE status.how = "exited" /\ ~s.bailed /\ ~s.error /\ s.plan # NoPlan
  <2>1. /\ \A i \in 1..N : out[i].kind # "bail"
        /\ Cardinality(ResultsIn(out, N)) = s.ok + s.notok
        /\ s.notok > 0 <=> \E i \in 1..N : out[i].kind = "not ok"
    BY <1>2, <1>9 DEF TallyMeans
  <2>2. PICK c \in 1..N :
          /\ out[c].kind \in Planning /\ ~Wrong(out[c])
          /\ s.plan = <<out[c].first, out[c].second>>
          /\ \A j \in 1..N : out[j].kind \in Planning => j = c
    BY <1>2, <1>9 DEF TallyMeans
  <2>3. plans = {c}
    BY <1>1, <2>2 DEF Planning
  <2>4. Cardinality(plans) = 1 /\ (CHOOSE k \in plans : TRUE) = c
    <3> HIDE DEF plans
    <3>1. Cardinality(plans) = 1
      BY <2>3, FS_Singleton
    <3> QED
      BY <2>3, <3>1
  <2>5. out[c].first \in Nat /\ out[c].second \in Nat
    BY <1>1, <2>2, TapLinesAssumption DEF Planning
  <2> DEFINE one == out[c].first
             other == out[c].second
  <2>6. TapEarned <=>
          \/ out[c].kind = "skipplan" /\ one = 1 /\ other = 0
          \/ /\ out[c].kind = "plan" /\ one <= other
             /\ s.ok + s.notok = other - one + 1 /\ ~ (s.notok > 0) /\ Clean(status)
    <3>1. ~Has("bail") /\ (Has("not ok") <=> s.notok > 0)
      BY <1>1, <2>1 DEF Has
    <3>2. Count({"ok", "not ok", "todo"}) = s.ok + s.notok
      BY <1>3, <2>1 DEF Resulting
    <3> QED
      BY <1>9, <2>4, <3>1, <3>2 DEF TapEarned
  <2>7. /\ s.plan = AllSkipped <=> one = 1 /\ other = 0
        /\ expected = other - one + 1
    BY <2>2 DEF AllSkipped
  <2>8. compute_tap(status) =
          IF mismatch THEN "broken"
          ELSE IF s.plan = AllSkipped THEN "skipped"
          ELSE IF s.notok > 0 THEN "failed"
          ELSE IF status.code = ExitSuccess THEN "passed" ELSE "broken"
    <3> DEFINE r == [s EXCEPT !.error = @ \/ (~s.bailed /\ (s.plan = NoPlan \/ mismatch))]
    <3>1. parse_tap_output = r
      BY DEF parse_tap_output
    <3>2. /\ r.error <=> mismatch
          /\ r.bailed = s.bailed /\ r.plan = s.plan /\ r.notok = s.notok
      BY <1>2, <1>9 DEF TapStates
    <3> HIDE DEF r, mismatch
    <3> QED
      BY <1>9, <3>1, <3>2 DEF compute_tap, tap_to_result
  <2>9. out[c].kind = "skipplan" => one = 1 /\ other = 0
    BY <2>2 DEF Wrong, AllSkipped
  <2>10. out[c].kind = "plan" => one <= other
    BY <2>2, <2>5 DEF Wrong
  <2>11. s.ok \in Nat /\ s.notok \in Nat
    BY <1>2 DEF TapStates
  <2>12. CASE out[c].kind = "skipplan"
    <3>1. compute_tap(status) = "skipped"
      BY <2>7, <2>8, <2>9, <2>12
    <3> QED
      BY <2>6, <2>9, <2>12, <3>1 DEF good, GoodTypes
  <2>13. CASE out[c].kind = "plan"
    <3>1. s.plan # AllSkipped
      BY <2>5, <2>7, <2>10, <2>13
    <3>2. mismatch <=> s.ok + s.notok # other - one + 1
      BY <2>7, <3>1
    <3>3. Clean(status) <=> status.code = ExitSuccess
      BY <1>9 DEF Clean, ExitedWith
    <3>4. good(compute_tap(status)) <=> ~mismatch /\ ~(s.notok > 0) /\ Clean(status)
      <4> HIDE DEF mismatch
      <4> QED
        BY <2>8, <3>1, <3>3 DEF good, GoodTypes
    <3> QED
      BY <2>6, <2>10, <2>13, <3>2, <3>4
  <2> QED
    BY <2>2, <2>12, <2>13 DEF Planning
<1> QED
  BY <1>5, <1>6, <1>7, <1>8, <1>9

(* GoodIsEarned: a test is reported as good exactly when its program earned  *)
(* it, whatever it wrote and however it ended.                               *)
LEMMA JudgedAsEarned == ASSUME JudgedInv PROVE GoodIsEarned
<1> SUFFICES ASSUME Tested
             PROVE  good(compute_result(job.iface, status)) <=>
                      CASE job.iface = "plain" -> Clean(status)
                        [] job.iface = "atf" -> AtfEarned
                        [] job.iface = "googletest" -> GtestEarned
                        [] job.iface = "tap" -> TapEarned
  BY DEF GoodIsEarned, JudgedInv
<1>1. /\ job.mode = "test" /\ job.iface \in {"plain", "tap", "atf", "googletest"}
      /\ job = [iface |-> job.iface, mode |-> "test"]
  BY DEF JudgedInv, Jobs, Tested
<1>2. out \in Seq(Lines(job))
  BY DEF JudgedInv
<1>3. CASE job.iface = "plain"
  <2>1. compute_result(job.iface, status) = compute_plain(status)
    BY <1>3 DEF compute_result
  <2>2. good(compute_plain(status)) <=> Clean(status)
    BY DEF compute_plain, Clean, ExitedWith, good, GoodTypes
  <2> QED
    BY <1>3, <2>1, <2>2
<1>4. CASE job.iface = "atf"
  <2>1. Lines(job) = AtfLines
    BY <1>1, <1>4 DEF Lines
  <2>2. compute_result(job.iface, status) = calculate_atf_result(status)
    BY <1>4 DEF compute_result
  <2> QED
    BY <1>2, <1>4, <2>1, <2>2, AtfGood
<1>5. CASE job.iface = "googletest"
  <2>1. Lines(job) = GtestLines
    BY <1>1, <1>5 DEF Lines
  <2>2. compute_result(job.iface, status) = compute_gtest(status)
    BY <1>5 DEF compute_result
  <2> QED
    BY <1>2, <1>5, <2>1, <2>2, GtestGood
<1>6. CASE job.iface = "tap"
  <2>1. Lines(job) = TapLines
    BY <1>1, <1>6 DEF Lines
  <2>2. compute_result(job.iface, status) = compute_tap(status)
    BY <1>6 DEF compute_result
  <2> QED
    BY <1>2, <1>6, <2>1, <2>2, TapGood
<1> QED
  BY <1>1, <1>3, <1>4, <1>5, <1>6

THEOREM ResultsAreEarned == ProgramSpec => []GoodIsEarned
<1>1. JudgedInv => GoodIsEarned
  BY JudgedAsEarned
<1> QED
  BY <1>1, JudgedAlways, PTL

(* What becomes of the claim of an ATF test that did not exit.               *)
LEMMA AtfDeath ==
  ASSUME status.how \in {"timeout", "signaled"}, out \in Seq(AtfLines)
  PROVE  \/ calculate_atf_result(status) \in {"escape", "broken", "expected_failure"}
         \/ status.how = "signaled" /\ out[1].word = "expected_signal"
<1> DEFINE r == IF parse_atf = FormatError THEN atf("broken", NoArg) ELSE parse_atf
           v == apply_atf(r, status)
<1>1. CASE parse_atf = OutOfRange
  BY <1>1 DEF calculate_atf_result
<1>2. CASE parse_atf # OutOfRange
  <2>1. calculate_atf_result(status) = externalize_atf(v)
    BY <1>2 DEF calculate_atf_result
  <2>2. r.type \in AtfTypes /\ (r.type = "expected_signal" => out[1].word = "expected_signal")
    <3>1. atf("broken", NoArg).type = "broken"
      BY DEF atf
    <3>2. CASE parse_atf = FormatError
      BY <3>1, <3>2 DEF AtfTypes, AtfWithReason
    <3>3. CASE parse_atf # FormatError
      <4>1. r.type = out[1].word /\ out[1].word \in AtfTypes
        BY <1>2, <3>3, AtfLineRead DEF AtfTypes
      <4> QED
        BY <4>1
    <3> QED
      BY <3>2, <3>3
  <2> HIDE DEF r
  <2>3. \/ v.type \in {"broken", "expected_death", "expected_timeout"}
        \/ status.how = "signaled" /\ r.type = "expected_signal"
    <3>1. CASE status.how = "timeout"
      BY <3>1 DEF apply_atf, atf
    <3>2. CASE status.how = "signaled" /\ r.type = "expected_signal"
      BY <3>2
    <3>3. CASE status.how = "signaled" /\ r.type # "expected_signal"
      <4>1. r.type \in AtfWithReason \cup {"expected_exit", "passed"}
        BY <2>2, <3>3 DEF AtfTypes, AtfWithArg
      <4>2. v \in {atf("broken", NoArg)} \cup {x \in {r} : x.type \in {"broken", "expected_death"}}
        BY <3>3, <4>1 DEF apply_atf, ExitedWith, AtfWithReason
      <4> QED
        BY <4>2 DEF atf
    <3> QED
      BY <3>1, <3>2, <3>3
  <2>4. v.type \in {"broken", "expected_death", "expected_timeout"} =>
          externalize_atf(v) \in {"broken", "expected_failure"}
    BY DEF externalize_atf
  <2> QED
    BY <2>1, <2>2, <2>3, <2>4
<1> QED
  BY <1>1, <1>2

(* DeathIsBroken: whatever it wrote before, a program that died of a signal  *)
(* or timed out has not failed.                                              *)
LEMMA JudgedOfDeath == ASSUME JudgedInv PROVE DeathIsBroken
<1> SUFFICES ASSUME Tested, status.how # "exited", verdict \notin {"escape", "abort"}
             PROVE  \/ verdict = "broken"
                    \/ job.iface = "atf" /\ verdict = "expected_failure"
                    \/ job.iface = "atf" /\ status.how = "signaled" /\ out[1].word = "expected_signal"
  BY DEF DeathIsBroken
<1>1. /\ status.how \in {"timeout", "signaled"} /\ verdict = compute_result(job.iface, status)
      /\ job.iface \in {"plain", "tap", "atf", "googletest"}
      /\ job = [iface |-> job.iface, mode |-> "test"] /\ out \in Seq(Lines(job))
  BY DEF JudgedInv, Jobs, Tested
<1>2. CASE job.iface = "plain"
  BY <1>1, <1>2 DEF compute_result, compute_plain
<1>3. CASE job.iface = "tap"
  <2>1. verdict = compute_tap(status)
    BY <1>1, <1>3 DEF compute_result
  <2> QED
    BY <1>1, <2>1 DEF compute_tap
<1>4. CASE job.iface = "atf"
  <2>1. verdict = calculate_atf_result(status)
    BY <1>1, <1>4 DEF compute_result
  <2>2. Lines(job) = AtfLines
    BY <1>1, <1>4 DEF Lines
  <2> QED
    BY <1>1, <1>4, <2>1, <2>2, AtfDeath
<1>5. CASE job.iface = "googletest"
  <2>1. verdict = compute_gtest(status)
    BY <1>1, <1>5 DEF compute_result
  <2>2. ~ ExitedWith(status, ExitFailure) /\ ~ ExitedWith(status, ExitSuccess)
    BY <1>1 DEF ExitedWith
  <2>3. apply_gtest(parse_gtest, status) \in {"broken", "abort"}
    BY <2>2 DEF apply_gtest
  <2>4. calculate_googletest_result(status) \in {"broken", "abort"}
    BY <2>3 DEF calculate_googletest_result, externalize_gtest
  <2> QED
    BY <2>1, <2>4 DEF compute_gtest
<1> QED
  BY <1>1, <1>2, <1>3, <1>4, <1>5

THEOREM DeathIsNoFailure == ProgramSpec => []DeathIsBroken
<1>1. JudgedInv => DeathIsBroken
  BY JudgedOfDeath
<1> QED
  BY <1>1, JudgedAlways, PTL

(* The complete lines of a listing program are lines of its.                 *)
LEMMA CompleteLines ==
  ASSUME NEW L, out \in Seq(L), cut => out # <<>>
  PROVE  Complete \in Seq(L)
<1>1. CASE cut
  <2>1. Complete = SubSeq(out, 1, Len(out) - 1)
    BY <1>1 DEF Complete, Front
  <2> QED
    BY <1>1, <2>1
<1>2. CASE ~cut
  BY <1>2 DEF Complete
<1> QED
  BY <1>1, <1>2

(* ListIsComplete: an accepted list has the test cases announced on complete *)
(* lines and no other.                                                       *)
LEMMA JudgedAsListed == ASSUME JudgedInv PROVE ListIsComplete
<1> DEFINE suite(i) == {k \in 1..i : Complete[k].kind = "suite"}
           named(i) == IF job.iface = "atf" THEN Complete[i].name
                       ELSE <<Complete[CHOOSE k \in suite(i) : \A m \in suite(i) : m <= k].name,
                              Complete[i].name>>
           cases == {k \in DOMAIN Complete :
                       Complete[k].kind = IF job.iface = "atf" THEN "ident" ELSE "case"}
           N == Len(Complete)
<1> SUFFICES ASSUME Listed, job.iface \in {"atf", "googletest"}
             PROVE  Clean(status) /\ names # {} /\ names = {named(i) : i \in cases}
  BY DEF ListIsComplete
<1>1. /\ parse_list(job.iface, status).ok /\ names = parse_list(job.iface, status).names
      /\ job = [iface |-> job.iface, mode |-> "list"]
      /\ out \in Seq(Lines(job)) /\ (cut => out # <<>>)
  BY DEF JudgedInv, Jobs, Listed
<1>2. \A ns : List(ns).ok => ns # {} /\ List(ns).names = ns
  BY DEF List, Unlisted
<1>3. ~Unlisted.ok
  BY DEF Unlisted
<1>4. CASE job.iface = "atf"
  <2>1. Complete \in Seq(AtfListLines)
    <3>1. Lines(job) = AtfListLines
      BY <1>1, <1>4 DEF Lines
    <3> QED
      BY <1>1, <3>1, CompleteLines
  <2>2. N \in Nat /\ DOMAIN Complete = 1..N
    BY <2>1
  <2>3. parse_list(job.iface, status) = parse_list_atf(status)
    BY <1>4 DEF parse_list
  <2>4. Clean(status) /\ parse_list(job.iface, status) = parse_atf_list
    BY <1>1, <1>3, <2>3 DEF parse_list_atf
  <2> DEFINE s == atf_list(Complete)
  <2>5. /\ N >= 2 /\ Complete[1].kind = "header" /\ Complete[2].kind = "blank" /\ ~s.error
        /\ parse_atf_list = List(s.names)
    BY <1>1, <1>3, <2>4 DEF parse_atf_list
  <2>6. names # {} /\ names = s.names
    BY <1>1, <1>2, <2>4, <2>5
  <2>7. s.names = {Complete[i].name : i \in {k \in 3..N : Complete[k].kind = "ident"}}
    BY <2>1, <2>5, AtfListIsRight DEF AtfListMeans
  <2>8. cases = {k \in 3..N : Complete[k].kind = "ident"}
    <3>1. 1..N = {1, 2} \cup (3..N)
      BY <2>2, <2>5
    <3> QED
      BY <1>4, <2>2, <2>5, <3>1
  <2>9. \A i : named(i) = Complete[i].name
    BY <1>4
  <2> HIDE DEF cases, named, s
  <2> QED
    BY <2>4, <2>6, <2>7, <2>8, <2>9
<1>5. CASE job.iface = "googletest"
  <2>1. Complete \in Seq(GtestListLines)
    <3>1. Lines(job) = GtestListLines
      BY <1>1, <1>5 DEF Lines
    <3> QED
      BY <1>1, <3>1, CompleteLines
  <2>2. N \in Nat /\ DOMAIN Complete = 1..N
    BY <2>1
  <2>3. parse_list(job.iface, status) = parse_list_googletest(status)
    BY <1>5 DEF parse_list
  <2>4. Clean(status) /\ parse_list(job.iface, status) = parse_googletest_list
    BY <1>1, <1>3, <2>3 DEF parse_list_googletest
  <2> DEFINE s == gtest_list(Complete)
  <2>5. ~s.error /\ parse_googletest_list = List(s.names)
    BY <1>1, <1>3, <2>4 DEF parse_googletest_list
  <2>6. names # {} /\ names = s.names
    BY <1>1, <1>2, <2>4, <2>5
  <2>7. s.names = {FullName(Complete, i) : i \in CasesIn(Complete, N)}
    BY <2>1, <2>5, GtestListIsRight DEF GtestListMeans
  <2>8. cases = CasesIn(Complete, N)
    BY <1>5, <2>2 DEF CasesIn
  <2>9. \A i : named(i) = FullName(Complete, i)
    BY <1>5 DEF FullName, SuiteLine, SuitesUpTo
  <2> HIDE DEF cases, named, s
  <2> QED
    BY <2>4, <2>6, <2>7, <2>8, <2>9
<1> QED
  BY <1>4, <1>5

THEOREM ListsAreComplete == ProgramSpec => []ListIsComplete
<1>1. JudgedInv => ListIsComplete
  BY JudgedAsListed
<1> QED
  BY <1>1, JudgedAlways, PTL
-----------------------------------------------------------------------------
(* A sequence, of whatever it holds.                                         *)
IsSeq(s) == s \in Seq({s[i] : i \in DOMAIN s})

LEMMA ASequence == ASSUME NEW S, NEW s \in Seq(S) PROVE IsSeq(s)
  <1>1. Len(s) \in Nat /\ DOMAIN s = 1..Len(s) /\ s = [i \in 1..Len(s) |-> s[i]]
    OBVIOUS
  <1> DEFINE R == {s[i] : i \in DOMAIN s}
  <1>2. s \in [1..Len(s) -> R]
    BY <1>1
  <1>3. s \in Seq(R)
    BY <1>1, <1>2, SeqDef
  <1> QED BY <1>3 DEF IsSeq

LEMMA SeqFacts ==
  ASSUME NEW s, IsSeq(s)
  PROVE  Len(s) \in Nat /\ DOMAIN s = 1..Len(s)
  BY DEF IsSeq

LEMMA AppendFacts ==
  ASSUME NEW s, IsSeq(s), NEW e
  PROVE  /\ IsSeq(Append(s, e)) /\ Len(Append(s, e)) = Len(s) + 1
         /\ DOMAIN Append(s, e) = 1..(Len(s) + 1)
         /\ \A i \in 1..Len(s) : Append(s, e)[i] = s[i]
         /\ Append(s, e)[Len(s) + 1] = e
  <1> DEFINE S == {s[i] : i \in DOMAIN s} \cup {e}
  <1>0. s \in Seq({s[i] : i \in DOMAIN s})
    BY DEF IsSeq
  <1>1. s \in Seq(S)
    BY <1>0
  <1> HIDE DEF S
  <1>2. e \in S
    BY DEF S
  <1>3. Append(s, e) \in Seq(S)
    BY <1>1, <1>2
  <1>4. IsSeq(Append(s, e))
    BY <1>3, ASequence
  <1> QED BY <1>1, <1>2, <1>3, <1>4, AppendProperties

LEMMA ConcatFacts ==
  ASSUME NEW s, IsSeq(s), NEW t, IsSeq(t)
  PROVE  /\ IsSeq(s \o t) /\ Len(s \o t) = Len(s) + Len(t)
         /\ DOMAIN (s \o t) = 1..(Len(s) + Len(t))
         /\ \A i \in 1..Len(s) : (s \o t)[i] = s[i]
         /\ \A i \in 1..Len(t) : (s \o t)[Len(s) + i] = t[i]
  <1> DEFINE S == {s[i] : i \in DOMAIN s} \cup {t[i] : i \in DOMAIN t}
  <1>0. s \in Seq({s[i] : i \in DOMAIN s}) /\ t \in Seq({t[i] : i \in DOMAIN t})
    BY DEF IsSeq
  <1>1. s \in Seq(S) /\ t \in Seq(S)
    BY <1>0
  <1> HIDE DEF S
  <1>2. s \o t \in Seq(S)
    BY <1>1
  <1>3. IsSeq(s \o t)
    BY <1>2, ASequence
  <1> QED BY <1>1, <1>2, <1>3, ConcatProperties

LEMMA CutFacts ==
  ASSUME NEW s, IsSeq(s), NEW k \in 0..Len(s)
  PROVE  /\ IsSeq(SubSeq(s, 1, k)) /\ Len(SubSeq(s, 1, k)) = k
         /\ DOMAIN SubSeq(s, 1, k) = 1..k
         /\ \A i \in 1..k : SubSeq(s, 1, k)[i] = s[i]
  <1> DEFINE S == {s[i] : i \in DOMAIN s}
  <1>1. s \in Seq(S)
    BY DEF IsSeq
  <1> HIDE DEF S
  <1>2. Len(s) \in Nat
    BY <1>1
  <1>3. SubSeq(s, 1, k) \in Seq(S) /\ Len(SubSeq(s, 1, k)) = k
    BY <1>1, <1>2, SubSeqProperties
  <1>4. IsSeq(SubSeq(s, 1, k))
    BY <1>3, ASequence
  <1> QED BY <1>1, <1>2, <1>3, <1>4, SubSeqProperties

LEMMA TailFacts ==
  ASSUME NEW s, IsSeq(s), s # <<>>
  PROVE  /\ IsSeq(Tail(s)) /\ Len(Tail(s)) = Len(s) - 1 /\ Len(s) \in Nat \ {0}
         /\ DOMAIN Tail(s) = 1..(Len(s) - 1)
         /\ \A i \in 1..(Len(s) - 1) : Tail(s)[i] = s[i + 1]
         /\ Head(s) = s[1] /\ 1 \in DOMAIN s
  <1> DEFINE S == {s[i] : i \in DOMAIN s}
  <1>1. s \in Seq(S)
    BY DEF IsSeq
  <1> HIDE DEF S
  <1>2. Tail(s) \in Seq(S)
    BY <1>1
  <1>3. IsSeq(Tail(s))
    BY <1>2, ASequence
  <1>4. Len(s) \in Nat \ {0}
    BY <1>1, EmptySeq
  <1> QED BY <1>1, <1>2, <1>3, <1>4, HeadTailProperties

(* What comes after the k-th element is replaced by e.                       *)
LEMMA CutAppend ==
  ASSUME NEW s, IsSeq(s), NEW k \in 0..Len(s), NEW e
  PROVE  LET t == Append(SubSeq(s, 1, k), e)
         IN /\ IsSeq(t) /\ Len(t) = k + 1 /\ DOMAIN t = 1..(k + 1)
            /\ \A i \in 1..k : t[i] = s[i]
            /\ t[k + 1] = e
  <1> DEFINE c == SubSeq(s, 1, k)
  <1>1. IsSeq(c) /\ Len(c) = k /\ \A i \in 1..k : c[i] = s[i]
    BY CutFacts
  <1> HIDE DEF c
  <1>2. /\ IsSeq(Append(c, e)) /\ Len(Append(c, e)) = k + 1
        /\ DOMAIN Append(c, e) = 1..(k + 1)
        /\ \A i \in 1..k : Append(c, e)[i] = c[i]
        /\ Append(c, e)[k + 1] = e
    BY <1>1, AppendFacts
  <1> QED BY <1>1, <1>2 DEF c

(* The parser on top of the others is replaced.                              *)
LEMMA SetTopFacts ==
  ASSUME IsSeq(stack), stack # <<>>, NEW p
  PROVE  /\ Len(stack) \in Nat \ {0} /\ Top = stack[Len(stack)]
         /\ IsSeq(SetTop(p)) /\ Len(SetTop(p)) = Len(stack)
         /\ DOMAIN SetTop(p) = 1..Len(stack)
         /\ \A i \in 1..(Len(stack) - 1) : SetTop(p)[i] = stack[i]
         /\ SetTop(p)[Len(stack)] = p
  <1>1. Len(stack) \in Nat \ {0}
    BY TailFacts
  <1> DEFINE F == SubSeq(stack, 1, Len(stack) - 1)
  <1>2. Len(stack) - 1 \in 0..Len(stack)
    BY <1>1
  <1>3. /\ IsSeq(F) /\ Len(F) = Len(stack) - 1
        /\ \A i \in 1..(Len(stack) - 1) : F[i] = stack[i]
    BY <1>2, CutFacts
  <1>4. SetTop(p) = Append(F, p)
    BY DEF SetTop, Front
  <1> HIDE DEF F
  <1>5. /\ IsSeq(Append(F, p)) /\ Len(Append(F, p)) = Len(F) + 1
        /\ DOMAIN Append(F, p) = 1..(Len(F) + 1)
        /\ \A i \in 1..Len(F) : Append(F, p)[i] = F[i]
        /\ Append(F, p)[Len(F) + 1] = p
    BY <1>3, AppendFacts
  <1> QED BY <1>1, <1>3, <1>4, <1>5 DEF Top, Last

ParserFields == {"id", "file", "version", "programs", "suite"}
ProgramFields == {"path", "suite", "md", "listed", "cases"}

(* The ids of the first k parsers of a stack; a file's calls have the ids of *)
(* its parser and of those that include it.                                  *)
Ids(st, k) == {st[m].id : m \in 1..k}

StackOK(st, l, f) ==
  /\ IsSeq(st)
  /\ \A k \in DOMAIN st :
       /\ DOMAIN st[k] = ParserFields /\ IsSeq(st[k].programs)
       /\ st[k].id \in 0..Len(l) /\ st[k].id \notin f
  /\ \A j, k \in DOMAIN st : st[j].id = st[k].id => j = k

LogOK(l, f) ==
  /\ IsSeq(l) /\ f \subseteq 0..Len(l)
  /\ \A i \in DOMAIN l : l[i].frames \subseteq 0..Len(l)

IsSuite(l, i, ids) == l[i].op = "test_suite" /\ l[i].frames = ids

(* A file has declared its suite once, or not at all.                        *)
SuitesOK(st, l) ==
  /\ \A k \in DOMAIN st :
       IF st[k].suite = NoSuite THEN \A i \in DOMAIN l : ~IsSuite(l, i, Ids(st, k))
       ELSE \E i \in DOMAIN l : IsSuite(l, i, Ids(st, k)) /\ l[i].arg = st[k].suite
  /\ \A i, j \in DOMAIN l : IsSuite(l, i, l[j].frames) /\ l[j].op = "test_suite" => i = j

(* The program p is what the i-th call defined.                              *)
Made(l, i, p) ==
  /\ DOMAIN p = ProgramFields /\ Sized(p.md)
  /\ IF l[i].arg.suite # "" THEN p.suite = l[i].arg.suite
     ELSE \E j \in 1..(i - 1) : IsSuite(l, j, l[i].frames) /\ l[j].arg = p.suite
  /\ p.path = relativize(branch_path(l[i].file), l[i].arg.name)
  /\ p.md = set_strings(l[i].arg.props)

Survives(l, f, i) == i \in DOMAIN l /\ l[i].op = "test_program" /\ l[i].frames \cap f = {}

(* g names the calls that made the programs of each parser: those of the     *)
(* file itself and of the files it has included, in order.                   *)
Comes(g, st, l, f, k, n) ==
  /\ Survives(l, f, g[k][n]) /\ Made(l, g[k][n], st[k].programs[n])
  /\ Ids(st, k) \subseteq l[g[k][n]].frames
  /\ \A m \in DOMAIN st : m > k => st[m].id \notin l[g[k][n]].frames

Traced(g, st, l, f) ==
  /\ IsSeq(g) /\ Len(g) = Len(st)
  /\ \A k \in DOMAIN st : IsSeq(g[k]) /\ Len(g[k]) = Len(st[k].programs)
  /\ \A k \in DOMAIN st : \A n \in DOMAIN g[k] : Comes(g, st, l, f, k, n)
  /\ \A k \in DOMAIN st : \A m, n \in DOMAIN g[k] : m < n => g[k][m] < g[k][n]
  /\ \A j, k \in DOMAIN st : j < k => \A m \in DOMAIN g[j], n \in DOMAIN g[k] : g[j][m] < g[k][n]
  /\ \A i \in DOMAIN l : Survives(l, f, i) => \E k \in DOMAIN st : \E n \in DOMAIN g[k] : g[k][n] = i

ParsingOK(st, l, f) ==
  StackOK(st, l, f) /\ LogOK(l, f) /\ SuitesOK(st, l) /\ \E g : Traced(g, st, l, f)

(* A call is recorded: nothing changes for the earlier ones.                 *)
LEMMA LogGrows ==
  ASSUME NEW l, NEW f, LogOK(l, f), NEW e, e.frames \subseteq 0..Len(l)
  PROVE  LET l2 == Append(l, e)
         IN /\ Len(l) \in Nat /\ Len(l2) = Len(l) + 1 /\ l2[Len(l) + 1] = e
            /\ DOMAIN l = 1..Len(l) /\ DOMAIN l2 = 1..(Len(l) + 1)
            /\ \A i \in DOMAIN l : l2[i] = l[i]
            /\ LogOK(l2, f)
            /\ \A i \in DOMAIN l : \A ids : IsSuite(l2, i, ids) <=> IsSuite(l, i, ids)
            /\ \A i \in DOMAIN l : Survives(l2, f, i) <=> Survives(l, f, i)
            /\ \A i \in DOMAIN l : \A p : Made(l2, i, p) <=> Made(l, i, p)
  <1> DEFINE l2 == Append(l, e)
  <1>1. /\ Len(l) \in Nat /\ DOMAIN l = 1..Len(l) /\ IsSeq(l2) /\ Len(l2) = Len(l) + 1
        /\ DOMAIN l2 = 1..(Len(l) + 1) /\ \A i \in 1..Len(l) : l2[i] = l[i]
        /\ l2[Len(l) + 1] = e
    BY AppendFacts, SeqFacts DEF LogOK
  <1> HIDE DEF l2
  <1>2. LogOK(l2, f)
    <2>1. f \subseteq 0..Len(l2)
      BY <1>1 DEF LogOK
    <2>2. ASSUME NEW i \in DOMAIN l2 PROVE l2[i].frames \subseteq 0..Len(l2)
      <3>1. CASE i = Len(l) + 1
        BY <3>1, <1>1
      <3>2. CASE i \in 1..Len(l)
        BY <3>2, <1>1 DEF LogOK
      <3> QED BY <3>1, <3>2, <1>1
    <2> QED BY <2>1, <2>2, <1>1 DEF LogOK
  <1>3. \A i \in DOMAIN l : \A ids : IsSuite(l2, i, ids) <=> IsSuite(l, i, ids)
    BY <1>1 DEF IsSuite
  <1>4. \A i \in DOMAIN l : Survives(l2, f, i) <=> Survives(l, f, i)
    BY <1>1 DEF Survives
  <1>5. ASSUME NEW i \in DOMAIN l, NEW p PROVE Made(l2, i, p) <=> Made(l, i, p)
    <2>1. \A j \in 1..(i - 1) : j \in DOMAIN l
      BY <1>1
    <2>2. \A j \in 1..(i - 1) : /\ IsSuite(l2, j, l2[i].frames) <=> IsSuite(l, j, l[i].frames)
                                /\ l2[j].arg = l[j].arg
      BY <1>1, <1>3, <2>1
    <2> QED BY <2>2, <1>1 DEF Made
  <1> QED BY <1>1, <1>2, <1>3, <1>4, <1>5 DEF l2

(* A call that defines nothing and declares nothing.                         *)
LEMMA RecordsOther ==
  ASSUME NEW st, NEW l, NEW f, ParsingOK(st, l, f),
         NEW e, e.frames \subseteq 0..Len(l), e.op \notin {"test_program", "test_suite"}
  PROVE  ParsingOK(st, Append(l, e), f)
  <1> DEFINE l2 == Append(l, e)
  <1>1. /\ Len(l) \in Nat /\ Len(l2) = Len(l) + 1 /\ l2[Len(l) + 1] = e
        /\ DOMAIN l = 1..Len(l) /\ DOMAIN l2 = 1..(Len(l) + 1)
        /\ \A i \in DOMAIN l : l2[i] = l[i]
        /\ LogOK(l2, f)
        /\ \A i \in DOMAIN l : \A ids : IsSuite(l2, i, ids) <=> IsSuite(l, i, ids)
        /\ \A i \in DOMAIN l : Survives(l2, f, i) <=> Survives(l, f, i)
        /\ \A i \in DOMAIN l : \A p : Made(l2, i, p) <=> Made(l, i, p)
    BY LogGrows DEF ParsingOK
  <1> HIDE DEF l2
  <1>2. StackOK(st, l2, f)
    BY <1>1 DEF ParsingOK, StackOK
  <1>3. \A ids : ~IsSuite(l2, Len(l) + 1, ids)
    BY <1>1 DEF IsSuite
  <1>4. SuitesOK(st, l2)
    <2>1. ASSUME NEW k \in DOMAIN st
          PROVE  IF st[k].suite = NoSuite THEN \A i \in DOMAIN l2 : ~IsSuite(l2, i, Ids(st, k))
                 ELSE \E i \in DOMAIN l2 : IsSuite(l2, i, Ids(st, k)) /\ l2[i].arg = st[k].suite
      <3>1. IF st[k].suite = NoSuite THEN \A i \in DOMAIN l : ~IsSuite(l, i, Ids(st, k))
            ELSE \E i \in DOMAIN l : IsSuite(l, i, Ids(st, k)) /\ l[i].arg = st[k].suite
        BY DEF ParsingOK, SuitesOK
      <3>2. CASE st[k].suite = NoSuite
        BY <3>1, <3>2, <1>1, <1>3
      <3>3. CASE st[k].suite # NoSuite
        BY <3>1, <3>3, <1>1
      <3> QED BY <3>2, <3>3
    <2>2. ASSUME NEW i \in DOMAIN l2, NEW j \in DOMAIN l2,
                 IsSuite(l2, i, l2[j].frames), l2[j].op = "test_suite"
          PROVE  i = j
      <3>1. i \in DOMAIN l /\ j \in DOMAIN l
        BY <2>2, <1>1, <1>3
      <3>2. IsSuite(l, i, l[j].frames) /\ l[j].op = "test_suite"
        BY <2>2, <3>1, <1>1
      <3> QED BY <3>1, <3>2 DEF ParsingOK, SuitesOK
    <2> QED BY <2>1, <2>2 DEF SuitesOK
  <1>5. PICK g : Traced(g, st, l, f)
    BY DEF ParsingOK
  <1>6. ~Survives(l2, f, Len(l) + 1)
    BY <1>1 DEF Survives
  <1>7. ASSUME NEW k \in DOMAIN st, NEW n \in DOMAIN g[k] PROVE Comes(g, st, l2, f, k, n)
    <2>1. Comes(g, st, l, f, k, n)
      BY <1>5 DEF Traced
    <2>2. g[k][n] \in DOMAIN l
      BY <2>1 DEF Comes, Survives
    <2> QED BY <2>1, <2>2, <1>1 DEF Comes
  <1>8. ASSUME NEW i \in DOMAIN l2, Survives(l2, f, i)
        PROVE  \E k \in DOMAIN st : \E n \in DOMAIN g[k] : g[k][n] = i
    <2>1. i \in DOMAIN l
      BY <1>8, <1>6, <1>1
    <2>2. Survives(l, f, i)
      BY <2>1, <1>8, <1>1
    <2> QED BY <2>1, <2>2, <1>5 DEF Traced
  <1>9. Traced(g, st, l2, f)
    BY <1>5, <1>7, <1>8 DEF Traced
  <1> QED BY <1>1, <1>2, <1>4, <1>9 DEF ParsingOK, l2

(* The parsers above the k-th one fail, and what they defined goes with them.*)
LEMMA Unwinds ==
  ASSUME NEW st, NEW l, NEW f, ParsingOK(st, l, f), NEW k \in 0..Len(st)
  PROVE  ParsingOK(SubSeq(st, 1, k), l, f \cup {st[i].id : i \in (k + 1)..Len(st)})
  <1> DEFINE st2 == SubSeq(st, 1, k)
             f2 == f \cup {st[i].id : i \in (k + 1)..Len(st)}
  <1>1. /\ IsSeq(st) /\ Len(st) \in Nat /\ DOMAIN st = 1..Len(st)
        /\ IsSeq(st2) /\ Len(st2) = k /\ DOMAIN st2 = 1..k /\ \A i \in 1..k : st2[i] = st[i]
    BY CutFacts, SeqFacts DEF ParsingOK, StackOK
  <1>2. \A i \in 1..k : i \in DOMAIN st
    BY <1>1
  <1>3. \A x : x \in f2 <=> x \in f \/ \E i \in (k + 1)..Len(st) : x = st[i].id
    OBVIOUS
  <1> HIDE DEF st2, f2
  <1>4. \A i \in (k + 1)..Len(st) : i \in DOMAIN st
    BY <1>1
  <1>5. StackOK(st2, l, f2)
    <2>1. ASSUME NEW i \in 1..k PROVE st[i].id \notin f2
      <3>1. st[i].id \notin f
        BY <1>2 DEF ParsingOK, StackOK
      <3>2. \A j \in (k + 1)..Len(st) : st[j].id # st[i].id
        BY <1>2, <1>4, <1>1 DEF ParsingOK, StackOK
      <3> QED BY <3>1, <3>2, <1>3
    <2>2. \A i \in 1..k : DOMAIN st[i] = ParserFields /\ IsSeq(st[i].programs) /\ st[i].id \in 0..Len(l)
      BY <1>2 DEF ParsingOK, StackOK
    <2>3. \A i, j \in 1..k : st[i].id = st[j].id => i = j
      BY <1>2 DEF ParsingOK, StackOK
    <2> QED BY <2>1, <2>2, <2>3, <1>1 DEF StackOK
  <1>6. LogOK(l, f2)
    <2>1. \A i \in (k + 1)..Len(st) : st[i].id \in 0..Len(l)
      BY <1>4 DEF ParsingOK, StackOK
    <2>2. f \subseteq 0..Len(l)
      BY DEF ParsingOK, LogOK
    <2>3. f2 \subseteq 0..Len(l)
      BY <2>1, <2>2, <1>3
    <2> QED BY <2>3 DEF ParsingOK, LogOK
  <1>7. \A i \in 1..k : Ids(st2, i) = Ids(st, i)
    BY <1>1 DEF Ids
  <1>8. SuitesOK(st2, l)
    BY <1>1, <1>2, <1>7 DEF ParsingOK, SuitesOK
  <1>9. PICK g : Traced(g, st, l, f)
    BY DEF ParsingOK
  <1> DEFINE g2 == SubSeq(g, 1, k)
  <1>10. /\ IsSeq(g2) /\ Len(g2) = k /\ DOMAIN g2 = 1..k /\ \A i \in 1..k : g2[i] = g[i]
    BY <1>9, CutFacts DEF Traced
  <1> HIDE DEF g2
  <1>11. ASSUME NEW m \in DOMAIN st2, NEW n \in DOMAIN g2[m] PROVE Comes(g2, st2, l, f2, m, n)
    <2>1. m \in 1..k /\ m \in DOMAIN st /\ g2[m] = g[m] /\ st2[m] = st[m] /\ Ids(st2, m) = Ids(st, m)
      BY <1>1, <1>2, <1>7, <1>10
    <2>2. Comes(g, st, l, f, m, n)
      BY <2>1, <1>9 DEF Traced
    <2> DEFINE i == g[m][n]
    <2>3. l[i].frames \cap f2 = {}
      <3>1. l[i].frames \cap f = {}
        BY <2>2 DEF Comes, Survives
      <3>2. \A j \in (k + 1)..Len(st) : j > m
        BY <2>1, <1>1
      <3>3. \A j \in (k + 1)..Len(st) : st[j].id \notin l[i].frames
        BY <3>2, <2>2, <1>4 DEF Comes
      <3> QED BY <3>1, <3>3, <1>3
    <2>4. Survives(l, f2, i)
      BY <2>2, <2>3 DEF Comes, Survives
    <2>5. \A j \in DOMAIN st2 : j > m => st2[j].id \notin l[i].frames
      BY <2>2, <1>1, <1>2 DEF Comes
    <2> QED BY <2>1, <2>2, <2>4, <2>5 DEF Comes
  <1>12. ASSUME NEW i \in DOMAIN l, Survives(l, f2, i)
         PROVE  \E m \in DOMAIN st2 : \E n \in DOMAIN g2[m] : g2[m][n] = i
    <2>1. Survives(l, f, i)
      BY <1>12, <1>3 DEF Survives
    <2>2. PICK m \in DOMAIN st : \E n \in DOMAIN g[m] : g[m][n] = i
      BY <2>1, <1>9 DEF Traced
    <2>3. PICK n \in DOMAIN g[m] : g[m][n] = i
      BY <2>2
    <2>4. Comes(g, st, l, f, m, n)
      BY <1>9 DEF Traced
    <2>5. m \in 1..Len(st)
      BY <1>1
    <2>6. st[m].id \in l[i].frames
      BY <2>3, <2>4, <2>5 DEF Comes, Ids
    <2>7. m \notin (k + 1)..Len(st)
      BY <2>6, <1>12, <1>3 DEF Survives
    <2>8. m \in 1..k
      BY <2>5, <2>7, <1>1
    <2> QED BY <2>3, <2>8, <1>1, <1>10
  <1>13. Traced(g2, st2, l, f2)
    <2>1. \A m \in DOMAIN st2 : IsSeq(g2[m]) /\ Len(g2[m]) = Len(st2[m].programs)
      BY <1>1, <1>2, <1>9, <1>10 DEF Traced
    <2>2. \A j \in DOMAIN st2 : \A m, n \in DOMAIN g2[j] : m < n => g2[j][m] < g2[j][n]
      BY <1>1, <1>2, <1>9, <1>10 DEF Traced
    <2>3. \A i, j \in DOMAIN st2 : i < j => \A m \in DOMAIN g2[i], n \in DOMAIN g2[j] : g2[i][m] < g2[j][n]
      BY <1>1, <1>2, <1>9, <1>10 DEF Traced
    <2> QED BY <2>1, <2>2, <2>3, <1>1, <1>10, <1>11, <1>12 DEF Traced
  <1> QED BY <1>5, <1>6, <1>8, <1>13 DEF ParsingOK, st2, f2

(* The parser on top learns its version.                                     *)
LEMMA LearnsVersion ==
  ASSUME NEW st, NEW l, NEW f, ParsingOK(st, l, f), NEW st2,
         IsSeq(st2), Len(st2) = Len(st),
         \A k \in DOMAIN st : /\ DOMAIN st2[k] = ParserFields /\ st2[k].id = st[k].id
                              /\ st2[k].suite = st[k].suite /\ st2[k].programs = st[k].programs
  PROVE  ParsingOK(st2, l, f)
  <1>1. Len(st) \in Nat /\ DOMAIN st = 1..Len(st) /\ DOMAIN st2 = DOMAIN st
    BY SeqFacts DEF ParsingOK, StackOK
  <1>2. \A k \in DOMAIN st : Ids(st2, k) = Ids(st, k)
    BY <1>1 DEF Ids
  <1>3. StackOK(st2, l, f)
    BY <1>1 DEF ParsingOK, StackOK
  <1>4. SuitesOK(st2, l)
    BY <1>1, <1>2 DEF ParsingOK, SuitesOK
  <1>5. PICK g : Traced(g, st, l, f)
    BY DEF ParsingOK
  <1>6. \A k \in DOMAIN st : \A n \in DOMAIN g[k] : Comes(g, st2, l, f, k, n)
    BY <1>1, <1>2, <1>5 DEF Traced, Comes
  <1>7. Traced(g, st2, l, f)
    BY <1>1, <1>5, <1>6 DEF Traced
  <1> QED BY <1>3, <1>4, <1>7 DEF ParsingOK

LEMMA Below ==
  ASSUME NEW n \in Nat, NEW k \in 1..n, NEW m \in 1..k
  PROVE  m \in 1..n /\ (k < n => m # n)
  OBVIOUS

(* The parser on top, which had no suite, declares one.                      *)
LEMMA DeclaresSuite ==
  ASSUME NEW st, NEW l, NEW f, ParsingOK(st, l, f), Len(st) > 0, st[Len(st)].suite = NoSuite,
         NEW name, name # NoSuite,
         NEW e, e.frames = Ids(st, Len(st)), e.op = "test_suite", e.arg = name,
         NEW st2, IsSeq(st2), Len(st2) = Len(st),
         \A k \in DOMAIN st : /\ DOMAIN st2[k] = ParserFields /\ st2[k].id = st[k].id
                              /\ st2[k].programs = st[k].programs
                              /\ st2[k].suite = IF k = Len(st) THEN name ELSE st[k].suite
  PROVE  ParsingOK(st2, Append(l, e), f)
  <1> DEFINE l2 == Append(l, e)
  <1>1. Len(st) \in Nat /\ DOMAIN st = 1..Len(st) /\ DOMAIN st2 = DOMAIN st /\ Len(st) \in DOMAIN st
    BY SeqFacts DEF ParsingOK, StackOK
  <1>2. e.frames \subseteq 0..Len(l)
    BY <1>1 DEF ParsingOK, StackOK, Ids
  <1>3. /\ Len(l) \in Nat /\ Len(l2) = Len(l) + 1 /\ l2[Len(l) + 1] = e
        /\ DOMAIN l = 1..Len(l) /\ DOMAIN l2 = 1..(Len(l) + 1)
        /\ \A i \in DOMAIN l : l2[i] = l[i]
        /\ LogOK(l2, f)
        /\ \A i \in DOMAIN l : \A ids : IsSuite(l2, i, ids) <=> IsSuite(l, i, ids)
        /\ \A i \in DOMAIN l : Survives(l2, f, i) <=> Survives(l, f, i)
        /\ \A i \in DOMAIN l : \A p : Made(l2, i, p) <=> Made(l, i, p)
    BY <1>2, LogGrows DEF ParsingOK
  <1> HIDE DEF l2
  <1>4. \A k \in DOMAIN st : Ids(st2, k) = Ids(st, k)
    BY <1>1 DEF Ids
  <1>5. StackOK(st2, l2, f)
    BY <1>1, <1>3 DEF ParsingOK, StackOK
  <1>6. \A k \in DOMAIN st : k # Len(st) => Ids(st, k) # Ids(st, Len(st))
    <2> SUFFICES ASSUME NEW k \in DOMAIN st, k # Len(st) PROVE Ids(st, k) # Ids(st, Len(st))
      OBVIOUS
    <2>1. st[Len(st)].id \in Ids(st, Len(st))
      BY <1>1 DEF Ids
    <2>0. k \in 1..Len(st) /\ k < Len(st)
      BY <1>1
    <2>2. \A m \in 1..k : m \in DOMAIN st /\ m # Len(st)
      BY <2>0, <1>1, Below
    <2>3. st[Len(st)].id \notin Ids(st, k)
      BY <2>2, <1>1 DEF ParsingOK, StackOK, Ids
    <2> QED BY <2>1, <2>3
  <1>7. \A ids : IsSuite(l2, Len(l) + 1, ids) <=> ids = Ids(st, Len(st))
    BY <1>3 DEF IsSuite
  <1>8. SuitesOK(st2, l2)
    <2>1. ASSUME NEW k \in DOMAIN st2
          PROVE  IF st2[k].suite = NoSuite THEN \A i \in DOMAIN l2 : ~IsSuite(l2, i, Ids(st2, k))
                 ELSE \E i \in DOMAIN l2 : IsSuite(l2, i, Ids(st2, k)) /\ l2[i].arg = st2[k].suite
      <3>1. IF st[k].suite = NoSuite THEN \A i \in DOMAIN l : ~IsSuite(l, i, Ids(st, k))
            ELSE \E i \in DOMAIN l : IsSuite(l, i, Ids(st, k)) /\ l[i].arg = st[k].suite
        BY <1>1 DEF ParsingOK, SuitesOK
      <3>2. CASE k = Len(st)
        <4>1. st2[k].suite = name /\ Len(l) + 1 \in DOMAIN l2
          BY <3>2, <1>1, <1>3
        <4>2. IsSuite(l2, Len(l) + 1, Ids(st2, k)) /\ l2[Len(l) + 1].arg = name
          BY <3>2, <1>1, <1>3, <1>4, <1>7
        <4> QED BY <4>1, <4>2
      <3>3. CASE k # Len(st) /\ st[k].suite = NoSuite
        <4>1. st2[k].suite = NoSuite /\ Ids(st2, k) = Ids(st, k) /\ Ids(st, k) # Ids(st, Len(st))
          BY <3>3, <1>1, <1>4, <1>6
        <4>2. ASSUME NEW i \in DOMAIN l2 PROVE ~IsSuite(l2, i, Ids(st, k))
          <5>1. CASE i = Len(l) + 1
            BY <5>1, <4>1, <1>7
          <5>2. CASE i \in DOMAIN l
            BY <5>2, <3>1, <3>3, <1>3
          <5> QED BY <5>1, <5>2, <1>3
        <4> QED BY <4>1, <4>2
      <3>4. CASE k # Len(st) /\ st[k].suite # NoSuite
        <4>1. st2[k].suite = st[k].suite /\ Ids(st2, k) = Ids(st, k)
          BY <3>4, <1>1, <1>4
        <4> QED BY <4>1, <3>1, <3>4, <1>3
      <3> QED BY <3>2, <3>3, <3>4
    <2>2. \A i \in DOMAIN l : ~IsSuite(l, i, Ids(st, Len(st)))
      BY <1>1 DEF ParsingOK, SuitesOK
    <2>3. ASSUME NEW i \in DOMAIN l2, NEW j \in DOMAIN l2,
                 IsSuite(l2, i, l2[j].frames), l2[j].op = "test_suite"
          PROVE  i = j
      <3>1. CASE i \in DOMAIN l /\ j \in DOMAIN l
        <4>1. IsSuite(l, i, l[j].frames) /\ l[j].op = "test_suite"
          BY <2>3, <3>1, <1>3
        <4> QED BY <3>1, <4>1 DEF ParsingOK, SuitesOK
      <3>2. CASE i = Len(l) + 1 /\ j \in DOMAIN l
        <4>1. l[j].frames = Ids(st, Len(st)) /\ l[j].op = "test_suite"
          BY <2>3, <3>2, <1>3, <1>7
        <4> QED BY <4>1, <2>2, <3>2 DEF IsSuite
      <3>3. CASE i \in DOMAIN l /\ j = Len(l) + 1
        <4>1. IsSuite(l, i, Ids(st, Len(st)))
          BY <2>3, <3>3, <1>3
        <4> QED BY <4>1, <2>2, <3>3
      <3> QED BY <3>1, <3>2, <3>3, <1>3
    <2> QED BY <2>1, <2>3 DEF SuitesOK
  <1>9. PICK g : Traced(g, st, l, f)
    BY DEF ParsingOK
  <1>10. ~Survives(l2, f, Len(l) + 1)
    BY <1>3 DEF Survives
  <1>11. ASSUME NEW k \in DOMAIN st, NEW n \in DOMAIN g[k] PROVE Comes(g, st2, l2, f, k, n)
    <2>1. Comes(g, st, l, f, k, n)
      BY <1>9 DEF Traced
    <2>2. g[k][n] \in DOMAIN l
      BY <2>1 DEF Comes, Survives
    <2> QED BY <2>1, <2>2, <1>1, <1>3, <1>4 DEF Comes
  <1>12. ASSUME NEW i \in DOMAIN l2, Survives(l2, f, i)
         PROVE  \E k \in DOMAIN st : \E n \in DOMAIN g[k] : g[k][n] = i
    <2>1. i \in DOMAIN l
      BY <1>12, <1>10, <1>3
    <2>2. Survives(l, f, i)
      BY <2>1, <1>12, <1>3
    <2> QED BY <2>1, <2>2, <1>9 DEF Traced
  <1>13. Traced(g, st2, l2, f)
    BY <1>1, <1>9, <1>11, <1>12 DEF Traced
  <1> QED BY <1>3, <1>5, <1>8, <1>13 DEF ParsingOK, l2

(* The parser on top defines a program, which comes after all the others.    *)
LEMMA DefinesProgram ==
  ASSUME NEW st, NEW l, NEW f, ParsingOK(st, l, f), Len(st) > 0,
         NEW e, e.frames = Ids(st, Len(st)), e.op = "test_program",
         NEW p, Made(Append(l, e), Len(l) + 1, p),
         NEW st2, IsSeq(st2), Len(st2) = Len(st),
         \A k \in DOMAIN st : /\ DOMAIN st2[k] = ParserFields /\ st2[k].id = st[k].id
                              /\ st2[k].suite = st[k].suite
                              /\ k # Len(st) => st2[k].programs = st[k].programs,
         st2[Len(st)].programs = Append(st[Len(st)].programs, p)
  PROVE  ParsingOK(st2, Append(l, e), f)
  <1> DEFINE l2 == Append(l, e)
             L == Len(st)
             N == Len(l) + 1
  <1>1. L \in Nat \ {0} /\ DOMAIN st = 1..L /\ DOMAIN st2 = DOMAIN st /\ L \in DOMAIN st
    BY SeqFacts DEF ParsingOK, StackOK
  <1>2. e.frames \subseteq 0..Len(l)
    BY <1>1 DEF ParsingOK, StackOK, Ids
  <1>3. /\ Len(l) \in Nat /\ Len(l2) = N /\ l2[N] = e
        /\ DOMAIN l = 1..Len(l) /\ DOMAIN l2 = 1..N
        /\ \A i \in DOMAIN l : l2[i] = l[i]
        /\ LogOK(l2, f)
        /\ \A i \in DOMAIN l : \A ids : IsSuite(l2, i, ids) <=> IsSuite(l, i, ids)
        /\ \A i \in DOMAIN l : Survives(l2, f, i) <=> Survives(l, f, i)
        /\ \A i \in DOMAIN l : \A q : Made(l2, i, q) <=> Made(l, i, q)
    BY <1>2, LogGrows DEF ParsingOK
  <1>0. Made(l2, N, p)
    OBVIOUS
  <1> HIDE DEF l2, L, N
  <1>4. ASSUME NEW k \in DOMAIN st PROVE Ids(st2, k) = Ids(st, k)
    <2>1. \A m \in 1..k : m \in DOMAIN st
      BY <1>1
    <2>2. \A m \in DOMAIN st : st2[m].id = st[m].id
      OBVIOUS
    <2> QED BY <2>1, <2>2 DEF Ids
  <1>5. /\ IsSeq(st[L].programs) /\ IsSeq(st2[L].programs)
        /\ Len(st2[L].programs) = Len(st[L].programs) + 1
        /\ \A n \in 1..Len(st[L].programs) : st2[L].programs[n] = st[L].programs[n]
        /\ st2[L].programs[Len(st[L].programs) + 1] = p
    <2>1. IsSeq(st[L].programs)
      BY <1>1 DEF ParsingOK, StackOK
    <2> QED BY <2>1, AppendFacts DEF L
  <1>6. StackOK(st2, l2, f)
    <2>1. \A k \in DOMAIN st2 : IsSeq(st2[k].programs)
      BY <1>1, <1>5 DEF ParsingOK, StackOK, L
    <2> QED BY <2>1, <1>1, <1>3 DEF ParsingOK, StackOK, N
  <1>7. \A ids : ~IsSuite(l2, N, ids)
    BY <1>3 DEF IsSuite
  <1>8. SuitesOK(st2, l2)
    <2>1. ASSUME NEW k \in DOMAIN st2
          PROVE  IF st2[k].suite = NoSuite THEN \A i \in DOMAIN l2 : ~IsSuite(l2, i, Ids(st2, k))
                 ELSE \E i \in DOMAIN l2 : IsSuite(l2, i, Ids(st2, k)) /\ l2[i].arg = st2[k].suite
      <3>1. IF st[k].suite = NoSuite THEN \A i \in DOMAIN l : ~IsSuite(l, i, Ids(st, k))
            ELSE \E i \in DOMAIN l : IsSuite(l, i, Ids(st, k)) /\ l[i].arg = st[k].suite
        BY <1>1 DEF ParsingOK, SuitesOK
      <3>2. st2[k].suite = st[k].suite /\ Ids(st2, k) = Ids(st, k)
        BY <1>1, <1>4
      <3>3. \A i \in DOMAIN l2 : i = N \/ i \in DOMAIN l
        BY <1>3 DEF N
      <3>4. CASE st[k].suite = NoSuite
        BY <3>1, <3>2, <3>3, <3>4, <1>3, <1>7
      <3>5. CASE st[k].suite # NoSuite
        BY <3>1, <3>2, <3>5, <1>3 DEF N
      <3> QED BY <3>4, <3>5
    <2>2. ASSUME NEW i \in DOMAIN l2, NEW j \in DOMAIN l2,
                 IsSuite(l2, i, l2[j].frames), l2[j].op = "test_suite"
          PROVE  i = j
      <3>1. i \in DOMAIN l /\ j \in DOMAIN l
        BY <2>2, <1>3, <1>7 DEF N
      <3>2. IsSuite(l, i, l[j].frames) /\ l[j].op = "test_suite"
        BY <2>2, <3>1, <1>3
      <3> QED BY <3>1, <3>2 DEF ParsingOK, SuitesOK
    <2> QED BY <2>1, <2>2 DEF SuitesOK
  <1>9. PICK g : Traced(g, st, l, f)
    BY DEF ParsingOK
  <1>10. IsSeq(g) /\ Len(g) = L /\ IsSeq(g[L]) /\ Len(g[L]) = Len(st[L].programs)
    BY <1>9, <1>1 DEF Traced, L
  <1> DEFINE last == Append(g[L], N)
             g2 == Append(SubSeq(g, 1, L - 1), last)
  <1>11. /\ IsSeq(last) /\ Len(last) = Len(g[L]) + 1 /\ Len(g[L]) \in Nat
         /\ DOMAIN g[L] = 1..Len(g[L]) /\ DOMAIN last = 1..(Len(g[L]) + 1)
         /\ \A n \in 1..Len(g[L]) : last[n] = g[L][n]
         /\ last[Len(g[L]) + 1] = N
    <2> DEFINE s == g[L]
    <2>1. IsSeq(s)
      BY <1>10
    <2> HIDE DEF s
    <2>2. /\ IsSeq(Append(s, N)) /\ Len(Append(s, N)) = Len(s) + 1 /\ Len(s) \in Nat
          /\ DOMAIN s = 1..Len(s) /\ DOMAIN Append(s, N) = 1..(Len(s) + 1)
          /\ \A n \in 1..Len(s) : Append(s, N)[n] = s[n]
          /\ Append(s, N)[Len(s) + 1] = N
      BY <2>1, AppendFacts, SeqFacts
    <2> QED BY <2>2 DEF s
  <1> HIDE DEF last
  <1>12. /\ IsSeq(g2) /\ Len(g2) = L /\ DOMAIN g2 = 1..L
         /\ \A k \in 1..(L - 1) : g2[k] = g[k]
         /\ g2[L] = last
    <2>1. L - 1 \in 0..Len(g) /\ (L - 1) + 1 = L
      BY <1>1, <1>10
    <2> QED BY <2>1, <1>10, CutAppend
  <1> HIDE DEF g2
  <1>13. \A k \in DOMAIN st : k # L => k \in 1..(L - 1) /\ g2[k] = g[k]
    BY <1>1, <1>12
  <1>14. ASSUME NEW k \in DOMAIN st, NEW n \in DOMAIN g[k]
         PROVE  Comes(g, st, l, f, k, n) /\ g[k][n] \in 1..Len(l)
    BY <1>3, <1>9 DEF Traced, Comes, Survives
  <1>15. Survives(l2, f, N)
    <2>1. Ids(st, L) \cap f = {}
      BY <1>1 DEF ParsingOK, StackOK, Ids
    <2> QED BY <2>1, <1>3 DEF Survives, L, N
  <1>16. ASSUME NEW k \in DOMAIN st2, NEW n \in DOMAIN g2[k] PROVE Comes(g2, st2, l2, f, k, n)
    <2>1. CASE n \in DOMAIN g[k]
      <3>1. Comes(g, st, l, f, k, n) /\ g[k][n] \in DOMAIN l
        BY <2>1, <1>1, <1>3, <1>14
      <3>2. g2[k][n] = g[k][n]
        BY <2>1, <1>1, <1>11, <1>12, <1>13
      <3>3. st2[k].programs[n] = st[k].programs[n]
        BY <2>1, <1>1, <1>5, <1>10, <1>11 DEF L
      <3>4. \A m \in DOMAIN st2 : m > k => st2[m].id \notin l2[g2[k][n]].frames
        BY <3>1, <3>2, <1>1, <1>3 DEF Comes
      <3>5. Ids(st2, k) \subseteq l2[g2[k][n]].frames
        BY <3>1, <3>2, <1>1, <1>3, <1>4 DEF Comes
      <3> QED BY <3>1, <3>2, <3>3, <3>4, <3>5, <1>3 DEF Comes
    <2>2. CASE n \notin DOMAIN g[k]
      <3>1. k = L /\ n = Len(g[L]) + 1 /\ g2[k][n] = N
        BY <2>2, <1>1, <1>11, <1>12, <1>13
      <3>2. st2[k].programs[n] = p
        BY <3>1, <1>5, <1>10
      <3>3. \A m \in DOMAIN st2 : ~(m > k)
        BY <3>1, <1>1
      <3>4. Ids(st2, k) = l2[N].frames
        BY <3>1, <1>1, <1>3, <1>4 DEF L
      <3> QED BY <3>1, <3>2, <3>3, <3>4, <1>0, <1>15 DEF Comes
    <2> QED BY <2>1, <2>2
  <1>17. ASSUME NEW k \in DOMAIN st2, NEW n \in DOMAIN g2[k]
         PROVE  \/ n \in DOMAIN g[k] /\ g2[k][n] = g[k][n] /\ g2[k][n] \in 1..Len(l)
                \/ k = L /\ n = Len(g[L]) + 1 /\ g2[k][n] = N
    <2>1. k \in DOMAIN st
      BY <1>1
    <2>2. CASE n \in DOMAIN g[k]
      <3>1. g2[k][n] = g[k][n]
        BY <2>1, <2>2, <1>11, <1>12, <1>13
      <3> QED BY <2>1, <2>2, <3>1, <1>14
    <2>3. CASE n \notin DOMAIN g[k]
      <3>1. k = L
        BY <2>1, <2>3, <1>13
      <3> QED BY <2>3, <3>1, <1>11, <1>12
    <2> QED BY <2>2, <2>3
  <1>18. ASSUME NEW k \in DOMAIN st2, NEW m \in DOMAIN g2[k], NEW n \in DOMAIN g2[k], m < n
         PROVE  g2[k][m] < g2[k][n]
    <2>1. \A i, j \in DOMAIN g[k] : i < j => g[k][i] < g[k][j]
      BY <1>1, <1>9 DEF Traced
    <2>2. ~(k = L /\ m = Len(g[L]) + 1)
      BY <1>18, <1>11, <1>12
    <2>3. m \in DOMAIN g[k] /\ g2[k][m] = g[k][m] /\ g2[k][m] \in 1..Len(l)
      BY <2>2, <1>17
    <2> QED BY <2>1, <2>3, <1>17, <1>18, <1>3 DEF N
  <1>19. ASSUME NEW j \in DOMAIN st2, NEW k \in DOMAIN st2, j < k,
                NEW m \in DOMAIN g2[j], NEW n \in DOMAIN g2[k]
         PROVE  g2[j][m] < g2[k][n]
    <2>1. \A x \in DOMAIN g[j], y \in DOMAIN g[k] : g[j][x] < g[k][y]
      BY <1>1, <1>9, <1>19 DEF Traced
    <2>2. j # L
      BY <1>1, <1>19
    <2>3. m \in DOMAIN g[j] /\ g2[j][m] = g[j][m] /\ g2[j][m] \in 1..Len(l)
      BY <2>2, <1>17
    <2>4. CASE n \in DOMAIN g[k] /\ g2[k][n] = g[k][n]
      BY <2>1, <2>3, <2>4
    <2>5. CASE g2[k][n] = N
      BY <2>3, <2>5, <1>3 DEF N
    <2> QED BY <2>4, <2>5, <1>17
  <1>20. ASSUME NEW i \in DOMAIN l2, Survives(l2, f, i)
         PROVE  \E k \in DOMAIN st2 : \E n \in DOMAIN g2[k] : g2[k][n] = i
    <2>1. CASE i = N
      <3>1. Len(g[L]) + 1 \in DOMAIN g2[L] /\ g2[L][Len(g[L]) + 1] = N
        BY <1>11, <1>12
      <3> QED BY <2>1, <3>1, <1>1
    <2>2. CASE i \in DOMAIN l
      <3>1. Survives(l, f, i)
        BY <2>2, <1>20, <1>3
      <3>2. PICK k \in DOMAIN st : \E n \in DOMAIN g[k] : g[k][n] = i
        BY <3>1, <2>2, <1>9 DEF Traced
      <3>3. PICK n \in DOMAIN g[k] : g[k][n] = i
        BY <3>2
      <3>4. n \in DOMAIN g2[k] /\ g2[k][n] = g[k][n]
        <4>1. CASE k = L
          BY <4>1, <1>11, <1>12
        <4>2. CASE k # L
          BY <4>2, <1>13
        <4> QED BY <4>1, <4>2
      <3> QED BY <3>3, <3>4, <1>1
    <2> QED BY <2>1, <2>2, <1>3 DEF N
  <1>21. \A k \in DOMAIN st2 : IsSeq(g2[k]) /\ Len(g2[k]) = Len(st2[k].programs)
    <2> SUFFICES ASSUME NEW k \in DOMAIN st2
                 PROVE  IsSeq(g2[k]) /\ Len(g2[k]) = Len(st2[k].programs)
      OBVIOUS
    <2>1. CASE k = L
      BY <2>1, <1>5, <1>10, <1>11, <1>12
    <2>2. CASE k # L
      BY <2>2, <1>1, <1>9, <1>13 DEF Traced, L
    <2> QED BY <2>1, <2>2
  <1>22. Traced(g2, st2, l2, f)
    <2>1. Len(g2) = Len(st2)
      BY <1>12 DEF L
    <2> QED BY <2>1, <1>12, <1>16, <1>18, <1>19, <1>20, <1>21 DEF Traced
  <1> QED BY <1>3, <1>6, <1>8, <1>22 DEF ParsingOK, l2

(* A parser is put on top, with an id that no call and no parser has had.    *)
LEMMA Includes_ ==
  ASSUME NEW st, NEW l, NEW f, ParsingOK(st, l, f), NEW file,
         NEW id \in 0..Len(l), id \notin f,
         \A k \in DOMAIN st : st[k].id # id,
         \A i \in DOMAIN l : id \notin l[i].frames
  PROVE  ParsingOK(Append(st, parser(file, id)), l, f)
  <1> DEFINE p == parser(file, id)
             st2 == Append(st, p)
             L == Len(st)
             None == <<>>
  <1>1. /\ L \in Nat /\ DOMAIN st = 1..L /\ IsSeq(st2) /\ Len(st2) = L + 1
        /\ DOMAIN st2 = 1..(L + 1) /\ \A k \in 1..L : st2[k] = st[k]
        /\ st2[L + 1] = p
    BY SeqFacts, AppendFacts DEF ParsingOK, StackOK
  <1>2. /\ DOMAIN p = ParserFields /\ p.id = id /\ p.suite = NoSuite /\ p.programs = <<>>
        /\ IsSeq(None) /\ Len(None) = 0 /\ DOMAIN None = {}
    BY DEF parser, ParserFields, IsSeq
  <1>3. p.programs = None
    BY <1>2
  <1> HIDE DEF p, st2, L, None
  <1>4. \A k \in 1..(L + 1) : k = L + 1 \/ k \in DOMAIN st
    BY <1>1
  <1>5. \A k \in DOMAIN st : k \in DOMAIN st2 /\ st2[k] = st[k] /\ k # L + 1
    BY <1>1
  <1>6. \A k \in DOMAIN st : Ids(st2, k) = Ids(st, k)
    BY <1>1, Below DEF Ids
  <1>7. id \in Ids(st2, L + 1)
    <2>1. L + 1 \in 1..(L + 1)
      BY <1>1
    <2> QED BY <2>1, <1>1, <1>2 DEF Ids
  <1>8. StackOK(st2, l, f)
    <2>1. ASSUME NEW k \in DOMAIN st2
          PROVE  /\ DOMAIN st2[k] = ParserFields /\ IsSeq(st2[k].programs)
                 /\ st2[k].id \in 0..Len(l) /\ st2[k].id \notin f
      <3>1. CASE k = L + 1
        BY <3>1, <1>1, <1>2, <1>3
      <3>2. CASE k \in DOMAIN st
        BY <3>2, <1>5 DEF ParsingOK, StackOK
      <3> QED BY <3>1, <3>2, <1>1, <1>4
    <2>2. ASSUME NEW j \in DOMAIN st2, NEW k \in DOMAIN st2, st2[j].id = st2[k].id PROVE j = k
      <3>1. CASE j \in DOMAIN st /\ k \in DOMAIN st
        BY <2>2, <3>1, <1>5 DEF ParsingOK, StackOK
      <3>2. CASE j = L + 1 /\ k \in DOMAIN st
        BY <2>2, <3>2, <1>1, <1>2, <1>5
      <3>3. CASE j \in DOMAIN st /\ k = L + 1
        BY <2>2, <3>3, <1>1, <1>2, <1>5
      <3> QED BY <3>1, <3>2, <3>3, <1>1, <1>4
    <2> QED BY <2>1, <2>2, <1>1 DEF StackOK
  <1>9. SuitesOK(st2, l)
    <2>1. ASSUME NEW k \in DOMAIN st2
          PROVE  IF st2[k].suite = NoSuite THEN \A i \in DOMAIN l : ~IsSuite(l, i, Ids(st2, k))
                 ELSE \E i \in DOMAIN l : IsSuite(l, i, Ids(st2, k)) /\ l[i].arg = st2[k].suite
      <3>1. CASE k = L + 1
        <4>1. \A i \in DOMAIN l : ~IsSuite(l, i, Ids(st2, k))
          BY <3>1, <1>7 DEF IsSuite
        <4> QED BY <3>1, <4>1, <1>1, <1>2
      <3>2. CASE k \in DOMAIN st
        BY <3>2, <1>5, <1>6 DEF ParsingOK, SuitesOK
      <3> QED BY <3>1, <3>2, <1>1, <1>4
    <2> QED BY <2>1 DEF ParsingOK, SuitesOK
  <1>10. PICK g : Traced(g, st, l, f)
    BY DEF ParsingOK
  <1> DEFINE g2 == Append(g, None)
  <1>11. /\ IsSeq(g2) /\ Len(g2) = L + 1 /\ DOMAIN g2 = 1..(L + 1)
         /\ \A k \in 1..L : g2[k] = g[k]
         /\ g2[L + 1] = None
    <2>1. IsSeq(g) /\ Len(g) = L
      BY <1>10 DEF Traced, L
    <2> QED BY <2>1, AppendFacts
  <1> HIDE DEF g2
  <1>12. \A k \in DOMAIN st : g2[k] = g[k]
    BY <1>1, <1>11
  <1>13. ASSUME NEW k \in DOMAIN st2, NEW n \in DOMAIN g2[k]
         PROVE  k \in DOMAIN st /\ n \in DOMAIN g[k] /\ g2[k] = g[k]
    BY <1>1, <1>2, <1>4, <1>11, <1>12
  <1>14. ASSUME NEW k \in DOMAIN st2, NEW n \in DOMAIN g2[k] PROVE Comes(g2, st2, l, f, k, n)
    <2>1. k \in DOMAIN st /\ n \in DOMAIN g[k] /\ g2[k] = g[k] /\ st2[k] = st[k] /\ Ids(st2, k) = Ids(st, k)
      BY <1>5, <1>6, <1>13
    <2>2. Comes(g, st, l, f, k, n)
      BY <2>1, <1>10 DEF Traced
    <2>3. g[k][n] \in DOMAIN l
      BY <2>2 DEF Comes, Survives
    <2>4. ASSUME NEW m \in DOMAIN st2, m > k PROVE st2[m].id \notin l[g[k][n]].frames
      <3>1. CASE m = L + 1
        BY <3>1, <2>3, <1>1, <1>2
      <3>2. CASE m \in DOMAIN st
        BY <3>2, <2>2, <2>4, <1>5 DEF Comes
      <3> QED BY <3>1, <3>2, <1>1, <1>4
    <2> QED BY <2>1, <2>2, <2>4 DEF Comes
  <1>15. \A k \in DOMAIN st2 : IsSeq(g2[k]) /\ Len(g2[k]) = Len(st2[k].programs)
    <2> SUFFICES ASSUME NEW k \in DOMAIN st2
                 PROVE  IsSeq(g2[k]) /\ Len(g2[k]) = Len(st2[k].programs)
      OBVIOUS
    <2>1. CASE k = L + 1
      BY <2>1, <1>1, <1>2, <1>3, <1>11
    <2>2. CASE k \in DOMAIN st
      BY <2>2, <1>5, <1>10, <1>12 DEF Traced
    <2> QED BY <2>1, <2>2, <1>1, <1>4
  <1>16. \A k \in DOMAIN st2 : \A m, n \in DOMAIN g2[k] : m < n => g2[k][m] < g2[k][n]
    BY <1>13, <1>10 DEF Traced
  <1>17. ASSUME NEW j \in DOMAIN st2, NEW k \in DOMAIN st2, j < k,
                NEW m \in DOMAIN g2[j], NEW n \in DOMAIN g2[k]
         PROVE  g2[j][m] < g2[k][n]
    <2>1. /\ j \in DOMAIN st /\ m \in DOMAIN g[j] /\ g2[j] = g[j]
          /\ k \in DOMAIN st /\ n \in DOMAIN g[k] /\ g2[k] = g[k]
      BY <1>13
    <2> QED BY <2>1, <1>10, <1>17 DEF Traced
  <1>18. \A i \in DOMAIN l : Survives(l, f, i) => \E k \in DOMAIN st2 : \E n \in DOMAIN g2[k] : g2[k][n] = i
    BY <1>5, <1>10, <1>12 DEF Traced
  <1>19. Traced(g2, st2, l, f)
    BY <1>1, <1>11, <1>14, <1>15, <1>16, <1>17, <1>18 DEF Traced
  <1> QED BY <1>8, <1>9, <1>19 DEF ParsingOK, st2, p

(* An included file ends: its programs become its includer's.                *)
LEMMA Returns_ ==
  ASSUME NEW st, NEW l, NEW f, ParsingOK(st, l, f), NEW K \in Nat, K > 0, Len(st) = K + 1
  PROVE  ParsingOK(Append(SubSeq(st, 1, K - 1), callback_include(st[K], st[K + 1].programs)), l, f)
  <1> DEFINE p == callback_include(st[K], st[K + 1].programs)
             st2 == Append(SubSeq(st, 1, K - 1), p)
  <1>1. /\ IsSeq(st) /\ DOMAIN st = 1..(K + 1) /\ K \in DOMAIN st /\ K + 1 \in DOMAIN st
        /\ \A k \in 1..K : k \in DOMAIN st
    BY SeqFacts DEF ParsingOK, StackOK
  <1>2. /\ IsSeq(st2) /\ Len(st2) = K /\ DOMAIN st2 = 1..K
        /\ \A k \in 1..(K - 1) : st2[k] = st[k]
        /\ st2[K] = p
    <2>1. K - 1 \in 0..Len(st) /\ (K - 1) + 1 = K
      OBVIOUS
    <2> QED BY <2>1, <1>1, CutAppend
  <1>3. \A k \in 1..K : k = K \/ k \in 1..(K - 1)
    OBVIOUS
  <1>4. \A k \in DOMAIN st : DOMAIN st[k] = ParserFields /\ IsSeq(st[k].programs)
    BY DEF ParsingOK, StackOK
  <1> DEFINE own == st[K].programs
             sub == st[K + 1].programs
  <1>5. /\ DOMAIN p = ParserFields /\ p.id = st[K].id /\ p.suite = st[K].suite
        /\ p.programs = own \o sub
    BY <1>1, <1>4 DEF callback_include, ParserFields
  <1>6. /\ IsSeq(own \o sub) /\ Len(own \o sub) = Len(own) + Len(sub)
        /\ \A n \in 1..Len(own) : (own \o sub)[n] = own[n]
        /\ \A n \in 1..Len(sub) : (own \o sub)[Len(own) + n] = sub[n]
        /\ Len(own) \in Nat /\ Len(sub) \in Nat
    <2>1. IsSeq(own) /\ IsSeq(sub)
      BY <1>1, <1>4
    <2> HIDE DEF own, sub
    <2> QED BY <2>1, ConcatFacts, SeqFacts
  <1> HIDE DEF p, st2
  <1>7. \A k \in 1..K : /\ DOMAIN st2[k] = ParserFields /\ st2[k].id = st[k].id /\ st2[k].suite = st[k].suite
                        /\ IsSeq(st2[k].programs)
                        /\ k # K => st2[k].programs = st[k].programs
    <2> SUFFICES ASSUME NEW k \in 1..K
                 PROVE  /\ DOMAIN st2[k] = ParserFields /\ st2[k].id = st[k].id /\ st2[k].suite = st[k].suite
                        /\ IsSeq(st2[k].programs)
                        /\ k # K => st2[k].programs = st[k].programs
      OBVIOUS
    <2>1. CASE k = K
      BY <2>1, <1>2, <1>5, <1>6
    <2>2. CASE k # K
      BY <2>2, <1>1, <1>2, <1>3, <1>4
    <2> QED BY <2>1, <2>2
  <1>8. \A k \in 1..K : Ids(st2, k) = Ids(st, k)
    BY <1>7, Below DEF Ids
  <1>9. StackOK(st2, l, f)
    <2>1. \A k \in 1..K : st2[k].id \in 0..Len(l) /\ st2[k].id \notin f
      BY <1>1, <1>7 DEF ParsingOK, StackOK
    <2>2. \A j, k \in 1..K : st2[j].id = st2[k].id => j = k
      BY <1>1, <1>7 DEF ParsingOK, StackOK
    <2> QED BY <2>1, <2>2, <1>2, <1>7 DEF StackOK
  <1>10. SuitesOK(st2, l)
    <2>1. \A k \in 1..K :
            IF st2[k].suite = NoSuite THEN \A i \in DOMAIN l : ~IsSuite(l, i, Ids(st2, k))
            ELSE \E i \in DOMAIN l : IsSuite(l, i, Ids(st2, k)) /\ l[i].arg = st2[k].suite
      BY <1>1, <1>7, <1>8 DEF ParsingOK, SuitesOK
    <2> QED BY <2>1, <1>2 DEF ParsingOK, SuitesOK
  <1>11. PICK g : Traced(g, st, l, f)
    BY DEF ParsingOK
  <1> DEFINE a == g[K]
             b == g[K + 1]
             g2 == Append(SubSeq(g, 1, K - 1), a \o b)
  <1>12. IsSeq(a) /\ IsSeq(b) /\ Len(a) = Len(own) /\ Len(b) = Len(sub)
    BY <1>1, <1>11 DEF Traced
  <1>13. /\ IsSeq(g2) /\ Len(g2) = K /\ DOMAIN g2 = 1..K
         /\ \A k \in 1..(K - 1) : g2[k] = g[k]
         /\ g2[K] = a \o b
    <2>1. IsSeq(g) /\ Len(g) = K + 1
      BY <1>11 DEF Traced
    <2>2. K - 1 \in 0..Len(g) /\ (K - 1) + 1 = K
      BY <2>1
    <2> HIDE DEF a, b
    <2> QED BY <2>1, <2>2, CutAppend
  <1> HIDE DEF g2
  <1>14. /\ IsSeq(a \o b) /\ Len(a \o b) = Len(a) + Len(b) /\ Len(a) \in Nat /\ Len(b) \in Nat
         /\ DOMAIN (a \o b) = 1..(Len(a) + Len(b)) /\ DOMAIN a = 1..Len(a) /\ DOMAIN b = 1..Len(b)
         /\ \A n \in 1..Len(a) : (a \o b)[n] = a[n]
         /\ \A n \in 1..Len(b) : (a \o b)[Len(a) + n] = b[n]
    <2>1. IsSeq(a) /\ IsSeq(b)
      BY <1>12
    <2> HIDE DEF a, b
    <2>2. /\ IsSeq(a \o b) /\ Len(a \o b) = Len(a) + Len(b)
          /\ DOMAIN (a \o b) = 1..(Len(a) + Len(b))
          /\ \A n \in 1..Len(a) : (a \o b)[n] = a[n]
          /\ \A n \in 1..Len(b) : (a \o b)[Len(a) + n] = b[n]
      BY <2>1, ConcatFacts
    <2>3. Len(a) \in Nat /\ Len(b) \in Nat /\ DOMAIN a = 1..Len(a) /\ DOMAIN b = 1..Len(b)
      BY <2>1, SeqFacts
    <2> QED BY <2>2, <2>3
  <1> DEFINE A == Len(a)
             B == Len(b)
  <1>15. /\ DOMAIN g2[K] = 1..(A + B) /\ A \in Nat /\ B \in Nat
         /\ IsSeq(g2[K]) /\ Len(g2[K]) = Len(st2[K].programs)
         /\ DOMAIN g[K] = 1..A /\ DOMAIN g[K + 1] = 1..B
         /\ \A n \in 1..A : g2[K][n] = g[K][n] /\ st2[K].programs[n] = st[K].programs[n]
         /\ \A n \in 1..B : g2[K][A + n] = g[K + 1][n] /\ st2[K].programs[A + n] = st[K + 1].programs[n]
    BY <1>2, <1>5, <1>6, <1>12, <1>13, <1>14
  <1> HIDE DEF A, B, a, b, own, sub
  <1>16. \A n \in 1..(A + B) : n \in 1..A \/ \E m \in 1..B : n = A + m
    <2> SUFFICES ASSUME NEW n \in 1..(A + B), n \notin 1..A PROVE \E m \in 1..B : n = A + m
      OBVIOUS
    <2>1. n - A \in 1..B /\ n = A + (n - A)
      BY <1>15
    <2> QED BY <2>1
  <1>17. \A k \in 1..K : k # K => g2[k] = g[k] /\ k \in 1..(K - 1)
    BY <1>13
  (* Each program was the K-th parser's or the next one's.                   *)
  <1>18. ASSUME NEW k \in 1..K, NEW n \in DOMAIN g2[k]
         PROVE  \/ /\ n \in DOMAIN g[k] /\ g2[k][n] = g[k][n]
                   /\ st2[k].programs[n] = st[k].programs[n]
                \/ /\ k = K
                   /\ \E m \in DOMAIN g[K + 1] :
                        /\ n = A + m /\ g2[k][n] = g[K + 1][m]
                        /\ st2[k].programs[n] = st[K + 1].programs[m]
    <2>1. CASE k # K
      BY <2>1, <1>7, <1>17
    <2>2. CASE k = K
      <3>1. n \in 1..(A + B)
        BY <2>2, <1>15
      <3>2. CASE n \in 1..A
        BY <2>2, <3>2, <1>15
      <3>3. CASE \E m \in 1..B : n = A + m
        <4>1. PICK m \in 1..B : n = A + m
          BY <3>3
        <4>2. /\ m \in DOMAIN g[K + 1] /\ g2[k][n] = g[K + 1][m]
              /\ st2[k].programs[n] = st[K + 1].programs[m]
          BY <2>2, <4>1, <1>15
        <4> QED BY <2>2, <4>1, <4>2
      <3> QED BY <3>1, <3>2, <3>3, <1>16
    <2> QED BY <2>1, <2>2
  <1>19. ASSUME NEW k \in 1..K, NEW n \in DOMAIN g2[k] PROVE Comes(g2, st2, l, f, k, n)
    <2>1. CASE /\ n \in DOMAIN g[k] /\ g2[k][n] = g[k][n]
               /\ st2[k].programs[n] = st[k].programs[n]
      <3>1. Comes(g, st, l, f, k, n)
        BY <2>1, <1>1, <1>11 DEF Traced
      <3>2. \A m \in DOMAIN st2 : m > k => st2[m].id \notin l[g2[k][n]].frames
        BY <3>1, <2>1, <1>1, <1>2, <1>7 DEF Comes
      <3> QED BY <2>1, <3>1, <3>2, <1>8 DEF Comes
    <2>2. ASSUME k = K, NEW m \in DOMAIN g[K + 1], n = A + m, g2[k][n] = g[K + 1][m],
                 st2[k].programs[n] = st[K + 1].programs[m]
          PROVE  Comes(g2, st2, l, f, k, n)
      <3>1. Comes(g, st, l, f, K + 1, m)
        BY <1>1, <1>11 DEF Traced
      <3>2. Ids(st, K) \subseteq Ids(st, K + 1)
        BY DEF Ids
      <3>3. \A j \in DOMAIN st2 : ~(j > k)
        BY <2>2, <1>2
      <3>4. Ids(st2, k) = Ids(st, K)
        BY <2>2, <1>8
      <3> QED BY <2>2, <3>1, <3>2, <3>3, <3>4 DEF Comes
    <2> QED BY <2>1, <2>2, <1>18
  <1>20. \A k \in DOMAIN st : \A m, n \in DOMAIN g[k] : m < n => g[k][m] < g[k][n]
    BY <1>11 DEF Traced
  <1>21. \A j, k \in DOMAIN st : j < k => \A m \in DOMAIN g[j], n \in DOMAIN g[k] : g[j][m] < g[k][n]
    BY <1>11 DEF Traced
  <1>22. ASSUME NEW k \in 1..K, NEW m \in DOMAIN g2[k], NEW n \in DOMAIN g2[k], m < n
         PROVE  g2[k][m] < g2[k][n]
    <2>1. CASE k # K
      BY <2>1, <1>1, <1>17, <1>20, <1>22
    <2>2. CASE k = K
      <3>1. m \in 1..(A + B) /\ n \in 1..(A + B)
        BY <2>2, <1>15
      <3>2. CASE m \in 1..A /\ n \in 1..A
        BY <2>2, <3>2, <1>1, <1>15, <1>20, <1>22
      <3>3. ASSUME NEW j \in 1..B, n = A + j, m \in 1..A PROVE g2[k][m] < g2[k][n]
        <4>1. g2[k][m] = g[K][m] /\ g2[k][n] = g[K + 1][j] /\ m \in DOMAIN g[K] /\ j \in DOMAIN g[K + 1]
          BY <2>2, <3>3, <1>15
        <4>2. K < K + 1
          OBVIOUS
        <4> QED BY <4>1, <4>2, <1>1, <1>21
      <3>4. ASSUME NEW i \in 1..B, m = A + i, NEW j \in 1..B, n = A + j PROVE g2[k][m] < g2[k][n]
        <4>1. i < j
          BY <3>4, <1>22, <1>15
        <4>2. g2[k][m] = g[K + 1][i] /\ g2[k][n] = g[K + 1][j] /\ i \in DOMAIN g[K + 1] /\ j \in DOMAIN g[K + 1]
          BY <2>2, <3>4, <1>15
        <4> QED BY <4>1, <4>2, <1>1, <1>20
      <3>5. ASSUME NEW i \in 1..B, m = A + i, n \in 1..A PROVE FALSE
        BY <3>5, <1>22, <1>15
      <3> QED BY <3>1, <3>2, <3>3, <3>4, <3>5, <1>16
    <2> QED BY <2>1, <2>2
  <1>23. ASSUME NEW j \in 1..K, NEW k \in 1..K, j < k,
                NEW m \in DOMAIN g2[j], NEW n \in DOMAIN g2[k]
         PROVE  g2[j][m] < g2[k][n]
    <2>1. j # K /\ j < K + 1
      BY <1>23
    <2>2. m \in DOMAIN g[j] /\ g2[j][m] = g[j][m]
      BY <2>1, <1>17
    <2>3. CASE n \in DOMAIN g[k] /\ g2[k][n] = g[k][n]
      BY <2>2, <2>3, <1>1, <1>21, <1>23
    <2>4. ASSUME NEW i \in DOMAIN g[K + 1], g2[k][n] = g[K + 1][i] PROVE g2[j][m] < g2[k][n]
      BY <2>1, <2>2, <2>4, <1>1, <1>21
    <2> QED BY <2>3, <2>4, <1>18
  <1>24. ASSUME NEW i \in DOMAIN l, Survives(l, f, i)
         PROVE  \E k \in 1..K : \E n \in DOMAIN g2[k] : g2[k][n] = i
    <2>1. PICK k \in DOMAIN st : \E n \in DOMAIN g[k] : g[k][n] = i
      BY <1>24, <1>11 DEF Traced
    <2>2. PICK n \in DOMAIN g[k] : g[k][n] = i
      BY <2>1
    <2>3. CASE k = K + 1
      <3>1. A + n \in DOMAIN g2[K] /\ g2[K][A + n] = i
        BY <2>2, <2>3, <1>15
      <3>2. K \in 1..K
        OBVIOUS
      <3> QED BY <3>1, <3>2
    <2>4. CASE k = K
      <3>1. n \in DOMAIN g2[K] /\ g2[K][n] = i /\ K \in 1..K
        BY <2>2, <2>4, <1>15
      <3> QED BY <3>1
    <2>5. CASE k # K /\ k # K + 1
      <3>1. k \in 1..K
        BY <2>5, <1>1
      <3> QED BY <3>1, <2>2, <2>5, <1>17
    <2> QED BY <2>3, <2>4, <2>5
  <1>25. \A k \in 1..K : IsSeq(g2[k]) /\ Len(g2[k]) = Len(st2[k].programs)
    <2> SUFFICES ASSUME NEW k \in 1..K PROVE IsSeq(g2[k]) /\ Len(g2[k]) = Len(st2[k].programs)
      OBVIOUS
    <2>1. CASE k = K
      BY <2>1, <1>15
    <2>2. CASE k # K
      BY <2>2, <1>1, <1>7, <1>11, <1>17 DEF Traced
    <2> QED BY <2>1, <2>2
  <1>26. Traced(g2, st2, l, f)
    BY <1>2, <1>13, <1>19, <1>22, <1>23, <1>24, <1>25 DEF Traced
  <1> QED BY <1>9, <1>10, <1>26 DEF ParsingOK, st2, p

(* h names the calls that made the programs of a Kyuafile, in order.         *)
Ended(h, ps, l, f) ==
  /\ IsSeq(h) /\ IsSeq(ps) /\ Len(h) = Len(ps)
  /\ \A n \in DOMAIN h : Survives(l, f, h[n]) /\ Made(l, h[n], ps[n])
  /\ \A m, n \in DOMAIN h : m < n => h[m] < h[n]
  /\ \A i \in DOMAIN l : Survives(l, f, i) => \E n \in DOMAIN h : h[n] = i

OneSuite(l) == \A i, j \in DOMAIN l : IsSuite(l, i, l[j].frames) /\ l[j].op = "test_suite" => i = j

LoadedOK(ps, l, f) == LogOK(l, f) /\ OneSuite(l) /\ \E h : Ended(h, ps, l, f)

(* The scanner goes through the programs in order, and lists one only once.  *)
Past == Len(programs) - Len(pending)
Behind(y) ==
  /\ y.index \in 1..Len(programs)
  /\ y.index <= Past \/ (y.index = Past + 1 /\ pending # <<>> /\ first # NoCases)

(* A case that was yielded is one of its program, checked against the host.  *)
Checked(y) ==
  LET p == programs[y.index]
  IN /\ p.cases \in Lists /\ y.case \in DOMAIN p.cases
     /\ y.reason = check_reqs(get_metadata(p, y.case), host, p.suite)

ScanOK ==
  /\ host \in Hosts
  /\ IsSeq(pending) /\ Len(pending) <= Len(programs)
  /\ \A k \in DOMAIN pending : pending[k] = Past + k
  /\ IsSeq(first)
  /\ first # NoCases =>
       /\ pending # <<>> /\ programs[Head(pending)].cases \in Lists
       /\ \A k \in DOMAIN first : first[k] \in DOMAIN programs[Head(pending)].cases
  /\ IsSeq(yielded) /\ \A k \in DOMAIN yielded : Behind(yielded[k]) /\ Checked(yielded[k])

LoadInv ==
  /\ phase = "parsing" => stack # <<>> /\ ParsingOK(stack, log, failed)
  /\ Loaded => LoadedOK(programs, log, failed)
  /\ phase \notin {"scanning", "done"} => pending = <<>> /\ first = NoCases /\ yielded = <<>>
  /\ phase \in {"scanning", "done"} => ScanOK

LEMMA EmptyIsSeq == IsSeq(<<>>) /\ Len(<<>>) = 0 /\ DOMAIN <<>> = {}
  BY DEF IsSeq

LEMMA LoadStarts == ASSUME Init PROVE LoadInv
  <1> DEFINE p == [id |-> 0, file |-> TopFile, version |-> NoVersion, programs |-> <<>>, suite |-> NoSuite]
             st == <<p>>
             g == << <<>> >>
  <1>1. stack = st /\ log = <<>> /\ failed = {} /\ phase = "parsing"
    BY DEF Init
  <1>2. st \in Seq({p}) /\ Len(st) = 1 /\ DOMAIN st = {1} /\ st[1] = p
    OBVIOUS
  <1>3. g \in Seq({<<>>}) /\ Len(g) = 1 /\ g[1] = <<>>
    OBVIOUS
  <1>4. DOMAIN p = ParserFields /\ p.id = 0 /\ p.suite = NoSuite /\ p.programs = <<>>
    BY DEF ParserFields
  <1> HIDE DEF st, g, p
  <1>5. IsSeq(st) /\ IsSeq(g)
    BY <1>2, <1>3, ASequence
  <1>6. StackOK(st, <<>>, {})
    BY <1>2, <1>4, <1>5, EmptyIsSeq DEF StackOK
  <1>7. LogOK(<<>>, {})
    BY EmptyIsSeq DEF LogOK
  <1>8. SuitesOK(st, <<>>)
    BY <1>2, <1>4, EmptyIsSeq DEF SuitesOK
  <1>9. Traced(g, st, <<>>, {})
    BY <1>2, <1>3, <1>4, <1>5, EmptyIsSeq DEF Traced
  <1>10. ParsingOK(st, <<>>, {})
    BY <1>6, <1>7, <1>8, <1>9 DEF ParsingOK
  <1>11. stack # <<>>
    BY <1>1, <1>2
  <1> QED BY <1>1, <1>10, <1>11 DEF LoadInv, Init, Loaded

(* What is left of the stack when an exception is caught, if it is.          *)
LEMMA Throws_ ==
  ASSUME phase = "parsing", stack # <<>>, ParsingOK(stack, log', failed),
         NEW ks, ks \subseteq 0..Len(stack), Throw(ks),
         pending = <<>> /\ first = NoCases /\ yielded = <<>>
  PROVE  LoadInv'
  <1>1. PICK k \in ks :
          /\ stack' = SubSeq(stack, 1, k)
          /\ failed' = failed \cup {stack[i].id : i \in (k + 1)..Len(stack)}
          /\ phase' = IF k = 0 THEN "failed" ELSE phase
          /\ UNCHANGED <<programs, scanning>>
    BY DEF Throw
  <1>2. k \in 0..Len(stack) /\ IsSeq(stack)
    BY DEF ParsingOK, StackOK
  <1>3. ParsingOK(stack', log', failed')
    BY <1>1, <1>2, Unwinds
  <1>4. k # 0 => stack' # <<>>
    <2>1. Len(stack') = k
      BY <1>1, <1>2, CutFacts
    <2> QED BY <2>1, EmptyIsSeq
  <1> QED BY <1>1, <1>3, <1>4 DEF LoadInv, Loaded, scanning

(* What every call starts from.                                              *)
LEMMA Parsing ==
  ASSUME LoadInv, phase = "parsing"
  PROVE  /\ stack # <<>> /\ IsSeq(stack) /\ Len(stack) \in Nat \ {0} /\ DOMAIN stack = 1..Len(stack)
         /\ ParsingOK(stack, log, failed) /\ Top = stack[Len(stack)] /\ Len(stack) \in DOMAIN stack
         /\ Chain = Ids(stack, Len(stack)) /\ Chain \subseteq 0..Len(log)
         /\ IsSeq(log) /\ Len(log) \in Nat
         /\ pending = <<>> /\ first = NoCases /\ yielded = <<>>
  <1>1. stack # <<>> /\ ParsingOK(stack, log, failed)
    BY DEF LoadInv
  <1>2. IsSeq(stack) /\ IsSeq(log)
    BY <1>1 DEF ParsingOK, StackOK, LogOK
  <1>3. Len(stack) \in Nat \ {0} /\ DOMAIN stack = 1..Len(stack) /\ Len(log) \in Nat
    BY <1>1, <1>2, TailFacts, SeqFacts
  <1>4. Chain = Ids(stack, Len(stack))
    BY <1>3 DEF Chain, Ids
  <1>5. Chain \subseteq 0..Len(log)
    BY <1>1 DEF Chain, ParsingOK, StackOK
  <1> QED BY <1>1, <1>2, <1>3, <1>4, <1>5 DEF LoadInv, Top, Last

LEMMA CallFailsKeeps ==
  ASSUME LoadInv, phase = "parsing", NEW arg, CallFails(arg)
  PROVE  LoadInv'
  <1> DEFINE e == [op |-> "failure", frames |-> Chain, file |-> Top.file, arg |-> arg]
  <1>1. log' = Append(log, e)
    BY DEF CallFails, Record
  <1>2. e.frames \subseteq 0..Len(log) /\ e.op \notin {"test_program", "test_suite"}
    BY Parsing
  <1> HIDE DEF e
  <1>3. ParsingOK(stack, log', failed)
    BY <1>1, <1>2, Parsing, RecordsOther
  <1>4. Caught \subseteq 0..Len(stack)
    BY DEF Caught
  <1> QED BY <1>3, <1>4, Parsing, Throws_ DEF CallFails

(* The parsers below the top stay as they are.                               *)
LEMMA TopChanges ==
  ASSUME LoadInv, phase = "parsing", NEW p, DOMAIN p = ParserFields, p.id = Top.id
  PROVE  LET st2 == SetTop(p)
         IN /\ IsSeq(st2) /\ Len(st2) = Len(stack) /\ st2 # <<>>
            /\ st2[Len(stack)] = p
            /\ \A k \in DOMAIN stack : /\ DOMAIN st2[k] = ParserFields /\ st2[k].id = stack[k].id
                                       /\ k # Len(stack) => st2[k] = stack[k]
  <1> DEFINE st2 == SetTop(p)
             L == Len(stack)
  <1>1. /\ IsSeq(st2) /\ Len(st2) = L /\ L \in Nat \ {0}
        /\ \A k \in 1..(L - 1) : st2[k] = stack[k]
        /\ st2[L] = p /\ Top = stack[L]
    BY Parsing, SetTopFacts
  <1>2. DOMAIN stack = 1..L /\ \A k \in DOMAIN stack : DOMAIN stack[k] = ParserFields
    BY Parsing DEF ParsingOK, StackOK
  <1>3. \A k \in 1..L : k = L \/ k \in 1..(L - 1)
    BY <1>1
  <1> HIDE DEF st2, L
  <1>4. st2 # <<>>
    BY <1>1, EmptyIsSeq
  <1> QED BY <1>1, <1>2, <1>3, <1>4 DEF st2, L

LEMMA TopFields ==
  ASSUME LoadInv, phase = "parsing"
  PROVE  DOMAIN Top = ParserFields
  BY Parsing DEF ParsingOK, StackOK

LEMMA CallSyntaxKeeps == ASSUME LoadInv, CallSyntax PROVE LoadInv'
  <1>1. phase = "parsing"
    BY DEF CallSyntax, Calling
  <1>2. PICK call \in SyntaxCalls :
          IF lua_syntax(call) /\ callback_syntax(call)
          THEN /\ Record("syntax", call)
               /\ stack' = SetTop([Top EXCEPT !.version = call.version])
               /\ UNCHANGED <<phase, programs, failed, scanning>>
          ELSE CallFails(call)
    BY DEF CallSyntax
  <1>3. CASE lua_syntax(call) /\ callback_syntax(call)
    <2> DEFINE e == [op |-> "syntax", frames |-> Chain, file |-> Top.file, arg |-> call]
               p == [Top EXCEPT !.version = call.version]
    <2>1. log' = Append(log, e) /\ stack' = SetTop(p) /\ UNCHANGED <<phase, programs, failed, scanning>>
      BY <1>2, <1>3 DEF Record
    <2>2. e.frames \subseteq 0..Len(log) /\ e.op \notin {"test_program", "test_suite"}
      BY <1>1, Parsing
    <2>3. /\ DOMAIN p = ParserFields /\ p.id = Top.id /\ p.suite = Top.suite /\ p.programs = Top.programs
      BY <1>1, TopFields DEF ParserFields
    <2> HIDE DEF e, p
    <2>4. ParsingOK(stack, log', failed)
      BY <1>1, <2>1, <2>2, Parsing, RecordsOther
    <2>5. /\ IsSeq(stack') /\ Len(stack') = Len(stack) /\ stack' # <<>>
          /\ \A k \in DOMAIN stack : /\ DOMAIN stack'[k] = ParserFields /\ stack'[k].id = stack[k].id
                                     /\ stack'[k].suite = stack[k].suite
                                     /\ stack'[k].programs = stack[k].programs
      <3>1. /\ stack'[Len(stack)] = p /\ Top = stack[Len(stack)]
            /\ IsSeq(stack') /\ Len(stack') = Len(stack) /\ stack' # <<>>
            /\ \A k \in DOMAIN stack : /\ DOMAIN stack'[k] = ParserFields /\ stack'[k].id = stack[k].id
                                       /\ k # Len(stack) => stack'[k] = stack[k]
        BY <1>1, <2>1, <2>3, TopChanges, Parsing
      <3> QED BY <3>1, <2>3
    <2>6. ParsingOK(stack', log', failed)
      BY <2>4, <2>5, LearnsVersion
    <2> QED BY <1>1, <2>1, <2>5, <2>6, Parsing DEF LoadInv, Loaded, scanning
  <1>4. CASE ~(lua_syntax(call) /\ callback_syntax(call))
    BY <1>1, <1>2, <1>4, CallFailsKeeps
  <1> QED BY <1>3, <1>4

LEMMA CallTestSuiteKeeps == ASSUME LoadInv, CallTestSuite PROVE LoadInv'
  <1>1. phase = "parsing"
    BY DEF CallTestSuite, Calling
  <1>2. PICK name \in Suites :
          IF Top.suite = NoSuite
          THEN /\ Record("test_suite", name)
               /\ stack' = SetTop([Top EXCEPT !.suite = name])
               /\ UNCHANGED <<phase, programs, failed, scanning>>
          ELSE CallFails(name)
    BY DEF CallTestSuite
  <1>3. CASE Top.suite = NoSuite
    <2> DEFINE e == [op |-> "test_suite", frames |-> Chain, file |-> Top.file, arg |-> name]
               p == [Top EXCEPT !.suite = name]
    <2>1. log' = Append(log, e) /\ stack' = SetTop(p) /\ UNCHANGED <<phase, programs, failed, scanning>>
      BY <1>2, <1>3 DEF Record
    <2>2. e.frames = Ids(stack, Len(stack)) /\ e.op = "test_suite" /\ e.arg = name /\ name # NoSuite
      BY <1>1, Parsing, NamesAssumption
    <2>3. DOMAIN p = ParserFields /\ p.id = Top.id /\ p.suite = name /\ p.programs = Top.programs
      BY <1>1, TopFields DEF ParserFields
    <2> HIDE DEF e, p
    <2>4. /\ stack'[Len(stack)] = p /\ Top = stack[Len(stack)]
          /\ IsSeq(stack') /\ Len(stack') = Len(stack) /\ stack' # <<>>
          /\ \A k \in DOMAIN stack : /\ DOMAIN stack'[k] = ParserFields /\ stack'[k].id = stack[k].id
                                     /\ k # Len(stack) => stack'[k] = stack[k]
      BY <1>1, <2>1, <2>3, TopChanges, Parsing
    <2>5. \A k \in DOMAIN stack : /\ DOMAIN stack'[k] = ParserFields /\ stack'[k].id = stack[k].id
                                  /\ stack'[k].programs = stack[k].programs
                                  /\ stack'[k].suite = IF k = Len(stack) THEN name ELSE stack[k].suite
      BY <2>3, <2>4
    <2>6. ParsingOK(stack, log, failed) /\ Len(stack) > 0 /\ stack[Len(stack)].suite = NoSuite
      BY <1>1, <1>3, <2>4, Parsing
    <2>7. ParsingOK(stack', Append(log, e), failed)
      BY <2>2, <2>4, <2>5, <2>6, DeclaresSuite
    <2> QED BY <1>1, <2>1, <2>4, <2>7, Parsing DEF LoadInv, Loaded, scanning
  <1>4. CASE Top.suite # NoSuite
    BY <1>1, <1>2, <1>4, CallFailsKeeps
  <1> QED BY <1>3, <1>4

LEMMA CallIncludeKeeps == ASSUME LoadInv, CallInclude PROVE LoadInv'
  <1>1. phase = "parsing"
    BY DEF CallInclude, Calling
  <1>2. PICK raw \in Includes :
          \/ /\ Record("include", raw)
             /\ stack' = Append(stack, parser(relativize(branch_path(Top.file), raw), Calls + 1))
             /\ UNCHANGED <<phase, programs, failed, scanning>>
          \/ CallFails(raw)
    BY DEF CallInclude
  <1>3. CASE CallFails(raw)
    BY <1>1, <1>3, CallFailsKeeps
  <1>4. ASSUME Record("include", raw),
               stack' = Append(stack, parser(relativize(branch_path(Top.file), raw), Calls + 1)),
               UNCHANGED <<phase, programs, failed, scanning>>
        PROVE  LoadInv'
    <2> DEFINE e == [op |-> "include", frames |-> Chain, file |-> Top.file, arg |-> raw]
               file == relativize(branch_path(Top.file), raw)
               id == Len(log) + 1
    <2>1. log' = Append(log, e) /\ stack' = Append(stack, parser(file, id))
      BY <1>4 DEF Record, Calls
    <2>2. e.frames \subseteq 0..Len(log) /\ e.op \notin {"test_program", "test_suite"}
      BY <1>1, Parsing
    <2> HIDE DEF e, file
    <2>3. ParsingOK(stack, log', failed)
      BY <1>1, <2>1, <2>2, Parsing, RecordsOther
    <2>4. /\ Len(log) \in Nat /\ Len(log') = Len(log) + 1 /\ log'[Len(log) + 1] = e
          /\ DOMAIN log = 1..Len(log) /\ DOMAIN log' = 1..(Len(log) + 1)
          /\ \A i \in DOMAIN log : log'[i] = log[i]
      BY <1>1, <2>1, Parsing, AppendFacts, SeqFacts
    <2>5. ASSUME NEW i \in DOMAIN log' PROVE id \notin log'[i].frames
      <3>1. CASE i = Len(log) + 1
        BY <3>1, <2>2, <2>4
      <3>2. CASE i \in DOMAIN log
        <4>1. log'[i].frames \subseteq 0..Len(log)
          BY <3>2, <2>4, <1>1, Parsing DEF ParsingOK, LogOK
        <4> QED BY <4>1, <2>4
      <3> QED BY <3>1, <3>2, <2>4
    <2>6. ASSUME NEW k \in DOMAIN stack PROVE stack[k].id # id
      <3>1. stack[k].id \in 0..Len(log)
        BY <1>1, Parsing DEF ParsingOK, StackOK
      <3> QED BY <3>1, <2>4
    <2>7. id \in 0..Len(log') /\ id \notin failed
      <3>1. failed \subseteq 0..Len(log)
        BY <1>1, Parsing DEF ParsingOK, LogOK
      <3> QED BY <3>1, <2>4
    <2> HIDE DEF id
    <2>8. ParsingOK(stack', log', failed)
      BY <2>1, <2>3, <2>5, <2>6, <2>7, Includes_
    <2>9. stack' # <<>>
      <3>1. Len(stack') = Len(stack) + 1 /\ Len(stack) \in Nat
        BY <1>1, <2>1, Parsing, AppendFacts
      <3> QED BY <3>1, EmptyIsSeq
    <2> QED BY <1>1, <1>4, <2>8, <2>9, Parsing DEF LoadInv, Loaded, scanning
  <1> QED BY <1>2, <1>3, <1>4

(* A definition that is accepted makes the program that it says.             *)
LEMMA DefinitionMakes ==
  ASSUME LoadInv, phase = "parsing", NEW d \in Definitions, ValidDefinition(d)
  PROVE  LET e == [op |-> "test_program", frames |-> Chain, file |-> Top.file, arg |-> d]
         IN Made(Append(log, e), Len(log) + 1, test_program(d))
  <1> DEFINE e == [op |-> "test_program", frames |-> Chain, file |-> Top.file, arg |-> d]
             l2 == Append(log, e)
             N == Len(log) + 1
             p == test_program(d)
  <1>1. /\ Len(log) \in Nat /\ l2[N] = e /\ DOMAIN log = 1..Len(log)
        /\ \A i \in DOMAIN log : l2[i] = log[i]
    BY Parsing, AppendFacts, SeqFacts
  <1>2. e.frames = Ids(stack, Len(stack)) /\ e.file = Top.file /\ e.arg = d
    BY Parsing
  <1> HIDE DEF e, l2
  <1>3. DOMAIN p = ProgramFields
    BY DEF test_program, ProgramFields
  <1>4. p.md = set_strings(l2[N].arg.props) /\ Sized(p.md)
    BY <1>1, <1>2, SizesAssumption DEF test_program, ValidDefinition
  <1>5. p.path = relativize(branch_path(l2[N].file), l2[N].arg.name)
    BY <1>1, <1>2 DEF test_program
  <1>6. IF l2[N].arg.suite # "" THEN p.suite = l2[N].arg.suite
        ELSE \E j \in 1..(N - 1) : IsSuite(l2, j, l2[N].frames) /\ l2[j].arg = p.suite
    <2>1. CASE d.suite # ""
      BY <2>1, <1>1, <1>2 DEF test_program, get_test_suite
    <2>2. CASE d.suite = ""
      <3>1. p.suite = Top.suite /\ Top.suite # NoSuite
        BY <2>2 DEF test_program, get_test_suite, ValidDefinition
      <3>2. Top = stack[Len(stack)] /\ Len(stack) \in DOMAIN stack /\ ParsingOK(stack, log, failed)
        BY Parsing
      <3>3. PICK j \in DOMAIN log : IsSuite(log, j, Ids(stack, Len(stack))) /\ log[j].arg = Top.suite
        BY <3>1, <3>2 DEF ParsingOK, SuitesOK
      <3>4. j \in 1..(N - 1) /\ IsSuite(l2, j, l2[N].frames) /\ l2[j].arg = p.suite
        BY <3>1, <3>3, <1>1, <1>2 DEF IsSuite
      <3> QED BY <2>2, <3>4, <1>1, <1>2
    <2> QED BY <2>1, <2>2
  <1>7. Made(l2, N, p)
    <2> HIDE DEF N, p
    <2> QED BY <1>3, <1>4, <1>5, <1>6 DEF Made
  <1> QED BY <1>7 DEF e, l2

LEMMA CallTestProgramKeeps == ASSUME LoadInv, CallTestProgram PROVE LoadInv'
  <1>1. phase = "parsing"
    BY DEF CallTestProgram, Calling
  <1>2. PICK d \in Definitions :
          IF ValidDefinition(d)
          THEN /\ Record("test_program", d)
               /\ stack' = SetTop([Top EXCEPT !.programs = Append(@, test_program(d))])
               /\ UNCHANGED <<phase, programs, failed, scanning>>
          ELSE CallFails(d)
    BY DEF CallTestProgram
  <1>3. CASE ValidDefinition(d)
    <2> DEFINE e == [op |-> "test_program", frames |-> Chain, file |-> Top.file, arg |-> d]
               q == test_program(d)
               p == [Top EXCEPT !.programs = Append(@, q)]
    <2>1. log' = Append(log, e) /\ stack' = SetTop(p) /\ UNCHANGED <<phase, programs, failed, scanning>>
      BY <1>2, <1>3 DEF Record
    <2>2. e.frames = Ids(stack, Len(stack)) /\ e.op = "test_program"
      BY <1>1, Parsing
    <2>3. Made(Append(log, e), Len(log) + 1, q)
      BY <1>1, <1>3, DefinitionMakes
    <2>4. /\ DOMAIN p = ParserFields /\ p.id = Top.id /\ p.suite = Top.suite
          /\ p.programs = Append(Top.programs, q)
      BY <1>1, TopFields DEF ParserFields
    <2> HIDE DEF e, p, q
    <2>5. /\ stack'[Len(stack)] = p /\ Top = stack[Len(stack)]
          /\ IsSeq(stack') /\ Len(stack') = Len(stack) /\ stack' # <<>>
          /\ \A k \in DOMAIN stack : /\ DOMAIN stack'[k] = ParserFields /\ stack'[k].id = stack[k].id
                                     /\ k # Len(stack) => stack'[k] = stack[k]
      BY <1>1, <2>1, <2>4, TopChanges, Parsing
    <2>6. \A k \in DOMAIN stack : /\ DOMAIN stack'[k] = ParserFields /\ stack'[k].id = stack[k].id
                                  /\ stack'[k].suite = stack[k].suite
                                  /\ k # Len(stack) => stack'[k].programs = stack[k].programs
      BY <2>4, <2>5
    <2>7. stack'[Len(stack)].programs = Append(stack[Len(stack)].programs, q)
      BY <2>4, <2>5
    <2>8. ParsingOK(stack, log, failed) /\ Len(stack) > 0
      BY <1>1, Parsing
    <2>9. ParsingOK(stack', Append(log, e), failed)
      <3> DEFINE st2 == stack'
      <3>1. IsSeq(st2) /\ Len(st2) = Len(stack)
        BY <2>5
      <3>2. \A k \in DOMAIN stack : /\ DOMAIN st2[k] = ParserFields /\ st2[k].id = stack[k].id
                                    /\ st2[k].suite = stack[k].suite
                                    /\ k # Len(stack) => st2[k].programs = stack[k].programs
        BY <2>6
      <3>3. st2[Len(stack)].programs = Append(stack[Len(stack)].programs, q)
        BY <2>7
      <3> HIDE DEF st2
      <3>4. ParsingOK(st2, Append(log, e), failed)
        BY <2>2, <2>3, <2>8, <3>1, <3>2, <3>3, DefinesProgram
      <3> QED BY <3>4 DEF st2
    <2> QED BY <1>1, <2>1, <2>5, <2>9, Parsing DEF LoadInv, Loaded, scanning
  <1>4. CASE ~ValidDefinition(d)
    BY <1>1, <1>2, <1>4, CallFailsKeeps
  <1> QED BY <1>3, <1>4

LEMMA ScriptFailsKeeps == ASSUME LoadInv, ScriptFails PROVE LoadInv'
  <1>1. phase = "parsing" /\ log' = log /\ Throw(CaughtByIncluder)
    BY DEF ScriptFails
  <1>2. CaughtByIncluder \subseteq 0..Len(stack)
    BY <1>1, Parsing DEF CaughtByIncluder
  <1> QED BY <1>1, <1>2, Parsing, Throws_

LEMMA EndOfFileKeeps == ASSUME LoadInv, EndOfFile PROVE LoadInv'
  <1>1. phase = "parsing" /\ log' = log
    BY DEF EndOfFile
  <1>2. /\ stack # <<>> /\ IsSeq(stack) /\ Len(stack) \in Nat \ {0} /\ DOMAIN stack = 1..Len(stack)
        /\ ParsingOK(stack, log, failed) /\ Top = stack[Len(stack)]
        /\ pending = <<>> /\ first = NoCases /\ yielded = <<>>
    BY <1>1, Parsing
  <1>3. CASE Top.version = NoVersion
    <2>1. Throw(CaughtByIncluder)
      BY <1>3 DEF EndOfFile
    <2>2. CaughtByIncluder \subseteq 0..Len(stack)
      BY <1>2 DEF CaughtByIncluder
    <2> QED BY <1>1, <1>2, <2>1, <2>2, Throws_
  <1>4. CASE Top.version # NoVersion /\ Len(stack) = 1
    <2>1. /\ programs' = stack[1].programs /\ phase' = "loaded"
          /\ UNCHANGED <<failed, scanning>>
      BY <1>2, <1>4 DEF EndOfFile
    <2>2. PICK g : Traced(g, stack, log, failed)
      BY <1>2 DEF ParsingOK
    <2>3. 1 \in DOMAIN stack /\ \A k \in DOMAIN stack : k = 1
      BY <1>2, <1>4
    <2>4. IsSeq(g[1]) /\ Len(g[1]) = Len(programs') /\ IsSeq(programs')
      BY <1>2, <2>1, <2>2, <2>3 DEF Traced, ParsingOK, StackOK
    <2>5. \A n \in DOMAIN g[1] : Survives(log, failed, g[1][n]) /\ Made(log, g[1][n], programs'[n])
      BY <2>1, <2>2, <2>3 DEF Traced, Comes
    <2>6. \A m, n \in DOMAIN g[1] : m < n => g[1][m] < g[1][n]
      BY <2>2, <2>3 DEF Traced
    <2>7. \A i \in DOMAIN log : Survives(log, failed, i) => \E n \in DOMAIN g[1] : g[1][n] = i
      BY <2>2, <2>3 DEF Traced
    <2>8. Ended(g[1], programs', log, failed)
      BY <2>4, <2>5, <2>6, <2>7 DEF Ended
    <2>9. LoadedOK(programs', log', failed')
      BY <1>1, <1>2, <2>1, <2>8 DEF LoadedOK, OneSuite, ParsingOK, SuitesOK
    <2> QED BY <1>2, <2>1, <2>9 DEF LoadInv, Loaded, scanning
  <1>5. CASE Top.version # NoVersion /\ Len(stack) # 1
    <2> DEFINE K == Len(stack) - 1
    <2>1. K \in Nat /\ K > 0 /\ Len(stack) = K + 1 /\ Len(stack) - 2 = K - 1
      BY <1>2, <1>5
    <2> HIDE DEF K
    <2>2. /\ stack' = Append(SubSeq(stack, 1, Len(stack) - 2),
                             callback_include(stack[Len(stack) - 1], Top.programs))
          /\ UNCHANGED <<phase, programs, failed, scanning>>
      BY <1>5 DEF EndOfFile
    <2>3. stack' = Append(SubSeq(stack, 1, K - 1), callback_include(stack[K], stack[K + 1].programs))
      BY <1>2, <2>1, <2>2 DEF K
    <2>4. ParsingOK(stack', log, failed)
      BY <1>2, <2>1, <2>3, Returns_
    <2>5. stack' # <<>>
      <3>1. K - 1 \in 0..Len(stack) /\ (K - 1) + 1 # 0
        BY <2>1
      <3>2. Len(stack') = (K - 1) + 1
        BY <3>1, <1>2, <2>3, CutAppend
      <3> QED BY <3>1, <3>2, EmptyIsSeq
    <2> QED BY <1>1, <1>2, <2>2, <2>4, <2>5 DEF LoadInv, Loaded, scanning
  <1> QED BY <1>3, <1>4, <1>5

(* The scanner.                                                              *)
LEMMA ScanKeeps == ASSUME LoadInv, Scan PROVE LoadInv'
  <1>1. /\ phase = "loaded" /\ phase' = "scanning" /\ host' \in Hosts
        /\ pending' = [i \in DOMAIN programs |-> i]
        /\ UNCHANGED <<programs, parsing, first, used, yielded>>
    BY DEF Scan
  <1>2. LoadedOK(programs, log, failed) /\ first = NoCases /\ yielded = <<>>
    BY <1>1 DEF LoadInv, Loaded
  <1>3. IsSeq(programs)
    BY <1>2 DEF LoadedOK, Ended
  <1> DEFINE n == Len(programs)
             s == [i \in 1..n |-> i]
  <1>4. n \in Nat /\ DOMAIN programs = 1..n
    BY <1>3, SeqFacts
  <1>5. s \in Seq(1..n) /\ Len(s) = n /\ DOMAIN s = 1..n /\ \A i \in 1..n : s[i] = i
    BY <1>4
  <1>6. pending' = s
    BY <1>1, <1>4
  <1> HIDE DEF s, n
  <1>7. IsSeq(pending') /\ Len(pending') = n /\ DOMAIN pending' = 1..n /\ \A i \in 1..n : pending'[i] = i
    BY <1>5, <1>6, ASequence
  <1>8. programs' = programs /\ first' = NoCases /\ yielded' = <<>> /\ log' = log /\ failed' = failed
    BY <1>1, <1>2 DEF parsing
  <1>9. IsSeq(first')
    <2>1. NoCases \in Seq({"<none>"})
      BY DEF NoCases
    <2> QED BY <2>1, <1>8, ASequence
  <1>10. Past' = 0
    BY <1>4, <1>7, <1>8 DEF Past, n
  <1>11. /\ host' \in Hosts
         /\ Len(pending') <= Len(programs')
         /\ \A k \in DOMAIN pending' : pending'[k] = Past' + k
    BY <1>1, <1>4, <1>7, <1>8, <1>10 DEF n
  <1>12. IsSeq(yielded') /\ \A k \in DOMAIN yielded' : FALSE
    BY <1>8, EmptyIsSeq
  <1>13. ScanOK'
    BY <1>7, <1>8, <1>9, <1>11, <1>12 DEF ScanOK
  <1> QED BY <1>1, <1>2, <1>8, <1>13 DEF LoadInv, Loaded

LEMMA ScanFacts ==
  ASSUME LoadInv, Scanning
  PROVE  /\ ScanOK /\ LoadedOK(programs, log, failed) /\ phase = "scanning"
         /\ IsSeq(programs) /\ Len(programs) \in Nat /\ DOMAIN programs = 1..Len(programs)
         /\ IsSeq(pending) /\ Len(pending) \in Nat /\ Past \in Nat
         /\ pending # <<>> => /\ Head(pending) = Past + 1 /\ Head(pending) \in DOMAIN programs
                              /\ Len(pending) > 0
  <1>1. ScanOK /\ LoadedOK(programs, log, failed) /\ phase = "scanning"
    BY DEF LoadInv, Loaded, Scanning
  <1>2. IsSeq(programs) /\ IsSeq(pending) /\ Len(pending) <= Len(programs)
    BY <1>1 DEF LoadedOK, Ended, ScanOK
  <1>3. /\ Len(programs) \in Nat /\ DOMAIN programs = 1..Len(programs)
        /\ Len(pending) \in Nat
    BY <1>2, SeqFacts
  <1>4. Past \in Nat
    BY <1>2, <1>3 DEF Past
  <1>5. ASSUME pending # <<>>
        PROVE  Head(pending) = Past + 1 /\ Head(pending) \in DOMAIN programs /\ Len(pending) > 0
    <2>1. Len(pending) \in Nat \ {0} /\ Head(pending) = pending[1] /\ 1 \in DOMAIN pending
      BY <1>2, <1>5, TailFacts
    <2>2. Head(pending) = Past + 1
      BY <2>1, <1>1 DEF ScanOK
    <2> QED BY <2>1, <2>2, <1>2, <1>3 DEF Past
  <1> QED BY <1>1, <1>2, <1>3, <1>4, <1>5

(* The next program's turn comes.                                            *)
LEMMA NextProgramKeeps ==
  ASSUME LoadInv, Scanning, pending # <<>>, NextProgram,
         UNCHANGED <<phase, programs, parsing, filters, used, host, yielded>>
  PROVE  LoadInv'
  <1>1. /\ ScanOK /\ LoadedOK(programs, log, failed) /\ phase = "scanning"
        /\ IsSeq(programs) /\ Len(programs) \in Nat /\ IsSeq(pending) /\ Len(pending) \in Nat
        /\ Past \in Nat /\ Len(pending) > 0
    BY ScanFacts
  <1>2. /\ pending' = Tail(pending) /\ first' = NoCases
        /\ phase' = phase /\ programs' = programs /\ host' = host /\ yielded' = yielded
        /\ log' = log /\ failed' = failed
    BY DEF NextProgram, parsing
  <1>3. /\ IsSeq(pending') /\ Len(pending') = Len(pending) - 1
        /\ DOMAIN pending' = 1..(Len(pending) - 1) /\ DOMAIN pending = 1..Len(pending)
        /\ \A i \in 1..(Len(pending) - 1) : pending'[i] = pending[i + 1]
    BY <1>1, <1>2, TailFacts, SeqFacts
  <1>4. Past' = Past + 1
    BY <1>1, <1>2, <1>3 DEF Past
  <1>5. Len(pending') <= Len(programs')
    BY <1>1, <1>2, <1>3 DEF ScanOK
  <1>6. \A k \in DOMAIN pending' : pending'[k] = Past' + k
    <2> SUFFICES ASSUME NEW k \in 1..(Len(pending) - 1) PROVE pending'[k] = Past' + k
      BY <1>3
    <2>1. k + 1 \in DOMAIN pending
      BY <1>1, <1>3
    <2>2. pending[k + 1] = Past + (k + 1)
      BY <2>1, <1>1 DEF ScanOK
    <2> QED BY <2>2, <1>1, <1>3, <1>4
  <1>7. IsSeq(first')
    <2>1. NoCases \in Seq({"<none>"})
      BY DEF NoCases
    <2> QED BY <2>1, <1>2, ASequence
  <1>8. ASSUME NEW k \in DOMAIN yielded' PROVE (Behind(yielded[k]) /\ Checked(yielded[k]))'
    <2>1. yielded'[k] = yielded[k] /\ Behind(yielded[k]) /\ Checked(yielded[k])
      BY <1>1, <1>2 DEF ScanOK
    <2>2. Checked(yielded[k])'
      BY <2>1, <1>2 DEF Checked
    <2>3. yielded[k].index \in 1..Len(programs') /\ yielded[k].index <= Past'
      BY <2>1, <1>1, <1>2, <1>4 DEF Behind
    <2> QED BY <2>1, <2>2, <2>3 DEF Behind
  <1>9. ScanOK'
    BY <1>1, <1>2, <1>3, <1>5, <1>6, <1>7, <1>8 DEF ScanOK
  <1> QED BY <1>1, <1>2, <1>9 DEF LoadInv, Loaded

LEMMA SkipProgramKeeps == ASSUME LoadInv, SkipProgram PROVE LoadInv'
  BY NextProgramKeeps DEF SkipProgram

LEMMA DropProgramKeeps == ASSUME LoadInv, DropProgram PROVE LoadInv'
  <1>1. Scanning /\ first = <<>> /\ NextProgram
        /\ UNCHANGED <<phase, programs, parsing, filters, used, host, yielded>>
    BY DEF DropProgram
  <1>2. first # NoCases
    BY <1>1 DEF NoCases
  <1>3. pending # <<>>
    BY <1>1, <1>2, ScanFacts DEF ScanOK
  <1> QED BY <1>1, <1>3, NextProgramKeeps

LEMMA SameDomain ==
  ASSUME NEW n \in Nat, NEW s, s = [j \in 1..n |-> s[j]]
  PROVE  IsSeq(s) /\ Len(s) = n /\ DOMAIN s = 1..n
  <1> DEFINE R == {s[j] : j \in 1..n}
  <1>1. s \in [1..n -> R]
    OBVIOUS
  <1> HIDE DEF R
  <1>2. s \in Seq(R)
    BY <1>1, SeqDef
  <1>3. IsSeq(s)
    BY <1>2, ASequence
  <1>4. Len(s) \in Nat /\ DOMAIN s = 1..Len(s) /\ DOMAIN s = 1..n
    BY <1>1, <1>3, SeqFacts
  <1> QED BY <1>3, <1>4

(* What the listing of a program leaves as it was.                           *)
Listing(ps, i, list) == [ps EXCEPT ![i].listed = TRUE, ![i].cases = list]

LEMMA ListingKeepsPrograms ==
  ASSUME NEW ps, NEW l, NEW f, LoadedOK(ps, l, f), NEW i \in DOMAIN ps, NEW list
  PROVE  /\ LoadedOK(Listing(ps, i, list), l, f) /\ Len(Listing(ps, i, list)) = Len(ps)
         /\ \A j \in DOMAIN ps : j # i => Listing(ps, i, list)[j] = ps[j]
         /\ Listing(ps, i, list)[i].cases = list
  <1> DEFINE ps2 == Listing(ps, i, list)
  <1>1. PICK h : Ended(h, ps, l, f)
    BY DEF LoadedOK
  <1>2. /\ IsSeq(ps) /\ IsSeq(h) /\ Len(h) = Len(ps) /\ Len(ps) \in Nat
        /\ DOMAIN ps = 1..Len(ps) /\ DOMAIN h = 1..Len(ps)
    BY <1>1, SeqFacts DEF Ended
  <1>3. \A j \in DOMAIN ps : Made(l, h[j], ps[j])
    BY <1>1, <1>2 DEF Ended
  <1>4. DOMAIN ps[i] = ProgramFields
    BY <1>3 DEF Made
  <1>5. /\ DOMAIN ps2 = DOMAIN ps
        /\ \A j \in DOMAIN ps : j # i => ps2[j] = ps[j]
        /\ ps2[i] = [ps[i] EXCEPT !.listed = TRUE, !.cases = list]
    <2>1. ps2 = [ps EXCEPT ![i].listed = TRUE, ![i].cases = list]
      BY DEF Listing
    <2> QED BY <2>1
  <1> HIDE DEF ps2
  <1>6. /\ DOMAIN ps2[i] = ProgramFields /\ ps2[i].cases = list
        /\ ps2[i].path = ps[i].path /\ ps2[i].suite = ps[i].suite /\ ps2[i].md = ps[i].md
    BY <1>4, <1>5 DEF ProgramFields
  <1>7. IsSeq(ps2) /\ Len(ps2) = Len(ps)
    <2>1. DOMAIN ps2 = 1..Len(ps)
      BY <1>2, <1>5
    <2>2. ps2 = [j \in DOMAIN ps2 |-> ps2[j]]
      BY DEF Listing, ps2
    <2>3. ps2 = [j \in 1..Len(ps) |-> ps2[j]]
      BY <2>1, <2>2
    <2> DEFINE n == Len(ps)
    <2>4. n \in Nat /\ ps2 = [j \in 1..n |-> ps2[j]]
      BY <1>2, <2>3
    <2> HIDE DEF n
    <2>5. IsSeq(ps2) /\ Len(ps2) = n
      BY <2>4, SameDomain
    <2> QED BY <2>5 DEF n
  <1>8. \A j \in DOMAIN ps : Made(l, h[j], ps2[j])
    <2> SUFFICES ASSUME NEW j \in DOMAIN ps PROVE Made(l, h[j], ps2[j])
      OBVIOUS
    <2>1. CASE j = i
      BY <2>1, <1>3, <1>6 DEF Made
    <2>2. CASE j # i
      BY <2>2, <1>3, <1>5
    <2> QED BY <2>1, <2>2
  <1>9. Ended(h, ps2, l, f)
    BY <1>1, <1>2, <1>7, <1>8 DEF Ended
  <1> QED BY <1>5, <1>6, <1>7, <1>9 DEF LoadedOK, ps2

(* The cases of a set, in a sequence.                                        *)
LEMMA CasesListed ==
  ASSUME NEW S, IsFiniteSet(S)
  PROVE  IsSeq(SetToSeq(S)) /\ \A k \in DOMAIN SetToSeq(S) : SetToSeq(S)[k] \in S
  <1> DEFINE n == Cardinality(S)
  <1>1. n \in Nat /\ Bijection(1..n, S) # {}
    BY FS_CardinalityType DEF ExistsBijection
  <1>2. PICK f : f \in Bijection(1..n, S)
    BY <1>1
  <1>3. f \in [1..n -> S] /\ IsInjective(f)
    BY <1>2 DEF Bijection, Injection
  <1>4. SetToSeq(S) \in [1..n -> S]
    BY <1>3, Zenon DEF SetToSeq
  <1> HIDE DEF n
  <1>5. SetToSeq(S) \in Seq(S)
    BY <1>1, <1>4, SeqDef
  <1> HIDE DEF SetToSeq
  <1> QED BY <1>1, <1>4, <1>5, ASequence

LEMMA ListProgramKeeps == ASSUME LoadInv, ListProgram PROVE LoadInv'
  <1>1. /\ Scanning /\ pending # <<>> /\ first = NoCases
        /\ UNCHANGED <<phase, parsing, pending, filters, used, host, yielded>>
    BY DEF ListProgram
  <1> DEFINE c == Head(pending)
  <1>2. PICK list \in Lists :
          /\ programs' = [programs EXCEPT ![c].listed = TRUE, ![c].cases = list]
          /\ first' = SetToSeq(DOMAIN list)
    BY DEF ListProgram
  <1>3. /\ ScanOK /\ LoadedOK(programs, log, failed) /\ phase = "scanning"
        /\ DOMAIN programs = 1..Len(programs) /\ Past \in Nat
        /\ c = Past + 1 /\ c \in DOMAIN programs
    BY <1>1, ScanFacts
  <1>4. /\ phase' = phase /\ pending' = pending /\ host' = host /\ yielded' = yielded
        /\ log' = log /\ failed' = failed
    BY <1>1 DEF parsing
  <1>0. pending' # <<>> /\ Head(pending') = c
    BY <1>1, <1>4
  <1> HIDE DEF c
  <1>5. /\ LoadedOK(programs', log, failed) /\ Len(programs') = Len(programs)
        /\ \A j \in DOMAIN programs : j # c => programs'[j] = programs[j]
        /\ programs'[c].cases = list
    <2>1. programs' = Listing(programs, c, list)
      BY <1>2 DEF Listing
    <2>2. LoadedOK(programs, log, failed) /\ c \in DOMAIN programs
      BY <1>3
    <2>3. /\ LoadedOK(Listing(programs, c, list), log, failed)
          /\ Len(Listing(programs, c, list)) = Len(programs)
          /\ \A j \in DOMAIN programs : j # c => Listing(programs, c, list)[j] = programs[j]
          /\ Listing(programs, c, list)[c].cases = list
      BY <2>2, ListingKeepsPrograms
    <2> QED BY <2>1, <2>3
  <1>6. IsSeq(first') /\ \A k \in DOMAIN first' : first'[k] \in DOMAIN list
    BY <1>2, NamesAssumption, CasesListed
  <1>7. Past' = Past
    BY <1>4, <1>5 DEF Past
  <1>8. ASSUME NEW k \in DOMAIN yielded PROVE (Behind(yielded[k]) /\ Checked(yielded[k]))'
    <2>1. yielded'[k] = yielded[k] /\ Behind(yielded[k]) /\ Checked(yielded[k])
      BY <1>3, <1>4 DEF ScanOK
    <2>2. /\ yielded[k].index \in 1..Len(programs) /\ yielded[k].index <= Past
          /\ yielded[k].index # c
      BY <2>1, <1>1, <1>3 DEF Behind
    <2>3. programs'[yielded[k].index] = programs[yielded[k].index]
      BY <2>2, <1>3, <1>5
    <2>4. Checked(yielded[k])'
      BY <2>1, <2>3, <1>4 DEF Checked
    <2>5. Behind(yielded[k])'
      BY <2>1, <2>2, <1>5, <1>7 DEF Behind
    <2> QED BY <2>4, <2>5
  <1>9. IsSeq(pending') /\ Len(pending') <= Len(programs') /\ host' \in Hosts /\ IsSeq(yielded')
        /\ \A k \in DOMAIN pending' : pending'[k] = Past' + k
    BY <1>3, <1>4, <1>5, <1>7 DEF ScanOK
  <1>10. programs'[Head(pending')].cases \in Lists
         /\ \A k \in DOMAIN first' : first'[k] \in DOMAIN programs'[Head(pending')].cases
    BY <1>0, <1>2, <1>5, <1>6
  <1>11. \A k \in DOMAIN yielded' : (Behind(yielded[k]) /\ Checked(yielded[k]))'
    BY <1>4, <1>8
  <1>12. ScanOK'
    BY <1>0, <1>6, <1>9, <1>10, <1>11 DEF ScanOK
  <1> QED BY <1>3, <1>4, <1>5, <1>12 DEF LoadInv, Loaded

(* The case whose turn it was is behind; if it was the last of its program,  *)
(* the program is not done with yet: what is left is not NoCases.            *)
LEMMA NextCase ==
  ASSUME LoadInv, Scanning, first \notin {NoCases, <<>>}
  PROVE  /\ pending # <<>> /\ programs[Head(pending)].cases \in Lists
         /\ Head(first) \in DOMAIN programs[Head(pending)].cases
         /\ IsSeq(Tail(first)) /\ Tail(first) # NoCases
         /\ \A k \in DOMAIN Tail(first) : Tail(first)[k] \in DOMAIN programs[Head(pending)].cases
  <1> DEFINE cases == programs[Head(pending)].cases
             rest == Tail(first)
  <1>1. ScanOK
    BY ScanFacts
  <1>2. pending # <<>> /\ cases \in Lists /\ IsSeq(first) /\ \A k \in DOMAIN first : first[k] \in DOMAIN cases
    BY <1>1 DEF ScanOK
  <1>3. /\ IsSeq(rest) /\ DOMAIN rest = 1..(Len(first) - 1) /\ Len(first) \in Nat \ {0}
        /\ \A i \in 1..(Len(first) - 1) : rest[i] = first[i + 1]
        /\ Head(first) = first[1] /\ 1 \in DOMAIN first /\ DOMAIN first = 1..Len(first)
    BY <1>2, TailFacts, SeqFacts
  <1> HIDE DEF cases, rest
  <1>4. ASSUME NEW k \in DOMAIN rest PROVE rest[k] \in DOMAIN cases
    <2>1. k + 1 \in DOMAIN first /\ rest[k] = first[k + 1]
      BY <1>3
    <2> QED BY <2>1, <1>2
  <1>5. rest # NoCases
    <2> SUFFICES ASSUME rest = NoCases PROVE FALSE
      OBVIOUS
    <2>1. 1 \in DOMAIN NoCases /\ NoCases[1] = "<none>"
      BY DEF NoCases
    <2>2. "<none>" \in DOMAIN cases
      BY <2>1, <1>4
    <2> QED BY <2>2, <1>2, NamesAssumption
  <1> QED BY <1>2, <1>3, <1>4, <1>5 DEF cases, rest

LEMMA SkipCaseKeeps == ASSUME LoadInv, SkipCase PROVE LoadInv'
  <1>1. /\ Scanning /\ first \notin {NoCases, <<>>} /\ first' = Tail(first)
        /\ UNCHANGED <<phase, programs, parsing, pending, filters, used, host, yielded>>
    BY DEF SkipCase
  <1>2. ScanOK /\ LoadedOK(programs, log, failed) /\ phase = "scanning"
    BY <1>1, ScanFacts
  <1>3. /\ pending # <<>> /\ programs[Head(pending)].cases \in Lists
        /\ IsSeq(first') /\ first' # NoCases
        /\ \A k \in DOMAIN first' : first'[k] \in DOMAIN programs[Head(pending)].cases
    BY <1>1, NextCase
  <1>4. /\ phase' = phase /\ programs' = programs /\ pending' = pending /\ host' = host
        /\ yielded' = yielded /\ log' = log /\ failed' = failed
    BY <1>1 DEF parsing
  <1>5. Past' = Past
    BY <1>4 DEF Past
  <1>6. \A k \in DOMAIN yielded' : (Behind(yielded[k]) /\ Checked(yielded[k]))'
    <2> SUFFICES ASSUME NEW k \in DOMAIN yielded PROVE (Behind(yielded[k]) /\ Checked(yielded[k]))'
      BY <1>4
    <2>1. yielded'[k] = yielded[k] /\ Behind(yielded[k]) /\ Checked(yielded[k])
      BY <1>2, <1>4 DEF ScanOK
    <2> QED BY <2>1, <1>1, <1>3, <1>4, <1>5 DEF Behind, Checked
  <1>7. ScanOK'
    BY <1>2, <1>3, <1>4, <1>5, <1>6 DEF ScanOK
  <1> QED BY <1>2, <1>4, <1>7 DEF LoadInv, Loaded

LEMMA YieldKeeps == ASSUME LoadInv, Yield PROVE LoadInv'
  <1> DEFINE name == Head(first)
             p == programs[Head(pending)]
             md == get_metadata(p, name)
  <1>0. PICK y : y = [index |-> Head(pending), case |-> name,
                      reason |-> check_reqs(md, host, p.suite), shown |-> list_test_case(md)]
    OBVIOUS
  <1>1. /\ Scanning /\ first \notin {NoCases, <<>>} /\ first' = Tail(first)
        /\ yielded' = Append(yielded, y)
        /\ UNCHANGED <<phase, programs, parsing, pending, filters, host>>
    BY <1>0 DEF Yield, program
  <1>2. /\ ScanOK /\ LoadedOK(programs, log, failed) /\ phase = "scanning"
        /\ DOMAIN programs = 1..Len(programs)
        /\ pending # <<>> => Head(pending) = Past + 1 /\ Head(pending) \in DOMAIN programs
    BY <1>1, ScanFacts
  <1>3. /\ pending # <<>> /\ p.cases \in Lists /\ name \in DOMAIN p.cases
        /\ IsSeq(first') /\ first' # NoCases
        /\ \A k \in DOMAIN first' : first'[k] \in DOMAIN p.cases
    BY <1>1, NextCase
  <1>4. /\ phase' = phase /\ programs' = programs /\ pending' = pending /\ host' = host
        /\ log' = log /\ failed' = failed
    BY <1>1 DEF parsing
  <1>5. Past' = Past
    BY <1>4 DEF Past
  <1>6. /\ y.index = Head(pending) /\ y.case = name
        /\ y.reason = check_reqs(get_metadata(programs[y.index], y.case), host, programs[y.index].suite)
    BY <1>0
  <1> HIDE DEF md
  <1>7. Behind(y)'
    BY <1>2, <1>3, <1>4, <1>5, <1>6 DEF Behind
  <1>8. Checked(y)'
    BY <1>3, <1>4, <1>6 DEF Checked
  <1>9. /\ IsSeq(yielded') /\ DOMAIN yielded' = 1..(Len(yielded) + 1)
        /\ \A k \in 1..Len(yielded) : yielded'[k] = yielded[k]
        /\ yielded'[Len(yielded) + 1] = y
        /\ DOMAIN yielded = 1..Len(yielded) /\ Len(yielded) \in Nat
    BY <1>1, <1>2, AppendFacts, SeqFacts DEF ScanOK
  <1>10. ASSUME NEW k \in DOMAIN yielded' PROVE (Behind(yielded[k]) /\ Checked(yielded[k]))'
    <2>1. CASE k = Len(yielded) + 1
      BY <2>1, <1>7, <1>8, <1>9
    <2>2. CASE k \in DOMAIN yielded
      <3>1. yielded'[k] = yielded[k] /\ Behind(yielded[k]) /\ Checked(yielded[k])
        BY <2>2, <1>2, <1>9 DEF ScanOK
      <3> QED BY <3>1, <1>1, <1>3, <1>4, <1>5 DEF Behind, Checked
    <2> QED BY <2>1, <2>2, <1>9
  <1>11. ScanOK'
    BY <1>2, <1>3, <1>4, <1>5, <1>9, <1>10 DEF ScanOK
  <1> QED BY <1>2, <1>4, <1>11 DEF LoadInv, Loaded

LEMMA DoneKeeps == ASSUME LoadInv, Done PROVE LoadInv'
  <1>1. /\ Scanning /\ phase' = "done" /\ UNCHANGED <<programs, parsing, scanning>>
    BY DEF Done
  <1>2. ScanOK /\ LoadedOK(programs, log, failed)
    BY <1>1, ScanFacts
  <1>3. ScanOK' /\ LoadedOK(programs', log', failed')
    BY <1>1, <1>2 DEF ScanOK, Past, Behind, Checked, parsing, scanning
  <1> QED BY <1>1, <1>3 DEF LoadInv, Loaded

LEMMA LoadStutters == ASSUME LoadInv, UNCHANGED vars PROVE LoadInv'
  BY DEF LoadInv, Loaded, ScanOK, Past, Behind, Checked, vars, parsing, scanning

LEMMA LoadAlways == Spec => []LoadInv
  <1>1. Init => LoadInv
    BY LoadStarts
  <1>2. LoadInv /\ [Next]_vars => LoadInv'
    BY CallSyntaxKeeps, CallTestSuiteKeeps, CallIncludeKeeps, CallTestProgramKeeps, ScriptFailsKeeps,
       EndOfFileKeeps, ScanKeeps, SkipProgramKeeps, ListProgramKeeps, DropProgramKeeps, SkipCaseKeeps,
       YieldKeeps, DoneKeeps, LoadStutters DEF Next
  <1> QED BY <1>1, <1>2, PTL DEF Spec

(* A set that is counted.                                                    *)
LEMMA Counted ==
  ASSUME NEW n \in Nat, NEW h, NEW S,
         \A k \in 1..n : h[k] \in S,
         \A j, k \in 1..n : h[j] = h[k] => j = k,
         \A x \in S : \E k \in 1..n : h[k] = x
  PROVE  Cardinality(S) = n
  <1> DEFINE g == [k \in 1..n |-> h[k]]
  <1>1. g \in [1..n -> S] /\ DOMAIN g = 1..n /\ \A k \in 1..n : g[k] = h[k]
    OBVIOUS
  <1> HIDE DEF g
  <1>2. g \in Bijection(1..n, S)
    BY <1>1 DEF Bijection, Injection, Surjection, IsInjective
  <1>3. ExistsBijection(1..n, S)
    BY <1>2 DEF ExistsBijection
  <1> QED BY <1>3, FS_CountingElements

(* The n-th program is that of the n-th surviving definition.                *)
LEMMA Numbered ==
  ASSUME LoadInv, Loaded
  PROVE  /\ Cardinality(Survivors) = Len(programs)
         /\ \A i \in Survivors :
              Place(i) \in DOMAIN programs /\ Made(log, i, programs[Place(i)])
         /\ \A n \in DOMAIN programs :
              \E i \in Survivors : Place(i) = n /\ \A j \in Survivors : Place(j) = n => j = i
  <1>1. PICK h : Ended(h, programs, log, failed)
    BY DEF LoadInv, LoadedOK
  <1> DEFINE L == Len(programs)
  <1>2. /\ L \in Nat /\ DOMAIN programs = 1..L /\ DOMAIN h = 1..L
        /\ DOMAIN log = 1..Len(log) /\ Len(log) \in Nat
    BY <1>1, SeqFacts DEF Ended, LoadInv, LoadedOK, LogOK
  <1> HIDE DEF L
  <1>3. /\ \A n \in 1..L : h[n] \in Survivors /\ h[n] \in Nat
        /\ \A i \in Survivors : \E n \in 1..L : h[n] = i
    BY <1>1, <1>2 DEF Ended, Survives, Survivors
  <1>4. \A m, n \in 1..L : m < n <=> h[m] < h[n]
    <2>1. \A m, n \in 1..L : m < n => h[m] < h[n]
      BY <1>1, <1>2 DEF Ended
    <2>2. ASSUME NEW m \in 1..L, NEW n \in 1..L, h[m] < h[n] PROVE m < n
      <3>1. ~(n < m) /\ n # m
        BY <2>1, <2>2, <1>3
      <3> QED BY <3>1, <1>2
    <2> QED BY <2>1, <2>2
  <1>5. \A m, n \in 1..L : h[m] = h[n] => m = n
    BY <1>2, <1>3, <1>4
  <1>6. Cardinality(Survivors) = L
    BY <1>2, <1>3, <1>5, Counted
  <1>7. ASSUME NEW n \in 1..L PROVE Place(h[n]) = n
    <2> DEFINE S == {j \in Survivors : j <= h[n]}
    <2>1. \A k \in 1..n : k \in 1..L /\ (k < n \/ k = n)
      BY <1>2
    <2>2. \A k \in 1..n : h[k] \in S
      BY <2>1, <1>3, <1>4
    <2>3. ASSUME NEW x \in S PROVE \E k \in 1..n : h[k] = x
      <3>1. PICK k \in 1..L : h[k] = x
        BY <1>3
      <3>2. ~(n < k)
        BY <3>1, <1>3, <1>4
      <3> QED BY <3>1, <3>2, <1>2
    <2>4. n \in Nat /\ \A j, k \in 1..n : h[j] = h[k] => j = k
      BY <2>1, <1>2, <1>5
    <2> HIDE DEF S
    <2>5. Cardinality(S) = n
      BY <2>2, <2>3, <2>4, Counted
    <2> QED BY <2>5 DEF S, Place
  <1>8. ASSUME NEW i \in Survivors
        PROVE  Place(i) \in DOMAIN programs /\ Made(log, i, programs[Place(i)])
    <2>1. PICK n \in 1..L : h[n] = i
      BY <1>3
    <2> QED BY <2>1, <1>1, <1>2, <1>7 DEF Ended
  <1>9. ASSUME NEW n \in DOMAIN programs
        PROVE  \E i \in Survivors : Place(i) = n /\ \A j \in Survivors : Place(j) = n => j = i
    <2>1. h[n] \in Survivors /\ Place(h[n]) = n
      BY <1>2, <1>3, <1>7
    <2>2. ASSUME NEW j \in Survivors, Place(j) = n PROVE j = h[n]
      <3>1. PICK m \in 1..L : h[m] = j
        BY <1>3
      <3> QED BY <2>2, <3>1, <1>7
    <2> QED BY <2>1, <2>2
  <1> QED BY <1>6, <1>8, <1>9 DEF L

LEMMA SuiteDeclared ==
  ASSUME NEW i \in DOMAIN log, NEW p, Made(log, i, p)
  PROVE  p.suite \in SuiteOf(i)
  BY DEF Made, SuiteOf, Declared, IsSuite

(* What load() returns is what the files that were read to the end defined,  *)
(* in order, each program with its own properties, in the directory of its   *)
(* file and in the suite that its definition or its own file names, for      *)
(* every set of scripts (callback_include(), get_test_suite(), parse()).     *)
THEOREM LoadingIsExact == Spec => []LoadedAsDefined
  <1>1. LoadInv => LoadedAsDefined
    <2> SUFFICES ASSUME LoadInv, Loaded
                 PROVE  /\ Len(programs) = Cardinality(Survivors)
                        /\ \A i \in Survivors :
                             /\ programs[Place(i)].suite \in SuiteOf(i)
                             /\ programs[Place(i)].path
                                  = relativize(branch_path(log[i].file), log[i].arg.name)
                             /\ programs[Place(i)].md = set_strings(log[i].arg.props)
      BY DEF LoadedAsDefined
    <2>1. \A i \in Survivors : Made(log, i, programs[Place(i)]) /\ i \in DOMAIN log
      BY Numbered DEF Survivors
    <2> QED BY <2>1, Numbered, SuiteDeclared DEF Made
  <1> QED BY <1>1, LoadAlways, PTL

(* A test case's property, else its program's, else the default.             *)
LEMMA OverridesWin ==
  ASSUME NEW md, NEW case, NEW p
  PROVE  get(apply_overrides(md, case), p)
           = IF p \in DOMAIN case THEN case[p] ELSE IF p \in DOMAIN md THEN md[p] ELSE get_defaults[p]
  BY DEF get, apply_overrides, combine, leaf_combine

LEMMA Defaults ==
  /\ get_defaults["required_configs"] = {} /\ get_defaults["allowed_architectures"] = {}
  /\ get_defaults["allowed_platforms"] = {} /\ get_defaults["required_files"] = {}
  /\ get_defaults["required_programs"] = {} /\ get_defaults["required_kmods"] = {}
  /\ get_defaults["execenv"] = "" /\ get_defaults["required_user"] = ""
  /\ get_defaults["required_memory"] = 0 /\ get_defaults["required_disk_space"] = 0
  BY DEF get_defaults, init_tree, SetProperties, BytesProperties, StringProperties, BoolProperties

(* check_reqs() goes by the getters of the metadata of the test case.        *)
LEMMA ChecksMeet ==
  ASSUME NEW h \in Hosts, NEW md, Sized(md), NEW case, Sized(case), NEW suite
  PROVE  check_reqs(apply_overrides(md, case), h, suite) = "" <=> Meets(h, md, case, suite)
  <1> DEFINE all == apply_overrides(md, case)
             of(p, default) == IF p \in DOMAIN case THEN case[p]
                               ELSE IF p \in DOMAIN md THEN md[p] ELSE default
             configs == of("required_configs", {})
             architectures == of("allowed_architectures", {})
             platforms == of("allowed_platforms", {})
             files == of("required_files", {})
             progs == of("required_programs", {})
             kmods == of("required_kmods", {})
             execenv == of("execenv", "")
             user == of("required_user", "")
             memory == of("required_memory", 0)
             space == of("required_disk_space", 0)
             needed(v) == IF v \in {"unprivileged-user", "unprivileged_user"}
                          THEN <<"unprivileged_user">> ELSE <<"test_suites", suite, v>>
  <1>1. /\ configs = get(all, "required_configs")
        /\ architectures = get(all, "allowed_architectures")
        /\ platforms = get(all, "allowed_platforms")
        /\ files = get(all, "required_files")
        /\ progs = get(all, "required_programs")
        /\ kmods = get(all, "required_kmods")
        /\ execenv = get(all, "execenv")
        /\ user = get(all, "required_user")
        /\ memory = get(all, "required_memory")
        /\ space = get(all, "required_disk_space")
    <2>1. ASSUME NEW p, NEW d, get_defaults[p] = d PROVE of(p, d) = get(all, p)
      BY <2>1, OverridesWin
    <2> HIDE DEF all, of
    <2> QED BY <2>1, Defaults
  <1>2. memory \in Nat /\ space \in Nat
    BY DEF Sized, BytesProperties
  <1>3. Meets(h, md, case, suite) <=>
          /\ {needed(v) : v \in configs} \subseteq h.config
          /\ (architectures = {} \/ h.architecture \in architectures)
          /\ (platforms = {} \/ h.platform \in platforms)
          /\ (IF execenv = "" THEN "host" ELSE execenv) \in h.execenvs
          /\ (user = "root" => h.root)
          /\ (user = "unprivileged" /\ h.root => <<"unprivileged_user">> \in h.config)
          /\ files \subseteq h.files
          /\ progs \subseteq h.files \cup h.search_path
          /\ (memory <= h.memory \/ h.memory = 0)
          /\ space <= h.disk
          /\ kmods \subseteq h.kmods
    BY DEF Meets
  <1> HIDE DEF all, configs, architectures, platforms, files, progs, kmods, execenv, user,
               memory, space
  <1>4. check_required_configs(configs, h, suite) <=> {needed(v) : v \in configs} \subseteq h.config
    BY DEF check_required_configs
  <1>5. /\ check_allowed_architectures(architectures, h)
             <=> (architectures = {} \/ h.architecture \in architectures)
        /\ check_allowed_platforms(platforms, h) <=> (platforms = {} \/ h.platform \in platforms)
    BY DEF check_allowed_architectures, check_allowed_platforms
  <1>6. check_execenv(execenv, h) <=> (IF execenv = "" THEN "host" ELSE execenv) \in h.execenvs
    BY DEF check_execenv, DefaultExecenv
  <1>7. check_required_user(user, h)
          <=> /\ (user = "root" => h.root)
              /\ (user = "unprivileged" /\ h.root => <<"unprivileged_user">> \in h.config)
    BY DEF check_required_user
  <1>8. check_required_files(files, h) /\ ~(\E p \in files : ~is_absolute(p))
          <=> files \subseteq h.files
    BY HostsAssumption DEF check_required_files
  <1>9. check_required_programs(progs, h) <=> progs \subseteq h.files \cup h.search_path
    BY HostsAssumption DEF check_required_programs
  <1>10. check_required_memory(memory, h) <=> (memory <= h.memory \/ h.memory = 0)
    BY <1>2, HostsAssumption DEF check_required_memory
  <1>11. check_required_disk_space(space, h) <=> space <= h.disk
    BY <1>2, HostsAssumption DEF check_required_disk_space
  <1>12. check_required_kmods(kmods, h) <=> kmods \subseteq h.kmods
    BY DEF check_required_kmods
  <1>13. check_reqs(all, h, suite) = "" <=>
           /\ check_required_configs(configs, h, suite)
           /\ check_allowed_architectures(architectures, h)
           /\ check_execenv(execenv, h)
           /\ check_allowed_platforms(platforms, h)
           /\ check_required_user(user, h)
           /\ check_required_files(files, h)
           /\ ~(\E p \in files : ~is_absolute(p))
           /\ check_required_programs(progs, h)
           /\ check_required_memory(memory, h)
           /\ check_required_disk_space(space, h)
           /\ check_required_kmods(kmods, h)
    BY <1>1 DEF check_reqs
  <1>14. check_reqs(all, h, suite) = "" <=> Meets(h, md, case, suite)
    BY <1>3, <1>4, <1>5, <1>6, <1>7, <1>8, <1>9, <1>10, <1>11, <1>12, <1>13
  <1> QED BY <1>14 DEF all

(* Its file declares the suite of a program at most once.                    *)
LEMMA OneSuiteOnly ==
  ASSUME LoadInv, Loaded, NEW i \in DOMAIN log, NEW s \in SuiteOf(i), NEW t \in SuiteOf(i)
  PROVE  s = t
  <1>1. CASE log[i].arg.suite # ""
    BY <1>1 DEF SuiteOf
  <1>2. CASE log[i].arg.suite = ""
    <2>0. i \in Nat /\ DOMAIN log = 1..Len(log) /\ Len(log) \in Nat
      BY SeqFacts DEF LoadInv, LoadedOK, LogOK
    <2>1. PICK j \in 1..(i - 1) :
            log[j].op = "test_suite" /\ log[j].frames = log[i].frames /\ s = log[j].arg
      BY <1>2 DEF SuiteOf, Declared
    <2>2. PICK k \in 1..(i - 1) :
            log[k].op = "test_suite" /\ log[k].frames = log[i].frames /\ t = log[k].arg
      BY <1>2 DEF SuiteOf, Declared
    <2>3. j \in DOMAIN log /\ k \in DOMAIN log
      BY <2>0
    <2>4. j = k
      BY <2>1, <2>2, <2>3 DEF LoadInv, LoadedOK, OneSuite, IsSuite
    <2> QED BY <2>1, <2>2, <2>4
  <1> QED BY <1>1, <1>2

(* A test runs exactly when the host meets all its requirements, for every   *)
(* Kyuafile, list of test cases and host: those of the test case, else those *)
(* of its program, in the suite that the Kyuafile gave to the program        *)
(* (check_reqs()).                                                           *)
THEOREM OnlyWhatIsMetRuns == Spec => []RunOnlyIfMet
  <1>1. LoadInv => RunOnlyIfMet
    <2> DEFINE suite(n) == CHOOSE s \in SuiteOf(CHOOSE i \in Survivors : Place(i) = n) : TRUE
    <2> SUFFICES ASSUME LoadInv, NEW k \in DOMAIN yielded
                 PROVE  yielded[k].reason = "" <=>
                          Meets(host, programs[yielded[k].index].md,
                                programs[yielded[k].index].cases[yielded[k].case],
                                suite(yielded[k].index))
      BY DEF RunOnlyIfMet
    <2> DEFINE y == yielded[k]
               n == y.index
               p == programs[n]
    <2>1. Loaded /\ ScanOK
      BY EmptyIsSeq DEF LoadInv, Loaded
    <2>2. /\ host \in Hosts /\ n \in DOMAIN programs
          /\ p.cases \in Lists /\ y.case \in DOMAIN p.cases
          /\ y.reason = check_reqs(get_metadata(p, y.case), host, p.suite)
      BY <2>1, SeqFacts DEF ScanOK, Behind, Checked, LoadInv, LoadedOK, Ended
    <2> HIDE DEF y, n
    <2>3. PICK i \in Survivors : Place(i) = n /\ \A j \in Survivors : Place(j) = n => j = i
      BY <2>1, <2>2, Numbered
    <2>4. (CHOOSE j \in Survivors : Place(j) = n) = i
      BY <2>3
    <2>5. i \in DOMAIN log /\ Made(log, i, p)
      BY <2>1, <2>3, Numbered DEF Survivors
    <2>6. p.suite \in SuiteOf(i)
      BY <2>5, SuiteDeclared
    <2>7. suite(n) = p.suite
      <3>1. (CHOOSE s \in SuiteOf(i) : TRUE) \in SuiteOf(i)
        BY <2>6
      <3>2. (CHOOSE s \in SuiteOf(i) : TRUE) = p.suite
        BY <3>1, <2>1, <2>5, <2>6, OneSuiteOnly
      <3> QED BY <3>2, <2>4
    <2>8. Sized(p.md) /\ Sized(p.cases[y.case])
      BY <2>2, <2>5, SizesAssumption DEF Made
    <2> HIDE DEF suite
    <2>9. y.reason = "" <=> Meets(host, p.md, p.cases[y.case], suite(n))
      BY <2>2, <2>7, <2>8, ChecksMeet DEF get_metadata
    <2> QED BY <2>9 DEF y, n
  <1> QED BY <1>1, LoadAlways, PTL

(* The scanner yields what the filters select.                               *)

(* No program is listed while the Kyuafile is read.                          *)
Undone(p) == p.listed = FALSE /\ p.cases = NoList
AllUndone(ps) == \A n \in DOMAIN ps : Undone(ps[n])
StackUndone(st) == \A k \in DOMAIN st : AllUndone(st[k].programs)
UndoneInv ==
  /\ phase = "parsing" => StackUndone(stack)
  /\ phase = "loaded" => AllUndone(programs)
  /\ phase \in {"parsing", "loaded"} => used = {}

LEMMA UndoneStarts == ASSUME Init PROVE UndoneInv
<1> DEFINE q == [id |-> 0, file |-> TopFile, version |-> NoVersion, programs |-> <<>>, suite |-> NoSuite]
<1>1. phase = "parsing" /\ used = {} /\ stack = <<q>>
  BY DEF Init
<1>2. DOMAIN stack = {1} /\ stack[1] = q
  BY <1>1
<1>3. DOMAIN q.programs = {}
  BY EmptyIsSeq
<1> QED
  BY <1>1, <1>2, <1>3 DEF UndoneInv, StackUndone, AllUndone

LEMMA UndoneThrows ==
  ASSUME UndoneInv, phase = "parsing", IsSeq(stack), NEW ks, ks \subseteq 0..Len(stack), Throw(ks)
  PROVE  UndoneInv'
<1>1. PICK k \in ks : stack' = SubSeq(stack, 1, k) /\ phase' \in {"failed", phase} /\ used' = used
  BY DEF Throw, scanning
<1>2. k \in 0..Len(stack) /\ Len(stack) \in Nat /\ DOMAIN stack = 1..Len(stack)
  BY SeqFacts
<1>3. DOMAIN stack' = 1..k /\ \A i \in 1..k : stack'[i] = stack[i]
  BY <1>1, <1>2, CutFacts
<1>4. StackUndone(stack')
  BY <1>2, <1>3 DEF UndoneInv, StackUndone
<1> QED
  BY <1>1, <1>4 DEF UndoneInv

LEMMA UndoneCallFails ==
  ASSUME LoadInv, UndoneInv, phase = "parsing", NEW arg, CallFails(arg)
  PROVE  UndoneInv'
<1>1. Throw(Caught) /\ Caught \subseteq 0..Len(stack) /\ IsSeq(stack)
  BY Parsing DEF CallFails, Caught
<1> QED
  BY <1>1, UndoneThrows

(* Only the parser of the file that makes the call changes.                  *)
LEMMA UndoneTop ==
  ASSUME LoadInv, UndoneInv, phase = "parsing", NEW p, DOMAIN p = ParserFields, p.id = Top.id,
         AllUndone(p.programs), stack' = SetTop(p), UNCHANGED <<phase, programs, failed, scanning>>
  PROVE  UndoneInv'
<1>1. /\ stack'[Len(stack)] = p /\ IsSeq(stack') /\ Len(stack') = Len(stack)
      /\ \A k \in DOMAIN stack : k # Len(stack) => stack'[k] = stack[k]
      /\ IsSeq(stack)
  BY TopChanges, Parsing
<1>2. DOMAIN stack' = DOMAIN stack
  BY <1>1, SeqFacts
<1>3. StackUndone(stack')
  BY <1>1, <1>2 DEF UndoneInv, StackUndone
<1> QED
  BY <1>3 DEF UndoneInv, scanning

LEMMA UndoneParsing ==
  ASSUME LoadInv, UndoneInv, phase = "parsing"
  PROVE  AllUndone(Top.programs) /\ IsSeq(Top.programs)
<1>1. Top = stack[Len(stack)] /\ Len(stack) \in DOMAIN stack /\ ParsingOK(stack, log, failed)
  BY Parsing
<1> QED
  BY <1>1 DEF UndoneInv, StackUndone, ParsingOK, StackOK

LEMMA UndoneCallSyntax == ASSUME LoadInv, UndoneInv, CallSyntax PROVE UndoneInv'
<1>1. phase = "parsing"
  BY DEF CallSyntax, Calling
<1>2. PICK call \in SyntaxCalls :
        IF lua_syntax(call) /\ callback_syntax(call)
        THEN /\ Record("syntax", call)
             /\ stack' = SetTop([Top EXCEPT !.version = call.version])
             /\ UNCHANGED <<phase, programs, failed, scanning>>
        ELSE CallFails(call)
  BY DEF CallSyntax
<1>3. CASE lua_syntax(call) /\ callback_syntax(call)
  <2> DEFINE p == [Top EXCEPT !.version = call.version]
  <2>1. stack' = SetTop(p) /\ UNCHANGED <<phase, programs, failed, scanning>>
    BY <1>2, <1>3
  <2>2. DOMAIN p = ParserFields /\ p.id = Top.id /\ p.programs = Top.programs
    BY <1>1, TopFields DEF ParserFields
  <2> HIDE DEF p
  <2> QED
    BY <1>1, <2>1, <2>2, UndoneParsing, UndoneTop
<1>4. CASE ~(lua_syntax(call) /\ callback_syntax(call))
  BY <1>1, <1>2, <1>4, UndoneCallFails
<1> QED
  BY <1>3, <1>4

LEMMA UndoneCallTestSuite == ASSUME LoadInv, UndoneInv, CallTestSuite PROVE UndoneInv'
<1>1. phase = "parsing"
  BY DEF CallTestSuite, Calling
<1>2. PICK name \in Suites :
        IF Top.suite = NoSuite
        THEN /\ Record("test_suite", name)
             /\ stack' = SetTop([Top EXCEPT !.suite = name])
             /\ UNCHANGED <<phase, programs, failed, scanning>>
        ELSE CallFails(name)
  BY DEF CallTestSuite
<1>3. CASE Top.suite = NoSuite
  <2> DEFINE p == [Top EXCEPT !.suite = name]
  <2>1. stack' = SetTop(p) /\ UNCHANGED <<phase, programs, failed, scanning>>
    BY <1>2, <1>3
  <2>2. DOMAIN p = ParserFields /\ p.id = Top.id /\ p.programs = Top.programs
    BY <1>1, TopFields DEF ParserFields
  <2> HIDE DEF p
  <2> QED
    BY <1>1, <2>1, <2>2, UndoneParsing, UndoneTop
<1>4. CASE Top.suite # NoSuite
  BY <1>1, <1>2, <1>4, UndoneCallFails
<1> QED
  BY <1>3, <1>4

LEMMA UndoneCallInclude == ASSUME LoadInv, UndoneInv, CallInclude PROVE UndoneInv'
<1>1. phase = "parsing"
  BY DEF CallInclude, Calling
<1>2. PICK raw \in Includes :
        \/ /\ stack' = Append(stack, parser(relativize(branch_path(Top.file), raw), Calls + 1))
           /\ UNCHANGED <<phase, programs, failed, scanning>>
        \/ CallFails(raw)
  BY DEF CallInclude
<1>3. CASE CallFails(raw)
  BY <1>1, <1>3, UndoneCallFails
<1>4. ASSUME stack' = Append(stack, parser(relativize(branch_path(Top.file), raw), Calls + 1)),
             UNCHANGED <<phase, programs, failed, scanning>>
      PROVE  UndoneInv'
  <2>1. PICK p : stack' = Append(stack, p) /\ p.programs = <<>>
    BY <1>4 DEF parser
  <2>2. /\ IsSeq(stack) /\ DOMAIN stack = 1..Len(stack)
        /\ DOMAIN stack' = 1..(Len(stack) + 1)
        /\ \A i \in 1..Len(stack) : stack'[i] = stack[i]
        /\ stack'[Len(stack) + 1] = p /\ Len(stack) \in Nat
    BY <1>1, <2>1, Parsing, AppendFacts, SeqFacts
  <2>3. AllUndone(p.programs)
    BY <2>1, EmptyIsSeq DEF AllUndone
  <2>4. StackUndone(stack')
    <3> SUFFICES ASSUME NEW k \in 1..(Len(stack) + 1) PROVE AllUndone(stack'[k].programs)
      BY <2>2 DEF StackUndone
    <3>1. CASE k = Len(stack) + 1
      BY <2>2, <2>3, <3>1
    <3>2. CASE k \in DOMAIN stack
      BY <1>1, <2>2, <3>2 DEF UndoneInv, StackUndone
    <3> QED
      BY <2>2, <3>1, <3>2
  <2> QED
    BY <1>4, <2>4 DEF UndoneInv, scanning
<1> QED
  BY <1>2, <1>3, <1>4

LEMMA UndoneCallTestProgram == ASSUME LoadInv, UndoneInv, CallTestProgram PROVE UndoneInv'
<1>1. phase = "parsing"
  BY DEF CallTestProgram, Calling
<1>2. PICK d \in Definitions :
        IF ValidDefinition(d)
        THEN /\ Record("test_program", d)
             /\ stack' = SetTop([Top EXCEPT !.programs = Append(@, test_program(d))])
             /\ UNCHANGED <<phase, programs, failed, scanning>>
        ELSE CallFails(d)
  BY DEF CallTestProgram
<1>3. CASE ValidDefinition(d)
  <2> DEFINE q == test_program(d)
             p == [Top EXCEPT !.programs = Append(@, q)]
  <2>1. stack' = SetTop(p) /\ UNCHANGED <<phase, programs, failed, scanning>>
    BY <1>2, <1>3
  <2>2. DOMAIN p = ParserFields /\ p.id = Top.id /\ p.programs = Append(Top.programs, q)
    BY <1>1, TopFields DEF ParserFields
  <2>3. Undone(q)
    BY DEF Undone, test_program
  <2> HIDE DEF p, q
  <2>4. AllUndone(p.programs)
    <3>1. AllUndone(Top.programs) /\ IsSeq(Top.programs)
      BY <1>1, UndoneParsing
    <3> DEFINE s == Top.programs
    <3> HIDE DEF s
    <3>2. IsSeq(s) /\ AllUndone(s)
      BY <3>1 DEF s
    <3>3. /\ DOMAIN Append(s, q) = 1..(Len(s) + 1) /\ Append(s, q)[Len(s) + 1] = q
          /\ \A i \in 1..Len(s) : Append(s, q)[i] = s[i]
          /\ Len(s) \in Nat /\ DOMAIN s = 1..Len(s)
      BY <3>2, AppendFacts, SeqFacts
    <3>4. AllUndone(Append(s, q))
      <4> SUFFICES ASSUME NEW i \in 1..(Len(s) + 1) PROVE Undone(Append(s, q)[i])
        BY <3>3 DEF AllUndone
      <4>1. CASE i = Len(s) + 1
        BY <4>1, <2>3, <3>3
      <4>2. CASE i \in DOMAIN s
        BY <4>2, <3>2, <3>3 DEF AllUndone
      <4> QED
        BY <4>1, <4>2, <3>3
    <3> QED
      BY <2>2, <3>4 DEF s
  <2> QED
    BY <1>1, <2>1, <2>2, <2>4, UndoneTop
<1>4. CASE ~ValidDefinition(d)
  BY <1>1, <1>2, <1>4, UndoneCallFails
<1> QED
  BY <1>3, <1>4

LEMMA UndoneScriptFails == ASSUME LoadInv, UndoneInv, ScriptFails PROVE UndoneInv'
<1>1. phase = "parsing" /\ Throw(CaughtByIncluder)
  BY DEF ScriptFails
<1>2. CaughtByIncluder \subseteq 0..Len(stack) /\ IsSeq(stack)
  BY <1>1, Parsing DEF CaughtByIncluder
<1> QED
  BY <1>1, <1>2, UndoneThrows

LEMMA UndoneEndOfFile == ASSUME LoadInv, UndoneInv, EndOfFile PROVE UndoneInv'
<1>1. phase = "parsing"
  BY DEF EndOfFile
<1>2. /\ stack # <<>> /\ IsSeq(stack) /\ Len(stack) \in Nat \ {0} /\ DOMAIN stack = 1..Len(stack)
      /\ ParsingOK(stack, log, failed) /\ Top = stack[Len(stack)] /\ Len(stack) \in DOMAIN stack
      /\ StackUndone(stack)
  BY <1>1, Parsing DEF UndoneInv
<1>3. CASE Top.version = NoVersion
  <2>1. Throw(CaughtByIncluder)
    BY <1>3 DEF EndOfFile
  <2>2. CaughtByIncluder \subseteq 0..Len(stack)
    BY <1>2 DEF CaughtByIncluder
  <2> QED
    BY <1>1, <1>2, <2>1, <2>2, UndoneThrows
<1>4. CASE Top.version # NoVersion /\ Len(stack) = 1
  <2>1. programs' = Top.programs /\ phase' = "loaded" /\ used' = used
    BY <1>4 DEF EndOfFile, scanning
  <2>2. AllUndone(programs')
    BY <1>2, <2>1 DEF StackUndone
  <2> QED
    BY <1>1, <2>1, <2>2 DEF UndoneInv
<1>5. CASE Top.version # NoVersion /\ Len(stack) # 1
  <2> DEFINE K == Len(stack) - 1
             a == stack[K]
             b == stack[Len(stack)]
             c == callback_include(a, b.programs)
  <2>1. K \in 1..Len(stack) /\ K \in DOMAIN stack /\ K - 1 = Len(stack) - 2 /\ K - 1 \in 0..Len(stack)
    BY <1>2, <1>5
  <2>2. stack' = Append(SubSeq(stack, 1, K - 1), c) /\ UNCHANGED <<phase, programs, failed, scanning>>
    BY <1>2, <1>5, <2>1 DEF EndOfFile
  <2>3. /\ DOMAIN a = ParserFields /\ IsSeq(a.programs) /\ IsSeq(b.programs)
        /\ AllUndone(a.programs) /\ AllUndone(b.programs)
    BY <1>2, <2>1 DEF ParsingOK, StackOK, StackUndone
  <2>4. c.programs = a.programs \o b.programs
    BY <2>3 DEF callback_include, ParserFields
  <2> HIDE DEF a, b, c
  <2>5. AllUndone(c.programs)
    <3> DEFINE s == a.programs
               t == b.programs
    <3>1. IsSeq(s) /\ IsSeq(t) /\ AllUndone(s) /\ AllUndone(t) /\ c.programs = s \o t
      BY <2>3, <2>4
    <3> HIDE DEF s, t
    <3>2. /\ DOMAIN (s \o t) = 1..(Len(s) + Len(t))
          /\ \A i \in 1..Len(s) : (s \o t)[i] = s[i]
          /\ \A i \in 1..Len(t) : (s \o t)[Len(s) + i] = t[i]
          /\ Len(s) \in Nat /\ Len(t) \in Nat /\ DOMAIN s = 1..Len(s) /\ DOMAIN t = 1..Len(t)
      BY <3>1, ConcatFacts, SeqFacts
    <3>3. ASSUME NEW i \in 1..(Len(s) + Len(t)) PROVE Undone((s \o t)[i])
      <4>1. CASE i \in 1..Len(s)
        BY <4>1, <3>1, <3>2 DEF AllUndone
      <4>2. CASE i \notin 1..Len(s)
        <5>1. i - Len(s) \in 1..Len(t) /\ Len(s) + (i - Len(s)) = i
          BY <4>2, <3>2
        <5>2. (s \o t)[i] = t[i - Len(s)]
          BY <5>1, <3>2
        <5> QED
          BY <5>1, <5>2, <3>1, <3>2 DEF AllUndone
      <4> QED
        BY <4>1, <4>2
    <3> QED
      BY <3>1, <3>2, <3>3 DEF AllUndone
  <2> DEFINE k == K - 1
  <2>6. k \in 0..Len(stack) /\ k \in Nat /\ \A i \in 1..k : i \in DOMAIN stack
    BY <1>2, <2>1
  <2> HIDE DEF K, k
  <2>7. /\ DOMAIN stack' = 1..(k + 1) /\ stack'[k + 1] = c
        /\ \A i \in 1..k : stack'[i] = stack[i]
    <3>1. stack' = Append(SubSeq(stack, 1, k), c)
      BY <2>2 DEF k
    <3> QED
      BY <3>1, <1>2, <2>6, CutAppend
  <2>8. StackUndone(stack')
    <3> SUFFICES ASSUME NEW i \in 1..(k + 1) PROVE AllUndone(stack'[i].programs)
      BY <2>7 DEF StackUndone
    <3>1. CASE i = k + 1
      BY <3>1, <2>5, <2>7
    <3>2. CASE i \in 1..k
      BY <3>2, <1>2, <2>6, <2>7 DEF StackUndone
    <3> QED
      BY <2>6, <3>1, <3>2
  <2> QED
    BY <2>2, <2>8 DEF UndoneInv, scanning
<1> QED
  BY <1>3, <1>4, <1>5

(* What the code matches is what the user's manual says that is selected.    *)
LEMMA MatchesAsSelects ==
  ASSUME NEW f \in Filters, NEW path, NEW case
  PROVE  /\ matches_test_case(f, path, case) <=> Selects(f, path, case)
         /\ matches_test_program(f, path) <=> (f.program = path \/ Selects(f, path, ""))
<1>1. f.program # <<Root>>
  BY FiltersAssumption DEF is_absolute
<1>2. is_parent_of(f.program, path) <=>
        f.program = path \/ (IsPrefix(f.program, path) /\ f.program # Here)
  BY <1>1 DEF is_parent_of
<1> HIDE DEF is_parent_of, IsPrefix
<1> QED
  BY <1>2 DEF matches_test_case, matches_test_program, Selects

LEMMA PrefixesNest ==
  ASSUME NEW f, NEW g, f \in Seq(STRING), g \in Seq(STRING), NEW path,
         IsPrefix(f, path), IsPrefix(g, path), Len(f) <= Len(g)
  PROVE  IsPrefix(f, g)
<1> DEFINE a == Len(f)
           b == Len(g)
<1>1. a \in Nat /\ b \in Nat /\ a <= b
  OBVIOUS
<1>2. \A n \in Nat : \A r : SubSeq(r, 1, n) = [i \in 1..n |-> r[i]]
  OBVIOUS
<1>3. SubSeq(f, 1, a) = SubSeq(path, 1, a) /\ SubSeq(g, 1, b) = SubSeq(path, 1, b)
  BY DEF IsPrefix
<1> HIDE DEF a, b
<1>4. [i \in 1..a |-> f[i]] = [i \in 1..a |-> path[i]] /\ [i \in 1..b |-> g[i]] = [i \in 1..b |-> path[i]]
  BY <1>1, <1>2, <1>3
<1>5. (\A i \in 1..a : f[i] = path[i]) /\ (\A i \in 1..b : g[i] = path[i])
  BY <1>4
<1>6. \A i \in 1..a : i \in 1..b
  BY <1>1
<1>7. \A i \in 1..a : f[i] = g[i]
  BY <1>5, <1>6
<1>8. SubSeq(f, 1, a) = SubSeq(g, 1, a)
  BY <1>1, <1>2, <1>7
<1> QED
  BY <1>1, <1>8 DEF IsPrefix, a, b

(* Of disjoint filters, one at most selects a test case.                     *)
LEMMA OneSelects ==
  ASSUME NEW fs, fs \subseteq Filters, check_disjoint_filters(fs), NEW path, NEW case,
         NEW f \in fs, NEW g \in fs, Selects(f, path, case), Selects(g, path, case)
  PROVE  f = g
<1>1. /\ f \in [program : Seq(STRING) \ {<<>>}, case : STRING]
      /\ g \in [program : Seq(STRING) \ {<<>>}, case : STRING]
      /\ f.program # <<Root>> /\ g.program # <<Root>>
  BY FiltersAssumption DEF is_absolute
<1>2. SUFFICES ASSUME f # g PROVE contains(f, g) \/ contains(g, f)
  BY DEF check_disjoint_filters
<1>3. CASE f.program = path /\ g.program = path
  <2>1. f.case \in {"", case} /\ g.case \in {"", case}
    BY <1>3 DEF Selects
  <2>2. f.case = "" \/ g.case = ""
    <3>1. SUFFICES ASSUME f.case = case, g.case = case PROVE FALSE
      BY <2>1
    <3> QED
      BY <1>1, <1>2, <1>3, <3>1
  <2> QED
    BY <1>3, <2>2 DEF contains, is_parent_of
<1>4. CASE f.program # path /\ g.program = path
  BY <1>1, <1>4 DEF contains, is_parent_of, Selects
<1>5. CASE f.program = path /\ g.program # path
  BY <1>1, <1>5 DEF contains, is_parent_of, Selects
<1>6. CASE f.program # path /\ g.program # path
  <2>1. /\ f.case = "" /\ IsPrefix(f.program, path) /\ f.program # Here
        /\ g.case = "" /\ IsPrefix(g.program, path) /\ g.program # Here
    BY <1>6 DEF Selects
  <2>2. Len(f.program) <= Len(g.program) \/ Len(g.program) <= Len(f.program)
    <3>1. Len(f.program) \in Nat /\ Len(g.program) \in Nat
      BY <1>1
    <3> QED
      BY <3>1
  <2>3. IsPrefix(f.program, g.program) \/ IsPrefix(g.program, f.program)
    BY <1>1, <2>1, <2>2, PrefixesNest
  <2> QED
    BY <1>1, <2>1, <2>3 DEF contains, is_parent_of
<1> QED
  BY <1>3, <1>4, <1>5, <1>6

(* What the scanner makes of the filters.                                    *)
MatchedAsSelected(fs, path, case) ==
  /\ match_test_case(fs, path, case) = {f \in fs : Selects(f, path, case)}
  /\ match_test_program(fs, path) <=>
       fs = {} \/ \E f \in fs : f.program = path \/ Selects(f, path, "")
  /\ Selected(fs, path, case) => match_test_program(fs, path)

LEMMA FiltersMatch ==
  ASSUME NEW fs, fs \subseteq Filters, check_disjoint_filters(fs), NEW path, NEW case
  PROVE  MatchedAsSelected(fs, path, case)
<1>1. \A f \in fs : /\ matches_test_case(f, path, case) <=> Selects(f, path, case)
                    /\ matches_test_program(f, path) <=> (f.program = path \/ Selects(f, path, ""))
  BY MatchesAsSelects
<1>2. \A f, g \in fs : Selects(f, path, case) /\ Selects(g, path, case) => f = g
  BY OneSelects
<1>3. match_test_case(fs, path, case) = {f \in fs : Selects(f, path, case)}
  BY <1>1, <1>2 DEF match_test_case
<1>4. \A f \in fs : matches_test_case(f, path, case) => matches_test_program(f, path)
  BY DEF matches_test_case
<1> QED
  BY <1>1, <1>3, <1>4 DEF match_test_program, Selected, MatchedAsSelected

(* "kyua list -v" leaves out only what has its default.                      *)
LEMMA ShownIsEnough ==
  ASSUME NEW md
  PROVE  combine(get_defaults, list_test_case(md)) = to_properties(md)
<1> DEFINE d == get_defaults
           props == combine(d, md)
           shown == [p \in {q \in DOMAIN props : q \notin DOMAIN d \/ props[q] # d[q]} |-> props[p]]
<1>1. list_test_case(md) = shown /\ to_properties(md) = props
  BY DEF list_test_case, to_properties
<1> HIDE DEF d
<1>2. DOMAIN props = DOMAIN d \cup DOMAIN md
  BY DEF combine
<1> HIDE DEF props
<1>3. \A p \in DOMAIN d \cup DOMAIN shown : p \in DOMAIN props
  BY <1>2
<1>4. DOMAIN d \cup DOMAIN shown = DOMAIN props
  <2>1. \A p \in DOMAIN props : p \notin DOMAIN d => p \in DOMAIN shown
    OBVIOUS
  <2> QED
    BY <1>2, <1>3, <2>1
<1>5. \A p \in DOMAIN props : leaf_combine(d, shown, p) = props[p]
  BY <1>2 DEF leaf_combine
<1>6. props = [p \in DOMAIN props |-> props[p]]
  BY DEF props, combine
<1> HIDE DEF shown
<1>7. combine(d, shown) = [p \in DOMAIN props |-> props[p]]
  BY <1>4, <1>5 DEF combine
<1> QED
  BY <1>1, <1>6, <1>7 DEF d

(* The m-th test case of the n-th program is one to yield; the scanner is    *)
(* past it; it comes before the j-th of the i-th program.                    *)
ToRun(ps, fs, n, m) ==
  n \in DOMAIN ps /\ m \in DOMAIN CasesOf(ps[n]) /\ Selected(fs, ps[n].path, CasesOf(ps[n])[m])
Reached(past, at, n, m) == n <= past \/ (n = past + 1 /\ m <= at)
Before(n, m, i, j) == n < i \/ (n = i /\ m < j)

(* The k-th that was yielded is case t[k] of its program: all those selected *)
(* that the scanner went past, in order.                                     *)
TurnOf(t, ps, fs, past, at, k, y) ==
  /\ ToRun(ps, fs, y.index, t[k]) /\ CasesOf(ps[y.index])[t[k]] = y.case
  /\ Reached(past, at, y.index, t[k])
Turns(t, ps, ys, fs, past, at) ==
  /\ \A k \in DOMAIN ys : TurnOf(t, ps, fs, past, at, k, ys[k])
  /\ \A j, k \in DOMAIN ys : j < k => Before(ys[j].index, t[j], ys[k].index, t[k])
  /\ \A n, m : ToRun(ps, fs, n, m) /\ Reached(past, at, n, m) =>
       \E k \in DOMAIN ys : ys[k].index = n /\ t[k] = m

(* The scanner goes past something that is not to be yielded.                *)
LEMMA TurnsPass ==
  ASSUME NEW t, NEW ps, NEW ys, NEW fs, NEW past, NEW at, NEW past2, NEW at2,
         Turns(t, ps, ys, fs, past, at),
         \A n, m : ToRun(ps, fs, n, m) => (Reached(past, at, n, m) <=> Reached(past2, at2, n, m))
  PROVE  Turns(t, ps, ys, fs, past2, at2)
BY DEF Turns, TurnOf

(* A program that had not been listed is.                                    *)
LEMMA TurnsList ==
  ASSUME NEW t, NEW ps, NEW ys, NEW fs, NEW past \in Nat, Turns(t, ps, ys, fs, past, 0),
         NEW ps2, DOMAIN ps2 = DOMAIN ps, DOMAIN ps \subseteq Nat,
         \A j \in DOMAIN ps : j # past + 1 => ps2[j] = ps[j],
         \A n \in DOMAIN ps : /\ DOMAIN CasesOf(ps[n]) \subseteq Nat \ {0}
                              /\ DOMAIN CasesOf(ps2[n]) \subseteq Nat \ {0}
  PROVE  Turns(t, ps2, ys, fs, past, 0)
<1>1. ASSUME NEW n, NEW m
      PROVE  /\ ToRun(ps, fs, n, m) /\ Reached(past, 0, n, m) =>
                  n \in DOMAIN ps /\ n # past + 1 /\ ps2[n] = ps[n]
             /\ ToRun(ps2, fs, n, m) /\ Reached(past, 0, n, m) =>
                  n \in DOMAIN ps /\ n # past + 1 /\ ps2[n] = ps[n]
  <2>1. ASSUME n \in DOMAIN ps, m \in Nat \ {0}, Reached(past, 0, n, m)
        PROVE  n # past + 1
    BY <2>1 DEF Reached
  <2> QED
    BY <2>1 DEF ToRun
<1>2. \A n, m : Reached(past, 0, n, m) => (ToRun(ps, fs, n, m) <=> ToRun(ps2, fs, n, m))
  BY <1>1 DEF ToRun
<1>3. \A k \in DOMAIN ys : TurnOf(t, ps2, fs, past, 0, k, ys[k])
  <2> SUFFICES ASSUME NEW k \in DOMAIN ys PROVE TurnOf(t, ps2, fs, past, 0, k, ys[k])
    OBVIOUS
  <2>1. TurnOf(t, ps, fs, past, 0, k, ys[k])
    BY DEF Turns
  <2>2. ps2[ys[k].index] = ps[ys[k].index] /\ ToRun(ps2, fs, ys[k].index, t[k])
    BY <1>1, <1>2, <2>1 DEF TurnOf
  <2> QED
    BY <2>1, <2>2 DEF TurnOf
<1> QED
  BY <1>2, <1>3 DEF Turns

(* The case whose turn it is is yielded.                                     *)
LEMMA TurnsYield ==
  ASSUME NEW t, NEW ps, NEW ys, IsSeq(ys), NEW fs, NEW past \in Nat, NEW at \in Nat,
         Turns(t, ps, ys, fs, past, at),
         NEW y, y.index = past + 1, ToRun(ps, fs, past + 1, at + 1),
         CasesOf(ps[past + 1])[at + 1] = y.case, DOMAIN ps \subseteq Nat,
         \A n \in DOMAIN ps : DOMAIN CasesOf(ps[n]) \subseteq Nat
  PROVE  \E u : Turns(u, ps, Append(ys, y), fs, past, at + 1)
<1> DEFINE ys2 == Append(ys, y)
           N == Len(ys) + 1
           u == [k \in 1..N |-> IF k < N THEN t[k] ELSE at + 1]
<1>1. /\ Len(ys) \in Nat /\ DOMAIN ys = 1..Len(ys) /\ DOMAIN ys2 = 1..N
      /\ \A k \in 1..Len(ys) : ys2[k] = ys[k]
      /\ ys2[N] = y
  BY AppendFacts, SeqFacts
<1>2. /\ N \in DOMAIN ys2 /\ u[N] = at + 1
      /\ \A k \in DOMAIN ys : k \in DOMAIN ys2 /\ u[k] = t[k] /\ ys2[k] = ys[k] /\ k < N
      /\ \A k \in DOMAIN ys2 : k = N \/ k \in DOMAIN ys
  BY <1>1
<1>3. \A j, k \in DOMAIN ys2 : j < k => j \in DOMAIN ys
  BY <1>1
<1>0. N \in Nat
  BY <1>1
<1> HIDE DEF ys2, N, u
<1>4. \A n \in Nat, m \in Nat : Reached(past, at + 1, n, m) <=>
                                  Reached(past, at, n, m) \/ (n = past + 1 /\ m = at + 1)
  BY DEF Reached
<1>5. \A n, m : ToRun(ps, fs, n, m) => n \in Nat /\ m \in Nat
  BY DEF ToRun
<1>6. ASSUME NEW k \in DOMAIN ys2 PROVE TurnOf(u, ps, fs, past, at + 1, k, ys2[k])
  <2>1. CASE k = N
    BY <1>1, <1>2, <2>1 DEF TurnOf, Reached
  <2>2. CASE k \in DOMAIN ys
    <3>1. TurnOf(t, ps, fs, past, at, k, ys[k])
      BY <2>2 DEF Turns
    <3>2. Reached(past, at + 1, ys[k].index, t[k])
      BY <3>1, <1>4, <1>5 DEF TurnOf
    <3> QED
      BY <2>2, <3>1, <3>2, <1>2 DEF TurnOf
  <2> QED
    BY <1>2, <2>1, <2>2
<1>7. ASSUME NEW j \in DOMAIN ys2, NEW k \in DOMAIN ys2, j < k
      PROVE  Before(ys2[j].index, u[j], ys2[k].index, u[k])
  <2>1. j \in DOMAIN ys
    BY <1>3, <1>7
  <2>2. CASE k \in DOMAIN ys
    BY <1>2, <1>7, <2>1, <2>2 DEF Turns
  <2>3. CASE k = N
    <3>1. TurnOf(t, ps, fs, past, at, j, ys[j])
      BY <2>1 DEF Turns
    <3>2. PICK n, m : n = ys[j].index /\ m = t[j] /\ n \in Nat /\ m \in Nat /\ Reached(past, at, n, m)
      BY <3>1, <1>5 DEF TurnOf
    <3>3. Before(n, m, past + 1, at + 1)
      BY <3>2 DEF Reached, Before
    <3> QED
      BY <1>1, <1>2, <2>1, <2>3, <3>2, <3>3
  <2> QED
    BY <1>2, <2>2, <2>3
<1>8. ASSUME NEW n, NEW m, ToRun(ps, fs, n, m), Reached(past, at + 1, n, m)
      PROVE  \E k \in DOMAIN ys2 : ys2[k].index = n /\ u[k] = m
  <2>1. n \in Nat /\ m \in Nat
    BY <1>5, <1>8
  <2>2. CASE Reached(past, at, n, m)
    <3>1. PICK k \in DOMAIN ys : ys[k].index = n /\ t[k] = m
      BY <1>8, <2>2 DEF Turns
    <3> QED
      BY <1>2, <3>1
  <2>3. CASE n = past + 1 /\ m = at + 1
    BY <1>1, <1>2, <2>3
  <2> QED
    BY <1>4, <1>8, <2>1, <2>2, <2>3
<1>9. Turns(u, ps, ys2, fs, past, at + 1)
  BY <1>6, <1>7, <1>8 DEF Turns
<1> QED
  BY <1>9 DEF ys2

(* A program was listed when its turn came, if a filter matches it.          *)
ProgramOK(ps, fs, past, open, n) ==
  IF (n <= past \/ (n = past + 1 /\ open)) /\ match_test_program(fs, ps[n].path)
  THEN ps[n].listed = TRUE /\ ps[n].cases \in Lists
  ELSE Undone(ps[n])

(* The cases left are the last ones of the program whose turn it is.         *)
RestOK(ps, past, rest) ==
  rest # NoCases =>
    LET cs == CasesOf(ps[past + 1])
    IN /\ Len(rest) <= Len(cs)
       /\ \A i \in DOMAIN rest : rest[i] = cs[Len(cs) - Len(rest) + i]

(* The number of its cases that are behind.                                  *)
Gone(ps, past, rest) == IF rest = NoCases THEN 0 ELSE Len(CasesOf(ps[past + 1])) - Len(rest)

UsedOK(ps, ys, fs, u) ==
  u = {f \in fs : \E k \in DOMAIN ys : Selects(f, ps[ys[k].index].path, ys[k].case)}
ShownOK(ps, y) == y.shown = list_test_case(get_metadata(ps[y.index], y.case))

TurnsOK(ps, ys, fs, past, rest) == \E t : Turns(t, ps, ys, fs, past, Gone(ps, past, rest))

TurnsInv ==
  /\ filters \subseteq Filters /\ check_disjoint_filters(filters)
  /\ \A n \in DOMAIN programs : ProgramOK(programs, filters, Past, first # NoCases, n)
  /\ RestOK(programs, Past, first)
  /\ UsedOK(programs, yielded, filters, used)
  /\ \A k \in DOMAIN yielded : ShownOK(programs, yielded[k])
  /\ TurnsOK(programs, yielded, filters, Past, first)
  /\ phase = "done" => pending = <<>>

LEMMA CasesNumbered ==
  ASSUME NEW p, p.cases = NoList \/ p.cases \in Lists
  PROVE  /\ IsSeq(CasesOf(p)) /\ Len(CasesOf(p)) \in Nat /\ DOMAIN CasesOf(p) = 1..Len(CasesOf(p))
         /\ DOMAIN CasesOf(p) \subseteq Nat /\ DOMAIN CasesOf(p) \subseteq Nat \ {0}
         /\ \A k \in DOMAIN CasesOf(p) : CasesOf(p)[k] \in DOMAIN p.cases
         /\ p.cases = NoList => DOMAIN CasesOf(p) = {}
<1>1. DOMAIN NoList = {} /\ IsFiniteSet({})
  BY FS_EmptySet DEF NoList
<1>2. IsFiniteSet(DOMAIN p.cases)
  BY <1>1, NamesAssumption
<1>3. IsSeq(CasesOf(p)) /\ \A k \in DOMAIN CasesOf(p) : CasesOf(p)[k] \in DOMAIN p.cases
  BY <1>2, CasesListed DEF CasesOf
<1>4. Len(CasesOf(p)) \in Nat /\ DOMAIN CasesOf(p) = 1..Len(CasesOf(p))
  BY <1>3, SeqFacts
<1>5. DOMAIN CasesOf(p) \subseteq Nat /\ DOMAIN CasesOf(p) \subseteq Nat \ {0}
  BY <1>4
<1>6. p.cases = NoList => DOMAIN CasesOf(p) = {}
  BY <1>1, <1>3
<1> QED
  BY <1>3, <1>4, <1>5, <1>6

LEMMA ProgramsNumbered ==
  ASSUME NEW ps, NEW fs, NEW past, NEW open, NEW n, ProgramOK(ps, fs, past, open, n)
  PROVE  ps[n].cases = NoList \/ ps[n].cases \in Lists
BY DEF ProgramOK, Undone

LEMMA NotListed ==
  ASSUME NEW ps, NEW n, Undone(ps[n]), NEW fs, NEW m
  PROVE  ~ToRun(ps, fs, n, m)
<1>1. ps[n].cases = NoList
  BY DEF Undone
<1> QED
  BY <1>1, CasesNumbered DEF ToRun

LEMMA TurnsScan == ASSUME LoadInv, UndoneInv, Scan PROVE TurnsInv'
<1>1. /\ phase = "loaded" /\ phase' = "scanning" /\ pending' = [i \in DOMAIN programs |-> i]
      /\ programs' = programs /\ first' = first /\ used' = used /\ yielded' = yielded
      /\ filters' \subseteq Filters /\ check_disjoint_filters(filters')
  BY DEF Scan
<1>2. LoadedOK(programs, log, failed) /\ first = NoCases /\ yielded = <<>> /\ used = {} /\ AllUndone(programs)
  BY <1>1 DEF LoadInv, Loaded, UndoneInv
<1>3. IsSeq(programs)
  BY <1>2 DEF LoadedOK, Ended
<1> DEFINE n == Len(programs)
           s == [i \in 1..n |-> i]
<1>4. n \in Nat /\ DOMAIN programs = 1..n
  BY <1>3, SeqFacts
<1>5. Len(s) = n
  BY <1>4
<1>6. pending' = s
  BY <1>1, <1>4
<1> HIDE DEF s, n
<1>7. Past' = 0
  BY <1>1, <1>4, <1>5, <1>6 DEF Past, n
<1>8. \A i \in DOMAIN programs : ~(i <= 0) /\ Undone(programs[i])
  BY <1>2, <1>4 DEF AllUndone
<1> DEFINE fs == filters'
<1> HIDE DEF fs
<1>9. \A i \in DOMAIN programs : ProgramOK(programs, fs, 0, FALSE, i)
  BY <1>8 DEF ProgramOK
<1>10. \A i, m : ~ToRun(programs, fs, i, m)
  BY <1>8, NotListed DEF ToRun
<1>11. Turns(<<>>, programs, <<>>, fs, 0, 0)
  BY <1>10, EmptyIsSeq DEF Turns
<1>12. TurnsOK(programs, <<>>, fs, 0, NoCases)
  BY <1>11 DEF TurnsOK, Gone
<1>13. RestOK(programs, 0, NoCases)
  BY DEF RestOK
<1>14. UsedOK(programs, <<>>, fs, {})
  BY EmptyIsSeq DEF UsedOK
<1>15. \A k \in DOMAIN <<>> : ShownOK(programs, <<>>[k])
  BY EmptyIsSeq
<1>16. first' # NoCases <=> FALSE
  BY <1>1, <1>2
<1>17. /\ \A i \in DOMAIN programs' : ProgramOK(programs', filters', Past', first' # NoCases, i)
       /\ RestOK(programs', Past', first')
       /\ UsedOK(programs', yielded', filters', used')
       /\ \A k \in DOMAIN yielded' : ShownOK(programs', yielded'[k])
       /\ TurnsOK(programs', yielded', filters', Past', first')
  <2>1. \A i \in DOMAIN programs' : ProgramOK(programs', filters', Past', first' # NoCases, i)
    <3>1. (first' # NoCases) = FALSE
      BY <1>16
    <3> QED
      BY <1>1, <1>7, <1>9, <3>1 DEF fs
  <2> QED
    BY <2>1, <1>1, <1>2, <1>7, <1>12, <1>13, <1>14, <1>15 DEF fs
<1> QED
  BY <1>1, <1>17 DEF TurnsInv

(* What the steps of the scanner start from.                                 *)
LEMMA TurnFacts ==
  ASSUME LoadInv, Scanning, TurnsInv
  PROVE  /\ DOMAIN programs = 1..Len(programs) /\ Len(programs) \in Nat /\ Past \in Nat
         /\ DOMAIN programs \subseteq Nat
         /\ IsSeq(pending) /\ IsSeq(yielded) /\ DOMAIN yielded = 1..Len(yielded) /\ Len(yielded) \in Nat
         /\ \A n \in DOMAIN programs :
              /\ IsSeq(CasesOf(programs[n])) /\ Len(CasesOf(programs[n])) \in Nat
              /\ DOMAIN CasesOf(programs[n]) = 1..Len(CasesOf(programs[n]))
              /\ DOMAIN CasesOf(programs[n]) \subseteq Nat /\ DOMAIN CasesOf(programs[n]) \subseteq Nat \ {0}
         /\ pending # <<>> => Head(pending) = Past + 1 /\ Past + 1 \in DOMAIN programs
         /\ first # NoCases => pending # <<>>
<1>1. /\ ScanOK /\ Len(programs) \in Nat /\ DOMAIN programs = 1..Len(programs) /\ Past \in Nat
      /\ pending # <<>> => Head(pending) = Past + 1 /\ Head(pending) \in DOMAIN programs
  BY ScanFacts
<1>2. IsSeq(pending) /\ IsSeq(yielded) /\ (first # NoCases => pending # <<>>)
  BY <1>1 DEF ScanOK
<1>3. ASSUME NEW n \in DOMAIN programs
      PROVE  /\ IsSeq(CasesOf(programs[n])) /\ Len(CasesOf(programs[n])) \in Nat
             /\ DOMAIN CasesOf(programs[n]) = 1..Len(CasesOf(programs[n]))
             /\ DOMAIN CasesOf(programs[n]) \subseteq Nat /\ DOMAIN CasesOf(programs[n]) \subseteq Nat \ {0}
  <2>1. ProgramOK(programs, filters, Past, first # NoCases, n)
    BY DEF TurnsInv
  <2>2. programs[n].cases = NoList \/ programs[n].cases \in Lists
    BY <2>1, ProgramsNumbered
  <2> QED
    BY <2>2, CasesNumbered
<1> QED
  BY <1>1, <1>2, <1>3, SeqFacts

LEMMA PastMoves ==
  ASSUME LoadInv, Scanning, pending # <<>>, programs' = programs, pending' = Tail(pending)
  PROVE  Past' = Past + 1
<1>1. /\ IsSeq(pending) /\ Len(programs) \in Nat /\ Len(pending) \in Nat
  BY ScanFacts
<1>2. Len(pending') = Len(pending) - 1
  BY <1>1, TailFacts
<1> QED
  BY <1>1, <1>2 DEF Past

(* The turn of the next program.                                             *)
LEMMA TurnsNextProgram ==
  ASSUME LoadInv, Scanning, TurnsInv, pending # <<>>, NextProgram,
         UNCHANGED <<phase, programs, parsing, filters, used, host, yielded>>,
         first # NoCases => first = <<>>,
         first = NoCases => ~match_test_program(filters, programs[Past + 1].path)
  PROVE  TurnsInv'
<1>1. /\ pending' = Tail(pending) /\ first' = NoCases /\ phase' = phase /\ programs' = programs
      /\ filters' = filters /\ used' = used /\ yielded' = yielded /\ phase = "scanning"
  BY DEF NextProgram, Scanning
<1>2. Past' = Past + 1
  BY <1>1, PastMoves
<1> DEFINE past == Past
           c == past + 1
           gone == Gone(programs, past, first)
<1>3. /\ past \in Nat /\ c \in Nat /\ DOMAIN programs \subseteq Nat /\ c \in DOMAIN programs
      /\ \A n \in DOMAIN programs :
              /\ Len(CasesOf(programs[n])) \in Nat
              /\ DOMAIN CasesOf(programs[n]) = 1..Len(CasesOf(programs[n]))
              /\ DOMAIN CasesOf(programs[n]) \subseteq Nat \ {0}
  BY TurnFacts
<1> HIDE DEF past
<1>4. ASSUME NEW n \in DOMAIN programs PROVE ProgramOK(programs, filters, c, FALSE, n)
  <2>1. ProgramOK(programs, filters, past, first # NoCases, n)
    BY DEF TurnsInv, past
  <2>2. n \in Nat
    BY <1>3
  <2>3. CASE n = c
    BY <1>3, <2>1, <2>2, <2>3 DEF ProgramOK, past
  <2>4. CASE n # c
    BY <1>3, <2>1, <2>2, <2>4 DEF ProgramOK
  <2> QED
    BY <2>3, <2>4
<1>5. PICK t : Turns(t, programs, yielded, filters, past, gone)
  BY DEF TurnsInv, TurnsOK, past
<1>6. ASSUME NEW n, NEW m, ToRun(programs, filters, n, m)
      PROVE  Reached(past, gone, n, m) <=> Reached(c, 0, n, m)
  <2>1. n \in Nat /\ m \in Nat \ {0} /\ n \in DOMAIN programs /\ m \in DOMAIN CasesOf(programs[n])
    BY <1>3, <1>6 DEF ToRun
  <2>2. CASE n # c
    BY <1>3, <2>1, <2>2 DEF Reached
  <2>3. CASE n = c /\ first = NoCases
    <3>1. ProgramOK(programs, filters, past, FALSE, c)
      BY <1>3, <2>3 DEF TurnsInv, past
    <3>2. Undone(programs[c])
      BY <1>3, <2>3, <3>1 DEF ProgramOK, past
    <3> QED
      BY <1>6, <2>3, <3>2, NotListed
  <2>4. CASE n = c /\ first # NoCases
    <3>1. gone = Len(CasesOf(programs[c]))
      <4>1. first = <<>> /\ Len(first) = 0
        BY <2>4, EmptyIsSeq
      <4> DEFINE w == Len(CasesOf(programs[c]))
      <4>2. w \in Nat /\ gone = w - Len(first)
        BY <1>3, <2>4 DEF Gone
      <4> HIDE DEF w, gone
      <4>3. gone = w
        BY <4>1, <4>2
      <4> QED
        BY <4>3 DEF w
    <3> HIDE DEF gone
    <3>2. m <= gone
      BY <1>3, <2>1, <2>4, <3>1
    <3> QED
      BY <1>3, <2>1, <2>4, <3>2 DEF Reached
  <2> QED
    BY <2>2, <2>3, <2>4
<1>7. Turns(t, programs, yielded, filters, c, 0)
  <2> HIDE DEF gone, c
  <2> QED
    BY <1>5, <1>6, TurnsPass
<1>8. TurnsOK(programs, yielded, filters, c, NoCases)
  BY <1>7 DEF TurnsOK, Gone
<1>9. RestOK(programs, c, NoCases)
  BY DEF RestOK
<1>10. UsedOK(programs, yielded, filters, used) /\ \A k \in DOMAIN yielded : ShownOK(programs, yielded[k])
  BY DEF TurnsInv
<1>11. filters \subseteq Filters /\ check_disjoint_filters(filters)
  BY DEF TurnsInv
<1>12. (first' # NoCases) = FALSE /\ Past' = c
  BY <1>1, <1>2 DEF past
<1> HIDE DEF c
<1>13. \A n \in DOMAIN programs' : ProgramOK(programs', filters', Past', first' # NoCases, n)
  BY <1>1, <1>4, <1>12
<1>14. TurnsOK(programs', yielded', filters', Past', first') /\ RestOK(programs', Past', first')
  BY <1>1, <1>8, <1>9, <1>12
<1> QED
  BY <1>1, <1>10, <1>11, <1>13, <1>14 DEF TurnsInv

LEMMA TurnsSkipProgram == ASSUME LoadInv, TurnsInv, SkipProgram PROVE TurnsInv'
<1>1. /\ Scanning /\ pending # <<>> /\ first = NoCases /\ NextProgram
      /\ ~match_test_program(filters, programs[Head(pending)].path)
      /\ UNCHANGED <<phase, programs, parsing, filters, used, host, yielded>>
  BY DEF SkipProgram, program
<1>2. Head(pending) = Past + 1
  BY <1>1, TurnFacts
<1> QED
  BY <1>1, <1>2, TurnsNextProgram

LEMMA TurnsDropProgram == ASSUME LoadInv, TurnsInv, DropProgram PROVE TurnsInv'
<1>1. /\ Scanning /\ first = <<>> /\ NextProgram
      /\ UNCHANGED <<phase, programs, parsing, filters, used, host, yielded>>
  BY DEF DropProgram
<1>2. first # NoCases
  <2>1. 1 \in DOMAIN NoCases
    BY DEF NoCases
  <2> QED
    BY <1>1, <2>1, EmptyIsSeq
<1>3. pending # <<>>
  BY <1>1, <1>2, TurnFacts
<1> QED
  BY <1>1, <1>2, <1>3, TurnsNextProgram

(* What listing changes of a program.                                        *)
ListsOne(ps, i, list, ps2) ==
  /\ DOMAIN ps2 = DOMAIN ps
  /\ \A j \in DOMAIN ps : j # i => ps2[j] = ps[j]
  /\ ps2[i].listed = TRUE /\ ps2[i].cases = list /\ ps2[i].path = ps[i].path

LEMMA ListingMakes ==
  ASSUME NEW ps, NEW i \in DOMAIN ps, DOMAIN ps[i] = ProgramFields, NEW list
  PROVE  ListsOne(ps, i, list, Listing(ps, i, list))
<1>1. /\ DOMAIN Listing(ps, i, list) = DOMAIN ps
      /\ \A j \in DOMAIN ps : j # i => Listing(ps, i, list)[j] = ps[j]
      /\ Listing(ps, i, list)[i] = [ps[i] EXCEPT !.listed = TRUE, !.cases = list]
  BY DEF Listing
<1> QED
  BY <1>1 DEF ProgramFields, ListsOne

LEMMA LoadedFields ==
  ASSUME NEW ps, NEW l, NEW f, LoadedOK(ps, l, f), NEW i \in DOMAIN ps
  PROVE  DOMAIN ps[i] = ProgramFields
<1>1. PICK h : Ended(h, ps, l, f)
  BY DEF LoadedOK
<1>2. DOMAIN h = DOMAIN ps
  BY <1>1, SeqFacts DEF Ended
<1> QED
  BY <1>1, <1>2 DEF Ended, Made

LEMMA TurnsListProgram == ASSUME LoadInv, TurnsInv, ListProgram PROVE TurnsInv'
<1>1. /\ Scanning /\ pending # <<>> /\ first = NoCases
      /\ match_test_program(filters, programs[Head(pending)].path)
      /\ phase' = phase /\ pending' = pending /\ filters' = filters /\ used' = used /\ yielded' = yielded
  BY DEF ListProgram, program
<1> DEFINE past == Past
           c == past + 1
           ps == programs
           ps2 == programs'
<1>2. /\ ScanOK /\ LoadedOK(ps, log, failed) /\ phase = "scanning"
      /\ Head(pending) = c /\ c \in DOMAIN ps
  BY <1>1, ScanFacts
<1>3. PICK list \in Lists : ps2 = Listing(ps, c, list) /\ first' = SetToSeq(DOMAIN list)
  <2>1. \E list \in Lists :
          /\ programs' = [programs EXCEPT ![Head(pending)].listed = TRUE, ![Head(pending)].cases = list]
          /\ first' = SetToSeq(DOMAIN list)
    BY DEF ListProgram
  <2> QED
    BY <1>2, <2>1 DEF Listing
<1>4. /\ past \in Nat /\ c \in Nat /\ c # past /\ ~(c <= past) /\ DOMAIN ps \subseteq Nat
      /\ \A n \in DOMAIN ps : DOMAIN CasesOf(ps[n]) \subseteq Nat \ {0}
      /\ DOMAIN ps = 1..Len(ps) /\ Len(ps) \in Nat
  BY <1>1, TurnFacts
<1>0. past = Past /\ ps = programs
  OBVIOUS
<1>5. /\ DOMAIN ps2 = DOMAIN ps /\ Len(ps2) = Len(ps)
      /\ \A j \in DOMAIN ps : j # c => ps2[j] = ps[j]
      /\ ps2[c].listed = TRUE /\ ps2[c].cases = list /\ ps2[c].path = ps[c].path
  <2> HIDE DEF c, ps, ps2
  <2>1. LoadedOK(ps, log, failed) /\ c \in DOMAIN ps
    BY <1>2
  <2>0. DOMAIN ps[c] = ProgramFields
    BY <2>1, LoadedFields
  <2>2. ListsOne(ps, c, list, Listing(ps, c, list))
    BY <2>0, <2>1, ListingMakes
  <2>3. Len(Listing(ps, c, list)) = Len(ps)
    BY <2>1, ListingKeepsPrograms
  <2> QED
    BY <1>3, <2>2, <2>3 DEF ListsOne
<1>6. Past' = past
  BY <1>1, <1>5 DEF Past
<1>7. CasesOf(ps2[c]) = first' /\ first' # NoCases
  <2>1. CasesOf(ps2[c]) = first'
    BY <1>3, <1>5 DEF CasesOf
  <2>2. \A k \in DOMAIN first' : first'[k] \in DOMAIN list
    BY <1>3, NamesAssumption, CasesListed
  <2>3. 1 \in DOMAIN NoCases /\ NoCases[1] = "<none>"
    BY DEF NoCases
  <2>4. "<none>" \notin DOMAIN list
    BY NamesAssumption
  <2> QED
    BY <2>1, <2>2, <2>3, <2>4
<1>8. \A n \in DOMAIN ps : DOMAIN CasesOf(ps2[n]) \subseteq Nat \ {0}
  <2> SUFFICES ASSUME NEW n \in DOMAIN ps PROVE DOMAIN CasesOf(ps2[n]) \subseteq Nat \ {0}
    OBVIOUS
  <2>1. CASE n = c
    BY <1>5, <2>1, CasesNumbered
  <2>2. CASE n # c
    BY <1>4, <1>5, <2>2
  <2> QED
    BY <2>1, <2>2
<1>9. \A k \in DOMAIN yielded : ps2[yielded[k].index] = ps[yielded[k].index]
  <2> SUFFICES ASSUME NEW k \in DOMAIN yielded PROVE ps2[yielded[k].index] = ps[yielded[k].index]
    OBVIOUS
  <2>1. Behind(yielded[k])
    BY <1>2 DEF ScanOK
  <2>2. yielded[k].index \in DOMAIN ps /\ yielded[k].index # c
    BY <1>1, <1>4, <2>1 DEF Behind
  <2> QED
    BY <1>5, <2>2
<1> DEFINE fs == filters
<1>10. ASSUME NEW n \in DOMAIN ps PROVE ProgramOK(ps2, fs, past, TRUE, n)
  <2>1. ProgramOK(ps, fs, past, first # NoCases, n)
    BY DEF TurnsInv
  <2>2. ProgramOK(ps, fs, past, FALSE, n)
    <3>1. (first # NoCases) = FALSE
      BY <1>1
    <3> QED
      BY <2>1, <3>1
  <2>3. n \in Nat
    BY <1>4
  <2> HIDE DEF c, ps, ps2, fs, past
  <2>4. CASE n = c
    <3>1. match_test_program(fs, ps2[c].path)
      BY <1>1, <1>2, <1>5 DEF fs, ps
    <3> QED
      BY <2>4, <3>1, <1>5 DEF ProgramOK, c
  <2>5. CASE n # c
    <3>1. ps2[n] = ps[n]
      BY <1>5, <2>5
    <3> QED
      BY <2>2, <2>5, <3>1 DEF ProgramOK, c
  <2> QED
    BY <2>4, <2>5
<1>11. PICK t : Turns(t, ps, yielded, fs, past, 0)
  BY <1>1 DEF TurnsInv, TurnsOK, Gone
<1>12. Turns(t, ps2, yielded, fs, past, 0)
  <2> HIDE DEF ps, ps2, fs, past
  <2>1. \A j \in DOMAIN ps : j # past + 1 => ps2[j] = ps[j]
    BY <1>5
  <2>2. past \in Nat /\ DOMAIN ps2 = DOMAIN ps /\ DOMAIN ps \subseteq Nat
    BY <1>4, <1>5
  <2>3. \A n \in DOMAIN ps : /\ DOMAIN CasesOf(ps[n]) \subseteq Nat \ {0}
                             /\ DOMAIN CasesOf(ps2[n]) \subseteq Nat \ {0}
    BY <1>4, <1>8
  <2> QED
    BY <1>11, <2>1, <2>2, <2>3, TurnsList
<1>13. Gone(ps2, past, first') = 0
  <2> DEFINE w == Len(CasesOf(ps2[c]))
  <2>1. w \in Nat
    BY <1>5, CasesNumbered
  <2>2. Gone(ps2, past, first') = w - w
    BY <1>7 DEF Gone
  <2> HIDE DEF w
  <2> QED
    BY <2>1, <2>2
<1>14. TurnsOK(ps2, yielded, fs, past, first')
  <2> HIDE DEF ps2, fs, past
  <2> QED
    BY <1>12, <1>13 DEF TurnsOK
<1>15. RestOK(ps2, past, first')
  <2> DEFINE r == first'
             w == Len(r)
  <2>1. w \in Nat /\ DOMAIN r = 1..w
    <3>1. DOMAIN CasesOf(ps2[c]) = 1..Len(CasesOf(ps2[c])) /\ Len(CasesOf(ps2[c])) \in Nat
      BY <1>5, CasesNumbered
    <3> QED
      BY <1>7, <3>1
  <2>2. CasesOf(ps2[past + 1]) = r
    BY <1>7
  <2> HIDE DEF r, ps2, past
  <2>3. \A i \in DOMAIN r : w - w + i = i
    BY <2>1
  <2>4. RestOK(ps2, past, r)
    BY <2>1, <2>2, <2>3 DEF RestOK
  <2> QED
    BY <2>4 DEF r
<1>16. UsedOK(ps2, yielded, fs, used)
  <2>1. UsedOK(ps, yielded, fs, used)
    BY DEF TurnsInv
  <2> QED
    BY <1>9, <2>1 DEF UsedOK
<1>17. \A k \in DOMAIN yielded : ShownOK(ps2, yielded[k])
  <2>1. \A k \in DOMAIN yielded : ShownOK(ps, yielded[k])
    BY DEF TurnsInv
  <2> HIDE DEF ps, ps2
  <2> QED
    BY <1>9, <2>1 DEF ShownOK
<1>18. /\ filters \subseteq Filters /\ check_disjoint_filters(filters) /\ (first' # NoCases) = TRUE
  BY <1>7 DEF TurnsInv
<1> HIDE DEF past, c, ps
<1>19. \A n \in DOMAIN programs' : ProgramOK(programs', filters', Past', first' # NoCases, n)
  BY <1>1, <1>5, <1>6, <1>10, <1>18
<1> QED
  BY <1>1, <1>2, <1>6, <1>14, <1>15, <1>16, <1>17, <1>18, <1>19 DEF TurnsInv

LEMMA CaseMoves ==
  ASSUME LoadInv, Scanning, TurnsInv, first \notin {NoCases, <<>>}, first' = Tail(first),
         programs' = programs, pending' = pending
  PROVE  LET c == Past + 1
             gone == Gone(programs, Past, first)
         IN /\ Past' = Past /\ Past \in Nat /\ c \in DOMAIN programs /\ Head(pending) = c
            /\ gone \in Nat /\ gone + 1 \in DOMAIN CasesOf(programs[c])
            /\ CasesOf(programs[c])[gone + 1] = Head(first)
            /\ Gone(programs, Past, first') = gone + 1
            /\ RestOK(programs, Past, first') /\ first' # NoCases
<1> DEFINE c == Past + 1
           cs == CasesOf(programs[c])
           w == Len(cs)
           r == Len(first)
           gone == Gone(programs, Past, first)
<1>1. /\ Past' = Past /\ Past \in Nat /\ c \in DOMAIN programs /\ Head(pending) = c
      /\ w \in Nat /\ DOMAIN cs = 1..w
  <2>1. pending # <<>>
    BY TurnFacts
  <2> QED
    BY <2>1, TurnFacts DEF Past
<1>2. IsSeq(first)
  BY ScanFacts DEF ScanOK
<1>3. first' # NoCases
  BY NextCase
<1>4. /\ r \in Nat \ {0} /\ DOMAIN first' = 1..(r - 1) /\ Len(first') = r - 1
      /\ \A i \in 1..(r - 1) : first'[i] = first[i + 1]
      /\ Head(first) = first[1] /\ DOMAIN first = 1..r
  BY <1>2, TailFacts, SeqFacts
<1>5. /\ r <= w /\ \A i \in DOMAIN first : first[i] = cs[w - r + i]
  BY DEF TurnsInv, RestOK
<1>6. gone = w - r /\ Gone(programs, Past, first') = w - Len(first')
  BY <1>3 DEF Gone
<1> HIDE DEF w, r, gone
<1>7. /\ gone \in Nat /\ gone + 1 \in DOMAIN cs /\ cs[gone + 1] = Head(first)
      /\ Gone(programs, Past, first') = gone + 1
  <2>1. gone \in Nat /\ gone + 1 \in 1..w /\ w - r + 1 = gone + 1 /\ 1 \in DOMAIN first
    BY <1>1, <1>4, <1>5, <1>6
  <2>2. Gone(programs, Past, first') = gone + 1
    BY <1>1, <1>4, <1>6
  <2>3. first[1] = cs[w - r + 1]
    BY <1>5, <2>1
  <2> QED
    BY <1>1, <1>4, <2>1, <2>2, <2>3
<1>8. \A i \in DOMAIN first' : first'[i] = cs[w - Len(first') + i]
  <2> SUFFICES ASSUME NEW i \in 1..(r - 1) PROVE first'[i] = cs[w - Len(first') + i]
    BY <1>4
  <2>0. r \in Nat /\ w \in Nat /\ i \in Nat /\ Len(first') = r - 1 /\ i + 1 \in 1..r
    BY <1>1, <1>4
  <2>1. i + 1 \in DOMAIN first /\ w - r + (i + 1) = w - Len(first') + i
    <3>1. w - r + (i + 1) = w - (r - 1) + i
      BY <2>0
    <3> QED
      BY <1>4, <2>0, <3>1
  <2>2. first[i + 1] = cs[w - r + (i + 1)]
    BY <1>5, <2>1
  <2>3. first'[i] = first[i + 1]
    BY <1>4
  <2> QED
    BY <2>1, <2>2, <2>3
<1>9. Len(first') <= w
  BY <1>1, <1>4, <1>5
<1>10. RestOK(programs, Past, first')
  BY <1>8, <1>9 DEF RestOK, w
<1> QED
  BY <1>1, <1>3, <1>7, <1>10 DEF gone

LEMMA TurnsSkipCase == ASSUME LoadInv, TurnsInv, SkipCase PROVE TurnsInv'
<1> DEFINE past == Past
           c == past + 1
           gone == Gone(programs, past, first)
           fs == filters
<1>1. /\ Scanning /\ first \notin {NoCases, <<>>} /\ first' = Tail(first)
      /\ fs # {} /\ match_test_case(fs, programs[Head(pending)].path, Head(first)) = {}
      /\ phase' = phase /\ programs' = programs /\ pending' = pending /\ filters' = filters
      /\ used' = used /\ yielded' = yielded
  BY DEF SkipCase, program
<1>2. /\ Past' = past /\ past \in Nat /\ c \in DOMAIN programs /\ Head(pending) = c
      /\ gone \in Nat /\ gone + 1 \in DOMAIN CasesOf(programs[c])
      /\ CasesOf(programs[c])[gone + 1] = Head(first)
      /\ Gone(programs, past, first') = gone + 1
      /\ RestOK(programs, past, first') /\ first' # NoCases
  BY <1>1, CaseMoves
<1>3. /\ DOMAIN programs \subseteq Nat /\ \A n \in DOMAIN programs : DOMAIN CasesOf(programs[n]) \subseteq Nat
      /\ phase = "scanning"
  BY <1>1, TurnFacts DEF Scanning
<1>4. fs \subseteq Filters /\ check_disjoint_filters(fs)
  BY DEF TurnsInv
<1>0. /\ \A n \in DOMAIN programs : ProgramOK(programs, fs, past, first # NoCases, n)
      /\ UsedOK(programs, yielded, fs, used)
      /\ \A k \in DOMAIN yielded : ShownOK(programs, yielded[k])
      /\ TurnsOK(programs, yielded, fs, past, first)
  BY DEF TurnsInv
<1> HIDE DEF past, gone, fs
<1>5. ~Selected(fs, programs[c].path, Head(first))
  <2>1. MatchedAsSelected(fs, programs[c].path, Head(first))
    BY <1>4, FiltersMatch
  <2> QED
    BY <1>1, <1>2, <2>1 DEF Selected, MatchedAsSelected
<1>6. PICK t : Turns(t, programs, yielded, fs, past, gone)
  BY <1>0 DEF TurnsOK, gone
<1>7. ASSUME NEW n, NEW m, ToRun(programs, fs, n, m)
      PROVE  Reached(past, gone, n, m) <=> Reached(past, gone + 1, n, m)
  <2>1. n \in Nat /\ m \in Nat
    BY <1>3, <1>7 DEF ToRun
  <2>2. ~(n = c /\ m = gone + 1)
    BY <1>2, <1>5, <1>7 DEF ToRun
  <2> QED
    BY <1>2, <2>1, <2>2 DEF Reached
<1>8. Turns(t, programs, yielded, fs, past, gone + 1)
  BY <1>6, <1>7, TurnsPass
<1>9. TurnsOK(programs, yielded, fs, past, first')
  BY <1>2, <1>8 DEF TurnsOK
<1>10. (first # NoCases) = TRUE /\ (first' # NoCases) = TRUE
  BY <1>1, <1>2
<1>11. \A n \in DOMAIN programs : ProgramOK(programs, fs, past, TRUE, n)
  BY <1>0, <1>10
<1>12. \A n \in DOMAIN programs' : ProgramOK(programs', filters', Past', first' # NoCases, n)
  BY <1>1, <1>2, <1>10, <1>11 DEF fs
<1> QED
  BY <1>0, <1>1, <1>2, <1>3, <1>4, <1>9, <1>12 DEF TurnsInv, fs

LEMMA TurnsYieldStep == ASSUME LoadInv, TurnsInv, Yield PROVE TurnsInv'
<1> DEFINE past == Past
           c == past + 1
           gone == Gone(programs, past, first)
           fs == filters
           name == Head(first)
           path == programs[c].path
<1>1. /\ Scanning /\ first \notin {NoCases, <<>>} /\ first' = Tail(first)
      /\ phase' = phase /\ programs' = programs /\ pending' = pending /\ filters' = filters
  BY DEF Yield
<1>2. /\ Past' = past /\ past \in Nat /\ c \in DOMAIN programs /\ Head(pending) = c
      /\ gone \in Nat /\ gone + 1 \in DOMAIN CasesOf(programs[c])
      /\ CasesOf(programs[c])[gone + 1] = name
      /\ Gone(programs, past, first') = gone + 1
      /\ RestOK(programs, past, first') /\ first' # NoCases
  BY <1>1, CaseMoves
<1>3. PICK y : /\ y.index = Head(pending) /\ y.case = name
               /\ y.shown = list_test_case(get_metadata(programs[Head(pending)], name))
               /\ yielded' = Append(yielded, y)
  <2> DEFINE z == [index |-> Head(pending), case |-> name,
                   reason |-> check_reqs(get_metadata(program, name), host, program.suite),
                   shown |-> list_test_case(get_metadata(program, name))]
  <2>1. yielded' = Append(yielded, z)
    BY DEF Yield
  <2>2. z.index = Head(pending) /\ z.case = name /\ z.shown = list_test_case(get_metadata(program, name))
    OBVIOUS
  <2> HIDE DEF z
  <2> QED
    BY <2>1, <2>2 DEF program
<1>4. /\ fs = {} \/ match_test_case(fs, path, name) # {}
      /\ used' = used \cup match_test_case(fs, path, name)
  BY <1>2 DEF Yield, program
<1>5. /\ DOMAIN programs \subseteq Nat /\ \A n \in DOMAIN programs : DOMAIN CasesOf(programs[n]) \subseteq Nat
      /\ phase = "scanning" /\ IsSeq(yielded)
  BY <1>1, TurnFacts DEF Scanning
<1>6. /\ fs \subseteq Filters /\ check_disjoint_filters(fs)
      /\ \A n \in DOMAIN programs : ProgramOK(programs, fs, past, first # NoCases, n)
      /\ UsedOK(programs, yielded, fs, used)
      /\ \A k \in DOMAIN yielded : ShownOK(programs, yielded[k])
      /\ TurnsOK(programs, yielded, fs, past, first)
  BY DEF TurnsInv
<1> HIDE DEF past, gone, fs, name
<1>7. match_test_case(fs, path, name) = {f \in fs : Selects(f, path, name)}
  <2>1. MatchedAsSelected(fs, path, name)
    BY <1>6, FiltersMatch
  <2> QED
    BY <2>1 DEF MatchedAsSelected
<1>8. ToRun(programs, fs, c, gone + 1)
  BY <1>2, <1>4, <1>7 DEF ToRun, Selected
<1>9. PICK t : Turns(t, programs, yielded, fs, past, gone)
  BY <1>6 DEF TurnsOK, gone
<1>10. \E u : Turns(u, programs, yielded', fs, past, gone + 1)
  <2>1. \E u : Turns(u, programs, Append(yielded, y), fs, past, gone + 1)
    BY <1>2, <1>3, <1>5, <1>8, <1>9, TurnsYield
  <2> QED
    BY <1>3, <2>1
<1>11. TurnsOK(programs, yielded', fs, past, first')
  BY <1>2, <1>10 DEF TurnsOK
<1>12. /\ DOMAIN yielded' = 1..(Len(yielded) + 1) /\ DOMAIN yielded = 1..Len(yielded) /\ Len(yielded) \in Nat
       /\ \A k \in 1..Len(yielded) : yielded'[k] = yielded[k]
       /\ yielded'[Len(yielded) + 1] = y
  BY <1>3, <1>5, AppendFacts, SeqFacts
<1> DEFINE N == Len(yielded) + 1
<1>13. /\ N \in DOMAIN yielded' /\ yielded'[N] = y
       /\ \A k \in DOMAIN yielded : k \in DOMAIN yielded' /\ yielded'[k] = yielded[k]
       /\ \A k \in DOMAIN yielded' : k = N \/ k \in DOMAIN yielded
  BY <1>12
<1> HIDE DEF N
<1>14. UsedOK(programs, yielded', fs, used')
  <2> DEFINE By(f, ys) == \E k \in DOMAIN ys : Selects(f, programs[ys[k].index].path, ys[k].case)
  <2>1. ASSUME NEW f \in fs
        PROVE  By(f, yielded') <=> By(f, yielded) \/ Selects(f, path, name)
    <3>1. Selects(f, programs[yielded'[N].index].path, yielded'[N].case) <=> Selects(f, path, name)
      BY <1>2, <1>3, <1>13
    <3>2. ASSUME NEW k \in DOMAIN yielded
          PROVE  Selects(f, programs[yielded'[k].index].path, yielded'[k].case)
                   <=> Selects(f, programs[yielded[k].index].path, yielded[k].case)
      BY <1>13
    <3> QED
      BY <1>13, <3>1, <3>2
  <2>2. used = {f \in fs : By(f, yielded)}
    BY <1>6 DEF UsedOK
  <2> HIDE DEF By
  <2>3. used' = {f \in fs : By(f, yielded')}
    BY <1>4, <1>7, <2>1, <2>2
  <2> QED
    BY <2>3 DEF By, UsedOK
<1>15. \A k \in DOMAIN yielded' : ShownOK(programs, yielded'[k])
  <2> SUFFICES ASSUME NEW k \in DOMAIN yielded' PROVE ShownOK(programs, yielded'[k])
    OBVIOUS
  <2>1. ShownOK(programs, y)
    BY <1>3 DEF ShownOK
  <2> QED
    BY <1>6, <1>13, <2>1
<1>16. (first # NoCases) = TRUE /\ (first' # NoCases) = TRUE
  BY <1>1, <1>2
<1>17. \A n \in DOMAIN programs : ProgramOK(programs, fs, past, TRUE, n)
  BY <1>6, <1>16
<1>18. \A n \in DOMAIN programs' : ProgramOK(programs', filters', Past', first' # NoCases, n)
  BY <1>1, <1>2, <1>16, <1>17 DEF fs
<1> QED
  BY <1>1, <1>2, <1>5, <1>6, <1>11, <1>14, <1>15, <1>18 DEF TurnsInv, fs

TurnsAll == UndoneInv /\ (phase \in {"scanning", "done"} => TurnsInv)

(* The steps of the parser.                                                  *)
Parse ==
  CallSyntax \/ CallTestSuite \/ CallInclude \/ CallTestProgram \/ ScriptFails \/ EndOfFile

LEMMA ThrowStays == ASSUME phase = "parsing", NEW ks, Throw(ks) PROVE phase' \notin {"scanning", "done"}
BY DEF Throw

LEMMA ParseStays == ASSUME Parse PROVE phase' \notin {"scanning", "done"}
<1>1. \A arg : phase = "parsing" /\ CallFails(arg) => phase' \notin {"scanning", "done"}
  BY ThrowStays DEF CallFails
<1>2. CASE CallSyntax
  BY <1>1, <1>2 DEF CallSyntax, Calling
<1>3. CASE CallTestSuite
  BY <1>1, <1>3 DEF CallTestSuite, Calling
<1>4. CASE CallInclude
  BY <1>1, <1>4 DEF CallInclude, Calling
<1>5. CASE CallTestProgram
  BY <1>1, <1>5 DEF CallTestProgram, Calling
<1>6. CASE ScriptFails
  BY <1>6, ThrowStays DEF ScriptFails
<1>7. CASE EndOfFile
  BY <1>7, ThrowStays DEF EndOfFile
<1> QED
  BY <1>2, <1>3, <1>4, <1>5, <1>6, <1>7 DEF Parse

LEMMA TurnsParse == ASSUME LoadInv, TurnsAll, Parse PROVE TurnsAll'
BY ParseStays, UndoneCallSyntax, UndoneCallTestSuite, UndoneCallInclude, UndoneCallTestProgram,
   UndoneScriptFails, UndoneEndOfFile DEF TurnsAll, Parse

LEMMA TurnsDone == ASSUME LoadInv, TurnsInv, Done PROVE TurnsInv'
<1>1. /\ pending = <<>> /\ programs' = programs /\ pending' = pending /\ first' = first
      /\ filters' = filters /\ used' = used /\ yielded' = yielded
  BY DEF Done, scanning
<1>2. Past' = Past
  BY <1>1 DEF Past
<1> QED
  BY <1>1, <1>2 DEF TurnsInv

LEMMA TurnsScanning ==
  ASSUME LoadInv, TurnsAll,
         Scan \/ SkipProgram \/ ListProgram \/ DropProgram \/ SkipCase \/ Yield \/ Done
  PROVE  TurnsAll'
<1>1. CASE Scan
  <2>1. phase' = "scanning"
    BY <1>1 DEF Scan
  <2> QED
    BY <1>1, <2>1, TurnsScan DEF TurnsAll, UndoneInv
<1>2. CASE Done
  <2>1. phase = "scanning" /\ phase' = "done"
    BY <1>2 DEF Done, Scanning
  <2> QED
    BY <1>2, <2>1, TurnsDone DEF TurnsAll, UndoneInv
<1>3. CASE SkipProgram \/ ListProgram \/ DropProgram \/ SkipCase \/ Yield
  <2>1. phase = "scanning" /\ phase' = "scanning"
    BY <1>3 DEF SkipProgram, ListProgram, DropProgram, SkipCase, Yield, Scanning
  <2> QED
    BY <1>3, <2>1, TurnsSkipProgram, TurnsListProgram, TurnsDropProgram, TurnsSkipCase, TurnsYieldStep
       DEF TurnsAll, UndoneInv
<1> QED
  BY <1>1, <1>2, <1>3

LEMMA TurnsStutter == ASSUME TurnsAll, UNCHANGED vars PROVE TurnsAll'
<1>1. /\ phase' = phase /\ stack' = stack /\ programs' = programs /\ pending' = pending
      /\ first' = first /\ filters' = filters /\ used' = used /\ yielded' = yielded
  BY DEF vars, parsing, scanning
<1>2. Past' = Past
  BY <1>1 DEF Past
<1>3. TurnsInv => TurnsInv'
  BY <1>1, <1>2 DEF TurnsInv
<1> QED
  BY <1>1, <1>3 DEF TurnsAll, UndoneInv

LEMMA TurnsAlways == Spec => [](LoadInv /\ TurnsAll)
<1>1. Init => TurnsAll
  <2>1. Init => phase = "parsing"
    BY DEF Init
  <2> QED
    BY <2>1, UndoneStarts DEF TurnsAll
<1>2. LoadInv /\ TurnsAll /\ [Next]_vars => TurnsAll'
  BY TurnsParse, TurnsScanning, TurnsStutter DEF Next, Parse
<1> QED
  BY <1>1, <1>2, LoadAlways, PTL DEF Spec

LEMMA YieldsToRun ==
  ASSUME NEW x
  PROVE  x \in ToYield <=> \E n, m : x = <<n, m>> /\ ToRun(programs, filters, n, m)
BY DEF ToYield, ToRun

(* What was yielded when the scanner is through.                             *)
LEMMA AllYielded ==
  ASSUME LoadInv, TurnsInv, phase = "done"
  PROVE  YieldedExactly
<1>1. /\ ScanOK /\ LoadedOK(programs, log, failed) /\ pending = <<>>
  BY DEF LoadInv, Loaded, TurnsInv
<1>2. first = NoCases
  BY <1>1 DEF ScanOK
<1> DEFINE L == Len(programs)
           ps == programs
           ys == yielded
           fs == filters
<1>3. L \in Nat /\ DOMAIN ps = 1..L /\ Past = L
  <2>1. IsSeq(ps)
    BY <1>1 DEF LoadedOK, Ended
  <2> QED
    BY <1>1, <2>1, SeqFacts, EmptyIsSeq DEF Past
<1> DEFINE N == Len(ys)
<1>4. N \in Nat /\ DOMAIN ys = 1..N
  BY <1>1, SeqFacts DEF ScanOK
<1>5. /\ fs \subseteq Filters /\ check_disjoint_filters(fs)
      /\ \A n \in DOMAIN ps : ProgramOK(ps, fs, L, FALSE, n)
      /\ UsedOK(ps, ys, fs, used)
      /\ \A k \in DOMAIN ys : ShownOK(ps, ys[k])
      /\ TurnsOK(ps, ys, fs, L, NoCases)
  <2>1. (first # NoCases) = FALSE
    BY <1>2
  <2> QED
    BY <1>2, <1>3, <2>1 DEF TurnsInv
<1>6. PICK t : Turns(t, ps, ys, fs, L, 0)
  BY <1>5 DEF TurnsOK, Gone
<1>7. \A n \in DOMAIN ps : DOMAIN CasesOf(ps[n]) \subseteq Nat
  BY <1>5, ProgramsNumbered, CasesNumbered
<1>8. \A n, m : ToRun(ps, fs, n, m) => n \in Nat /\ m \in Nat /\ Reached(L, 0, n, m)
  BY <1>3, <1>7 DEF ToRun, Reached
<1>9. \A x : x \in ToYield <=> \E n, m : x = <<n, m>> /\ ToRun(ps, fs, n, m)
  BY YieldsToRun
<1>10. /\ \A k \in 1..N : /\ ToRun(ps, fs, ys[k].index, t[k])
                          /\ CasesOf(ps[ys[k].index])[t[k]] = ys[k].case
       /\ \A j, k \in 1..N : j < k => Before(ys[j].index, t[j], ys[k].index, t[k])
       /\ \A n, m : ToRun(ps, fs, n, m) => \E k \in 1..N : ys[k].index = n /\ t[k] = m
  <2>1. \A k \in DOMAIN ys : TurnOf(t, ps, fs, L, 0, k, ys[k])
    BY <1>6 DEF Turns
  <2>2. \A j, k \in DOMAIN ys : j < k => Before(ys[j].index, t[j], ys[k].index, t[k])
    BY <1>6 DEF Turns
  <2>3. \A n, m : ToRun(ps, fs, n, m) /\ Reached(L, 0, n, m) =>
          \E k \in DOMAIN ys : ys[k].index = n /\ t[k] = m
    BY <1>6 DEF Turns
  <2> HIDE DEF L, N, ps, ys, fs
  <2>4. \A n, m : ToRun(ps, fs, n, m) => \E k \in 1..N : ys[k].index = n /\ t[k] = m
    BY <1>4, <1>8, <2>3
  <2>5. \A k \in 1..N : ToRun(ps, fs, ys[k].index, t[k]) /\ CasesOf(ps[ys[k].index])[t[k]] = ys[k].case
    BY <1>4, <2>1 DEF TurnOf
  <2> QED
    BY <1>4, <2>2, <2>4, <2>5
<1> DEFINE h == [k \in 1..N |-> <<ys[k].index, t[k]>>]
<1>11. \A k \in 1..N : h[k] = <<ys[k].index, t[k]>>
  OBVIOUS
<1> HIDE DEF L, N, h, ps, ys, fs
<1>12. \A k \in 1..N : h[k] \in ToYield /\ ys[k].index \in Nat /\ t[k] \in Nat
  BY <1>8, <1>9, <1>10, <1>11
<1>13. \A x \in ToYield : \E k \in 1..N : h[k] = x
  <2> SUFFICES ASSUME NEW x \in ToYield PROVE \E k \in 1..N : h[k] = x
    OBVIOUS
  <2>1. PICK n, m : x = <<n, m>> /\ ToRun(ps, fs, n, m)
    BY <1>9
  <2>2. PICK k \in 1..N : ys[k].index = n /\ t[k] = m
    BY <1>10, <2>1
  <2> QED
    BY <1>11, <2>1, <2>2
<1>14. \A j, k \in 1..N : h[j] = h[k] => j = k
  <2> SUFFICES ASSUME NEW j \in 1..N, NEW k \in 1..N, j < k, h[j] = h[k] PROVE FALSE
    BY <1>4
  <2>1. ys[j].index = ys[k].index /\ t[j] = t[k]
    BY <1>11
  <2>2. Before(ys[j].index, t[j], ys[k].index, t[k])
    BY <1>10
  <2> QED
    BY <1>12, <2>1, <2>2 DEF Before
<1>15. Cardinality(ToYield) = N
  <2>1. \A k \in 1..N : h[k] \in ToYield
    BY <1>12
  <2> QED
    BY <1>4, <1>13, <1>14, <2>1, Counted
<1>16. ASSUME NEW k \in 1..N PROVE Turn(h[k]) = k
  <2> DEFINE S == {u \in ToYield : u[1] < h[k][1] \/ (u[1] = h[k][1] /\ u[2] <= h[k][2])}
  <2>1. \A j \in 1..N : h[j] \in S <=> Before(ys[j].index, t[j], ys[k].index, t[k]) \/ h[j] = h[k]
    <3> SUFFICES ASSUME NEW j \in 1..N
                 PROVE  h[j] \in S <=> Before(ys[j].index, t[j], ys[k].index, t[k]) \/ h[j] = h[k]
      OBVIOUS
    <3>1. /\ h[j][1] = ys[j].index /\ h[j][2] = t[j] /\ h[k][1] = ys[k].index /\ h[k][2] = t[k]
          /\ h[j] = h[k] <=> ys[j].index = ys[k].index /\ t[j] = t[k]
          /\ h[j] \in ToYield
      BY <1>11, <1>12
    <3> QED
      BY <1>12, <3>1 DEF Before
  <2>2. \A j \in 1..N : h[j] \in S <=> j <= k
    <3> SUFFICES ASSUME NEW j \in 1..N PROVE h[j] \in S <=> j <= k
      OBVIOUS
    <3>1. CASE j < k
      BY <1>10, <2>1, <3>1
    <3>2. CASE j = k
      BY <2>1, <3>2
    <3>3. CASE k < j
      <4>1. Before(ys[k].index, t[k], ys[j].index, t[j])
        BY <1>10, <3>3
      <4>2. ~Before(ys[j].index, t[j], ys[k].index, t[k])
        BY <1>12, <4>1 DEF Before
      <4>3. h[j] # h[k]
        BY <1>14, <3>3
      <4> QED
        BY <1>4, <2>1, <3>3, <4>2, <4>3
    <3> QED
      BY <1>4, <3>1, <3>2, <3>3
  <2>3. \A x \in S : \E j \in 1..N : h[j] = x
    BY <1>13
  <2>4. Turn(h[k]) = Cardinality(S)
    BY DEF Turn
  <2> HIDE DEF S
  <2>5. \A j \in 1..k : j \in 1..N /\ j <= k
    BY <1>4
  <2>6. \A j \in 1..k : h[j] \in S
    BY <2>2, <2>5
  <2>7. \A x \in S : \E j \in 1..k : h[j] = x
    <3> SUFFICES ASSUME NEW x \in S PROVE \E j \in 1..k : h[j] = x
      OBVIOUS
    <3>1. PICK j \in 1..N : h[j] = x
      BY <2>3
    <3>2. j \in 1..k
      BY <1>4, <2>2, <3>1
    <3> QED
      BY <3>1, <3>2
  <2>8. k \in Nat /\ \A i, j \in 1..k : h[i] = h[j] => i = j
    BY <1>4, <1>14, <2>5
  <2>9. Cardinality(S) = k
    BY <2>6, <2>7, <2>8, Counted
  <2> QED
    BY <2>4, <2>9
<1>17. ASSUME NEW x \in ToYield
       PROVE  ys[Turn(x)].index = x[1] /\ ys[Turn(x)].case = CasesOf(ps[x[1]])[x[2]]
  <2>1. PICK k \in 1..N : h[k] = x
    BY <1>13
  <2>2. Turn(x) = k /\ x[1] = ys[k].index /\ x[2] = t[k]
    BY <1>11, <1>16, <2>1
  <2> QED
    BY <1>10, <2>2
<1>18. ASSUME NEW n \in DOMAIN ps
       PROVE  ps[n].listed <=>
                fs = {} \/ \E f \in fs : f.program = ps[n].path \/ Selects(f, ps[n].path, "")
  <2>1. MatchedAsSelected(fs, ps[n].path, "")
    BY <1>5, FiltersMatch
  <2>2. ProgramOK(ps, fs, L, FALSE, n) /\ n <= L
    <3>1. n \in 1..L
      BY <1>3
    <3>2. ProgramOK(ps, fs, L, FALSE, n)
      BY <1>5
    <3>3. L \in Nat
      BY <1>3
    <3>4. n <= L
      BY <3>1, <3>3
    <3> QED
      BY <3>2, <3>4
  <2>3. ps[n].listed = match_test_program(fs, ps[n].path)
    <3>1. match_test_program(fs, ps[n].path) \in BOOLEAN
      BY DEF match_test_program
    <3> QED
      BY <2>2, <3>1 DEF ProgramOK, Undone
  <2> QED
    BY <2>1, <2>3 DEF MatchedAsSelected
<1>19. \A k \in DOMAIN ys :
         combine(get_defaults, ys[k].shown) = to_properties(get_metadata(ps[ys[k].index], ys[k].case))
  BY <1>5, ShownIsEnough DEF ShownOK
<1>20. unused = {f \in fs : \A k \in DOMAIN ys : ~Selects(f, ps[ys[k].index].path, ys[k].case)}
  BY <1>5 DEF UsedOK, unused, fs
<1> QED
  BY <1>15, <1>17, <1>18, <1>19, <1>20 DEF YieldedExactly, N, ps, ys, fs

THEOREM YieldsExactly == Spec => []YieldedExactly
<1>1. LoadInv /\ TurnsAll => YieldedExactly
  <2>1. CASE phase = "done"
    BY <2>1, AllYielded DEF TurnsAll
  <2>2. CASE phase # "done"
    BY <2>2 DEF YieldedExactly
  <2> QED
    BY <2>1, <2>2
<1> QED
  BY <1>1, TurnsAlways, PTL
=============================================================================
