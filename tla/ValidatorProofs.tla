-------------------------- MODULE ValidatorProofs --------------------------
(***************************************************************************)
(* What holds for every graph of schema objects and every instance: the    *)
(* rollback of failed alternatives, the types of the variables, and where  *)
(* in the instance the running calls are.                                  *)
(***************************************************************************)
EXTENDS Validator, DataProofs, FiniteSetTheorems

(***************************************************************************)
(* The rollback.  A case of a combination remembers the size of the patch  *)
(* only; the proofs show that this is enough, because no call inside a     *)
(* case cuts the patch below the size at which the case began.             *)
(***************************************************************************)
HasMarks(f) == {"via", "mark", "was"} \subseteq DOMAIN f

\* The calls on a stack began with the prefixes of the patch they remember, the
\* inner ones with longer ones.  The outermost call is the user's.
Nested(calls, ops) ==
  /\ Sequence(calls)
  /\ \A k \in 1..Len(calls) :
       /\ HasMarks(calls[k])
       /\ calls[k].mark \in 0..Len(ops) /\ calls[k].was = SubSeq(ops, 1, calls[k].mark)
  /\ \A j, k \in 1..Len(calls) : j <= k => calls[j].mark <= calls[k].mark
  /\ calls # <<>> => calls[1].via = "plain"

IInv ==
  /\ Sequence(patch)
  /\ Nested(stack, patch)
  /\ pc = "validating" => stack # <<>>
-----------------------------------------------------------------------------
(***************************************************************************)
(* What the steps do to the stack and to the patch.                        *)
(***************************************************************************)

\* A frame that is replaced by one of the same call.
LEMMA ReplaceFrame ==
  ASSUME NEW calls, NEW ops, Nested(calls, ops), NEW k, NEW f,
         k \in 1..Len(calls) => /\ HasMarks(f) /\ f.via = calls[k].via
                                /\ f.mark = calls[k].mark /\ f.was = calls[k].was
  PROVE  Nested([calls EXCEPT ![k] = f], ops) /\ ([calls EXCEPT ![k] = f] = <<>> => calls = <<>>)
<1> DEFINE S == Range(calls) \cup {f}
           t == [calls EXCEPT ![k] = f]
<1>1. calls \in Seq(S) /\ f \in S
  BY DEF Nested, Sequence
<1> HIDE DEF S
<1>2. t \in Seq(S) /\ Len(t) = Len(calls) /\ Len(calls) \in Nat
      /\ \A i \in 1..Len(calls) : t[i] = IF i = k THEN f ELSE calls[i]
  <2>1. Len(calls) \in Nat /\ DOMAIN calls = 1..Len(calls)
    BY <1>1
  <2>2. CASE k \in 1..Len(calls)
    BY <1>1, <2>1, <2>2, ExceptSeq DEF t
  <2>3. CASE k \notin 1..Len(calls)
    <3>1. t = calls
      BY <1>1, <2>1, <2>3 DEF t
    <3> QED
      BY <1>1, <2>1, <2>3, <3>1
  <2> QED
    BY <2>2, <2>3
<1> HIDE DEF t
<1>3. Sequence(t) /\ (t = <<>> => calls = <<>>)
  BY <1>1, <1>2, IsSequence
<1>4. \A i \in 1..Len(calls) : /\ HasMarks(t[i]) /\ t[i].via = calls[i].via
                               /\ t[i].mark = calls[i].mark /\ t[i].was = calls[i].was
  BY <1>2 DEF Nested
<1>5. Nested(t, ops)
  BY <1>1, <1>2, <1>3, <1>4 DEF Nested
<1> QED
  BY <1>3, <1>5 DEF t

\* A field of a frame that is assigned, other than those of Nested.
LEMMA EditFrame ==
  ASSUME NEW calls, NEW ops, Nested(calls, ops), NEW k, NEW n, NEW x,
         n \notin {"via", "mark", "was"}
  PROVE  /\ Nested([calls EXCEPT ![k][n] = x], ops)
         /\ [calls EXCEPT ![k][n] = x] = <<>> => calls = <<>>
<1> DEFINE f == [calls[k] EXCEPT ![n] = x]
<1>1. ASSUME k \in 1..Len(calls)
      PROVE  /\ HasMarks(f) /\ f.via = calls[k].via
             /\ f.mark = calls[k].mark /\ f.was = calls[k].was
  <2>1. HasMarks(calls[k])
    BY <1>1 DEF Nested
  <2> QED
    BY <2>1 DEF HasMarks
<1> HIDE DEF f
<1>2. Nested([calls EXCEPT ![k] = f], ops) /\ ([calls EXCEPT ![k] = f] = <<>> => calls = <<>>)
  BY <1>1, ReplaceFrame
<1> QED
  BY <1>2 DEF f

\* A call begins.
LEMMA PushFrame ==
  ASSUME NEW calls, NEW ops, Nested(calls, ops), Sequence(ops), calls # <<>>,
         NEW f, HasMarks(f), f.mark = Len(ops), f.was = ops
  PROVE  Nested(Append(calls, f), ops) /\ Append(calls, f) # <<>>
<1> DEFINE t == Append(calls, f)
<1>1. /\ Sequence(t) /\ Len(t) = Len(calls) + 1 /\ Len(calls) \in Nat
      /\ \A i \in 1..Len(calls) : t[i] = calls[i]
      /\ t[Len(calls) + 1] = f
  BY Longer DEF Nested
<1> HIDE DEF t
<1>2. Len(ops) \in Nat /\ SubSeq(ops, 1, Len(ops)) = ops
  BY DEF Sequence
<1>3. Len(calls) > 0
  BY DEF Nested, Sequence
<1>4. Nested(t, ops) /\ t # <<>>
  BY <1>1, <1>2, <1>3, SMTT(20) DEF Nested
<1> QED
  BY <1>4 DEF t

\* A call returns.
LEMMA PopFrame ==
  ASSUME NEW calls, NEW ops, Nested(calls, ops), calls # <<>>
  PROVE  /\ Nested(Front(calls), ops) /\ Len(Front(calls)) = Len(calls) - 1
         /\ Len(calls) \in Nat \ {0}
         /\ \A i \in 1..(Len(calls) - 1) : Front(calls)[i] = calls[i]
<1> DEFINE n == Len(calls) - 1
           t == SubSeq(calls, 1, n)
<1>1. Len(calls) \in Nat \ {0} /\ Sequence(calls) /\ n \in 0..Len(calls)
  BY DEF Nested, Sequence
<1>2. /\ Sequence(t) /\ Len(t) = Len(calls) - 1
      /\ \A i \in 1..(Len(calls) - 1) : t[i] = calls[i]
  BY <1>1, Shorter
<1> HIDE DEF t
<1>3. t # <<>> => 1 \in 1..Len(t)
  BY <1>1, <1>2 DEF Sequence
<1>4. calls # <<>> /\ \A i \in 1..Len(t) : i \in 1..Len(calls) /\ t[i] = calls[i]
  BY <1>1, <1>2
<1>5. Nested(t, ops)
  BY <1>1, <1>2, <1>3, <1>4 DEF Nested
<1> QED
  BY <1>1, <1>2, <1>5 DEF Front, t

\* A default value is added.
LEMMA GrowPatch ==
  ASSUME NEW calls, NEW ops, Nested(calls, ops), Sequence(ops), NEW x
  PROVE  Nested(calls, Append(ops, x)) /\ Sequence(Append(ops, x))
<1>1. Sequence(Append(ops, x)) /\ Len(Append(ops, x)) = Len(ops) + 1 /\ Len(ops) \in Nat
  BY Longer
<1>2. \A n \in 0..Len(ops) : SubSeq(Append(ops, x), 1, n) = SubSeq(ops, 1, n)
  BY CutLonger
<1> QED
  BY <1>1, <1>2 DEF Nested

\* The default values since the start of a call are dropped.
LEMMA CutPatch ==
  ASSUME NEW calls, NEW ops, Nested(calls, ops), Sequence(ops), calls # <<>>
  PROVE  LET n == calls[Len(calls)].mark
         IN Nested(calls, SubSeq(ops, 1, n)) /\ Sequence(SubSeq(ops, 1, n))
            /\ SubSeq(ops, 1, n) = calls[Len(calls)].was
<1> DEFINE n == calls[Len(calls)].mark
<1>1. Len(calls) \in 1..Len(calls)
  BY PopFrame
<1>2. n \in 0..Len(ops) /\ calls[Len(calls)].was = SubSeq(ops, 1, n)
  BY <1>1 DEF Nested
<1>3. Sequence(SubSeq(ops, 1, n)) /\ Len(SubSeq(ops, 1, n)) = n /\ Len(ops) \in Nat
  BY <1>2, Shorter
<1>4. \A k \in 1..Len(calls) : calls[k].mark \in 0..n
  BY <1>1, <1>2 DEF Nested
<1>5. \A k \in 1..Len(calls) :
        SubSeq(SubSeq(ops, 1, n), 1, calls[k].mark) = SubSeq(ops, 1, calls[k].mark)
  BY <1>2, <1>4, CutTwice
<1> HIDE DEF n
<1>6. Nested(calls, SubSeq(ops, 1, n))
  BY <1>2, <1>3, <1>4, <1>5 DEF Nested
<1> QED
  BY <1>2, <1>3, <1>6 DEF n
-----------------------------------------------------------------------------
(***************************************************************************)
(* The steps.                                                              *)
(***************************************************************************)

\* A task that only assigns fields of frames, todo or errs.
LEMMA ProceedKeeps ==
  ASSUME IInv, pc = "validating"
  PROVE  Nested(Proceed, patch) /\ Proceed # <<>>
<1>1. Nested(stack, patch) /\ stack # <<>>
  BY DEF IInv
<1> DEFINE x == Tail(stack[Len(stack)].todo)
<1>2. Proceed = [stack EXCEPT ![Len(stack)]["todo"] = x]
  BY DEF Proceed
<1> HIDE DEF x
<1> QED
  BY <1>1, <1>2, EditFrame

\* The caller goes on, with some of its fields assigned.
LEMMA ResumeKeeps ==
  ASSUME IInv, pc = "validating", Top.via # "plain", NEW f, NEW ops, Nested(stack, ops),
         HasMarks(f), f.via = Caller.via, f.mark = Caller.mark, f.was = Caller.was,
         Resume(f)
  PROVE  Nested(stack', ops) /\ stack' # <<>>
<1>1. /\ stack # <<>>
      /\ stack' = [Suspended EXCEPT ![Len(stack) - 1] = f]
  BY DEF IInv, Resume
<1>2. /\ Nested(Suspended, ops) /\ Len(Suspended) = Len(stack) - 1 /\ Len(stack) \in Nat \ {0}
      /\ \A i \in 1..(Len(stack) - 1) : Suspended[i] = stack[i]
  BY <1>1, PopFrame DEF Suspended
<1>3. Len(stack) # 1
  BY <1>1 DEF IInv, Nested, Top, Last
<1>4. Len(stack) - 1 \in 1..Len(Suspended) /\ Suspended # <<>> /\ Suspended[Len(stack) - 1] = Caller
  BY <1>2, <1>3 DEF Caller
<1> DEFINE t == Suspended
           k == Len(stack) - 1
<1>5. Nested(t, ops) /\ t # <<>> /\ HasMarks(f) /\ f.via = t[k].via
      /\ f.mark = t[k].mark /\ f.was = t[k].was
  BY <1>2, <1>4
<1> HIDE DEF t, k
<1>6. Nested([t EXCEPT ![k] = f], ops) /\ [t EXCEPT ![k] = f] # <<>>
  BY <1>5, ReplaceFrame
<1> QED
  BY <1>1, <1>6 DEF t, k

\* The caller is a frame of the stack.
LEMMA CallerMarks ==
  ASSUME IInv, pc = "validating", Top.via # "plain" PROVE HasMarks(Caller)
<1> DEFINE n == Len(stack)
<1>1. stack # <<>> /\ n \in Nat \ {0}
  BY PopFrame DEF IInv
<1>2. n # 1
  BY <1>1 DEF IInv, Nested, Top, Last
<1> HIDE DEF n
<1>3. n - 1 \in 1..n
  BY <1>1, <1>2
<1> USE DEF n
<1> QED
  BY <1>3 DEF IInv, Nested, Caller

\* Tasks are put before the others of the caller.
LEMMA PrependKeeps ==
  ASSUME IInv, pc = "validating", Top.via # "plain", NEW tasks, Prepend(tasks), UNCHANGED patch
  PROVE  IInv'
<1> DEFINE f == [Caller EXCEPT !.todo = tasks \o @]
<1>1. HasMarks(f) /\ f.via = Caller.via /\ f.mark = Caller.mark /\ f.was = Caller.was
  BY CallerMarks DEF HasMarks
<1>2. Resume(f)
  BY DEF Prepend
<1> HIDE DEF f
<1> QED
  BY <1>1, <1>2, ResumeKeeps DEF IInv

\* The step that cuts the patch.
LEMMA CaseKeeps ==
  ASSUME IInv, ReturnCase
  PROVE  IInv' /\ (Failed => patch' = Top.was)
<1> DEFINE count == IF Failed THEN Caller.count ELSE Caller.count + 1
           f == [Caller EXCEPT !.count = count, !.summary = @ \o Top.errs]
           g == CASE f.role = "allOf" /\ Failed ->
                       [f EXCEPT !.todo = <<Errors(<<Head(Top.errs)>> \o Top.errs)>>]
                  [] f.role = "anyOf" /\ count = 1 -> [f EXCEPT !.todo = <<>>]
                  [] f.role = "oneOf" /\ count > 1 -> [f EXCEPT !.todo = Reject(TRUE, Top.ptr)]
                  [] OTHER -> f
<1>1. /\ pc = "validating" /\ Top.via # "plain" /\ stack # <<>>
      /\ patch' = IF Failed THEN RolledBack ELSE patch
      /\ Resume(g)
  BY DEF ReturnCase, Returns, IInv
<1>2. HasMarks(Caller)
  BY <1>1, CallerMarks
<1> HIDE DEF count
<1>3. HasMarks(f) /\ f.via = Caller.via /\ f.mark = Caller.mark /\ f.was = Caller.was
  BY <1>2 DEF HasMarks
<1> HIDE DEF f
<1>4. \A x : LET h == [f EXCEPT !.todo = x]
             IN HasMarks(h) /\ h.via = f.via /\ h.mark = f.mark /\ h.was = f.was
  BY <1>3 DEF HasMarks
<1>5. HasMarks(g) /\ g.via = Caller.via /\ g.mark = Caller.mark /\ g.was = Caller.was
  <2>1. g = f \/ \E x : g = [f EXCEPT !.todo = x]
    OBVIOUS
  <2> HIDE DEF g
  <2> QED
    BY <1>3, <1>4, <2>1
<1> HIDE DEF g
<1>6. /\ Nested(stack, patch') /\ Sequence(patch')
      /\ Failed => patch' = Top.was
  <2>1. CASE Failed
    <3>1. Nested(stack, RolledBack) /\ Sequence(RolledBack) /\ RolledBack = Top.was
      BY <1>1, CutPatch DEF IInv, RolledBack, Top, Last
    <3> QED
      BY <1>1, <2>1, <3>1
  <2>2. CASE ~Failed
    BY <1>1, <2>2 DEF IInv
  <2> QED
    BY <2>1, <2>2
<1>7. Nested(stack', patch') /\ stack' # <<>>
  BY <1>1, <1>5, <1>6, ResumeKeeps
<1> QED
  BY <1>6, <1>7 DEF IInv

\* The invariant is inductive.
LEMMA Inductive == IInv /\ [Next]_vars => IInv'
<1> SUFFICES ASSUME IInv, [Next]_vars PROVE IInv'
  OBVIOUS
<1>1. CASE Validate
  <2> DEFINE f == [via |-> "plain", role |-> "root", subs |-> Entry, ptr |-> <<>>,
                   inst |-> instance, todo |-> Agenda("root", Entry, <<>>, instance),
                   errs |-> <<>>, count |-> 0, summary |-> <<>>, mark |-> 0, was |-> <<>>]
  <2> DEFINE s == <<f>>
  <2>1. patch' = <<>> /\ stack' = s
    BY <1>1 DEF Validate
  <2>2. HasMarks(f) /\ f.via = "plain" /\ f.mark = 0 /\ f.was = <<>>
    BY DEF HasMarks
  <2> HIDE DEF f
  <2>3. Sequence(s) /\ Sequence(patch') /\ Len(s) = 1 /\ s[1] = f /\ s # <<>>
    BY <2>1, Short
  <2>4. Len(patch') = 0 /\ SubSeq(patch', 1, 0) = <<>>
    BY <2>1, SubSeqEmpty
  <2> HIDE DEF s
  <2>5. \A k \in 1..Len(s) : k = 1
    BY <2>3
  <2>6. HasMarks(s[1]) /\ s[1].mark = 0 /\ s[1].via = "plain" /\ s[1].was = <<>>
    BY <2>2, <2>3
  <2>7. s[1].mark \in 0..Len(patch') /\ s[1].was = SubSeq(patch', 1, s[1].mark)
        /\ s[1].mark <= s[1].mark
    BY <2>4, <2>6
  <2>8. Nested(s, patch')
    BY <2>3, <2>5, <2>6, <2>7 DEF Nested
  <2> QED
    BY <2>1, <2>3, <2>8 DEF IInv
<1>2. CASE ReportInside
  <2> DEFINE x == Keep(stack[Handler], Reported)
  <2>1. pc = "validating" /\ stack' = [Proceed EXCEPT ![Handler]["errs"] = x] /\ UNCHANGED <<patch, pc>>
    BY <1>2 DEF ReportInside, Reports, Steps
  <2> HIDE DEF x
  <2>2. Nested(stack', patch) /\ stack' # <<>>
    BY <2>1, ProceedKeeps, EditFrame
  <2> QED
    BY <2>1, <2>2 DEF IInv
<1>3. CASE ReportToUser \/ Satisfied
  <2>1. pc = "validating" /\ stack' = Proceed /\ UNCHANGED <<patch, pc>>
    BY <1>3 DEF ReportToUser, Satisfied, Reports, Steps
  <2> QED
    BY <2>1, ProceedKeeps DEF IInv
<1>4. CASE Throw \/ Raise
  <2>1. stack' = <<>> /\ patch' = <<>> /\ pc' # "validating"
    BY <1>4 DEF Throw, Raise
  <2>2. Sequence(<<>>) /\ Len(<<>>) = 0
    BY Short
  <2> QED
    BY <2>1, <2>2 DEF IInv, Nested
<1>5. CASE AddDefault
  <2> DEFINE x == [path |-> Task.path, value |-> Task.value]
  <2>1. pc = "validating" /\ stack' = Proceed /\ patch' = Append(patch, x) /\ pc' = pc
    BY <1>5 DEF AddDefault, Steps
  <2> HIDE DEF x
  <2>2. Nested(stack', patch) /\ stack' # <<>>
    BY <2>1, ProceedKeeps
  <2>3. Nested(stack', patch') /\ Sequence(patch')
    BY <2>1, <2>2, GrowPatch DEF IInv
  <2> QED
    BY <2>2, <2>3 DEF IInv
<1>6. CASE Enter
  <2> DEFINE f == Frame(Task)
  <2>1. pc = "validating" /\ stack' = Append(Proceed, f) /\ UNCHANGED <<patch, pc>>
    BY <1>6 DEF Enter, Steps
  <2>2. HasMarks(f) /\ f.mark = Len(patch) /\ f.was = patch
    BY DEF Frame, HasMarks
  <2> HIDE DEF f
  <2>3. Nested(stack', patch) /\ stack' # <<>>
    BY <2>1, <2>2, ProceedKeeps, PushFrame DEF IInv
  <2> QED
    BY <2>1, <2>3 DEF IInv
<1>7. CASE ReturnPlain
  <2>1. pc = "validating" /\ stack' = Front(stack) /\ UNCHANGED patch
        /\ pc' = IF Len(stack) = 1 THEN "returned" ELSE pc
    BY <1>7 DEF ReturnPlain, Returns, Suspended
  <2>2. Nested(stack', patch) /\ Len(stack') = Len(stack) - 1 /\ Len(stack) \in Nat \ {0}
    BY <2>1, PopFrame DEF IInv
  <2>3. Len(stack) # 1 => stack' # <<>>
    BY <2>2
  <2> QED
    BY <2>1, <2>2, <2>3 DEF IInv
<1>8. CASE ReturnNot
  BY <1>8, PrependKeeps DEF ReturnNot, Returns
<1>9. CASE ReturnProperty
  BY <1>9, PrependKeeps DEF ReturnProperty, Returns
<1>10. CASE ReturnIf
  BY <1>10, PrependKeeps DEF ReturnIf, Returns
<1>11. CASE ReturnContains
  <2> DEFINE g == IF Failed THEN Caller ELSE [Caller EXCEPT !.todo = <<>>]
  <2>1. pc = "validating" /\ Top.via # "plain" /\ Resume(g) /\ UNCHANGED patch
    BY <1>11 DEF ReturnContains, Returns
  <2>2. HasMarks(g) /\ g.via = Caller.via /\ g.mark = Caller.mark /\ g.was = Caller.was
    BY <2>1, CallerMarks DEF HasMarks
  <2> HIDE DEF g
  <2> QED
    BY <2>1, <2>2, ResumeKeeps DEF IInv
<1>12. CASE ReturnCase
  BY <1>12, CaseKeeps
<1>13. CASE ApplyPatch
  BY <1>13 DEF ApplyPatch, IInv
<1>14. CASE UNCHANGED vars
  BY <1>14 DEF vars, IInv
<1> QED
  BY <1>1, <1>2, <1>3, <1>4, <1>5, <1>6, <1>7, <1>8, <1>9, <1>10, <1>11, <1>12, <1>13, <1>14
  DEF Next, Validating, Stop

\* The invariant holds in every reachable state.
LEMMA Invariant == Spec => []IInv
<1>1. Init => IInv
  <2>1. Sequence(<<>>) /\ Len(<<>>) = 0
    BY Short
  <2> QED
    BY <2>1 DEF Init, IInv, Nested
<1> QED
  BY <1>1, Inductive, PTL DEF Spec

\* What a call found in the patch when it began is there as long as it runs:
\* resize(oldPatchSize) of combinations inside it never cuts that far.
THEOREM EarlierStay == Spec => []EarlierDefaultsStay
<1>1. IInv => EarlierDefaultsStay
  <2> SUFFICES ASSUME IInv, NEW k \in DOMAIN stack PROVE IsPrefix(stack[k].was, patch)
    BY DEF EarlierDefaultsStay
  <2>1. k \in 1..Len(stack)
    BY DEF IInv, Nested, Sequence
  <2>2. stack[k].mark \in 0..Len(patch) /\ stack[k].was = SubSeq(patch, 1, stack[k].mark)
    BY <2>1 DEF IInv, Nested
  <2>3. Len(stack[k].was) = stack[k].mark /\ Len(patch) \in Nat
    BY <2>2, Shorter DEF IInv
  <2>4. SubSeq(stack[k].was, 1, stack[k].mark) = stack[k].was
    BY <2>2, CutTwice DEF IInv
  <2> QED
    BY <2>2, <2>3, <2>4 DEF IsPrefix
<1> QED
  BY <1>1, Invariant, PTL

\* A case that fails takes exactly its own default values out of the patch.
THEOREM FailedLeavesNothing == Spec => FailedCaseLeavesNothing
<1> DEFINE A == Returns("case") /\ Failed /\ stack' # stack => patch' = Top.was
<1>1. IInv /\ [Next]_vars => [A]_vars
  <2> SUFFICES ASSUME IInv, Next, Returns("case"), Failed, stack' # stack PROVE patch' = Top.was
    OBVIOUS
  <2>1. pc = "validating" /\ Top.todo = <<>> /\ Top.via = "case"
    BY DEF Returns
  <2>2. ~(ReportInside \/ ReportToUser \/ Throw \/ Raise \/ Satisfied \/ AddDefault \/ Enter)
    BY <2>1 DEF ReportInside, ReportToUser, Throw, Raise, Satisfied, AddDefault, Enter, Reports, Steps
  <2>3. ~(ReturnPlain \/ ReturnNot \/ ReturnProperty \/ ReturnContains \/ ReturnIf)
    BY <2>1 DEF ReturnPlain, ReturnNot, ReturnProperty, ReturnContains, ReturnIf, Returns
  <2>4. ~(Validate \/ ApplyPatch \/ Stop)
    BY <2>1 DEF Validate, ApplyPatch, Stop, vars
  <2>5. ReturnCase
    BY <2>2, <2>3, <2>4 DEF Next, Validating
  <2> QED
    BY <2>5, CaseKeeps
<1> QED
  BY <1>1, Invariant, PTL DEF Spec, FailedCaseLeavesNothing
-----------------------------------------------------------------------------
(***************************************************************************)
(* Documents.                                                              *)
(***************************************************************************)

\* A document is a tree, and a function.
LEMMA DocumentTree ==
  ASSUME NEW t, IsDocument(t)
  PROVE  /\ IsTree(t, Token, Node) /\ IsMapping(t)
         /\ <<>> \in DOMAIN t /\ IsFiniteSet(DOMAIN t)
         /\ \A p \in DOMAIN t : p \in Seq(Token)
         /\ \A p \in DOMAIN t : p # <<>> => Front(p) \in DOMAIN t
         /\ \A p \in DOMAIN t : p # <<>> => t[Front(p)].type \in {"object", "array"}
  BY DEF IsDocument, IsTree, IsMapping

\* All but the last token of a pointer, after another.
LEMMA FrontOfJoined ==
  ASSUME NEW T, NEW p \in Seq(T), NEW q \in Seq(T)
  PROVE  /\ q # <<>> => Front(q) \in Seq(T) /\ p \o q # <<>> /\ Front(p \o q) = p \o Front(q)
         /\ \A k \in T : Front(Append(p, k)) = p /\ Append(p, k) # <<>>
<1>1. ASSUME q # <<>>
      PROVE  Front(q) \in Seq(T) /\ p \o q # <<>> /\ Front(p \o q) = p \o Front(q)
  <2> DEFINE a == SubSeq(p \o q, 1, Len(p \o q) - 1)
             b == p \o SubSeq(q, 1, Len(q) - 1)
  <2>1. /\ p \o q \in Seq(T) /\ Len(p \o q) = Len(p) + Len(q) /\ Len(q) \in Nat \ {0}
        /\ Len(p) \in Nat
        /\ \A i \in 1..(Len(p) + Len(q)) :
             (p \o q)[i] = IF i <= Len(p) THEN p[i] ELSE q[i - Len(p)]
    BY <1>1
  <2>2. SubSeq(q, 1, Len(q) - 1) \in Seq(T) /\ Len(SubSeq(q, 1, Len(q) - 1)) = Len(q) - 1
        /\ \A i \in 1..(Len(q) - 1) : SubSeq(q, 1, Len(q) - 1)[i] = q[i]
    <3> DEFINE n == Len(q) - 1
    <3>1. Len(q) \in Nat /\ n \in 0..Len(q)
      BY <1>1
    <3> HIDE DEF n
    <3>2. SubSeq(q, 1, n) \in Seq(T) /\ Len(SubSeq(q, 1, n)) = n
          /\ \A i \in 1..n : SubSeq(q, 1, n)[i] = q[i]
      BY <3>1
    <3> QED BY <3>2 DEF n
  <2>3. a \in Seq(T) /\ Len(a) = Len(p) + Len(q) - 1
        /\ \A i \in 1..(Len(p) + Len(q) - 1) : a[i] = (p \o q)[i]
    BY <2>1
  <2> DEFINE r == SubSeq(q, 1, Len(q) - 1)
  <2> HIDE DEF a, r
  <2>4. b \in Seq(T) /\ Len(b) = Len(p) + Len(q) - 1
        /\ \A i \in 1..(Len(p) + Len(q) - 1) : b[i] = IF i <= Len(p) THEN p[i] ELSE r[i - Len(p)]
    BY <2>1, <2>2 DEF r
  <2>5. \A i \in 1..(Len(p) + Len(q) - 1) : a[i] = b[i]
    BY <2>1, <2>2, <2>3, <2>4 DEF r
  <2> HIDE DEF b
  <2>6. a = b
    BY <2>3, <2>4, <2>5, SeqEqual
  <2> QED
    BY <2>1, <2>2, <2>6 DEF Front, a, b, r
<1>2. ASSUME NEW k \in T PROVE Front(Append(p, k)) = p /\ Append(p, k) # <<>>
  BY DEF Front
<1> QED
  BY <1>1, <1>2

\* A copy of a value of a document is a document.
LEMMA SubtreeDocument ==
  ASSUME NEW t, IsDocument(t), NEW p \in DOMAIN t
  PROVE  IsDocument(Subtree(t, p)) /\ Subtree(t, p)[<<>>] = t[p]
<1> DEFINE s == Subtree(t, p)
<1>1. IsTree(t, Token, Node) /\ p \in Seq(Token) /\ <<>> \in Seq(Token) /\ p \o <<>> = p
  BY DocumentTree
<1>2. IsTree(s, Token, Node) /\ <<>> \in DOMAIN s
  BY <1>1, SubtreeType, Zenon
<1>3. /\ \A q : q \in DOMAIN s <=> q \in Seq(Token) /\ p \o q \in DOMAIN t
      /\ \A q \in DOMAIN s : s[q] = t[p \o q]
      /\ IsMapping(s)
  BY <1>1, SubtreeNodes, Zenon
<1> HIDE DEF s
<1>4. s \in [DOMAIN s -> Node] /\ DOMAIN s \subseteq Seq(Token)
  BY <1>2, <1>3 DEF IsTree, IsMapping
<1>5. IsFiniteSet(DOMAIN s)
  <2> DEFINE f == [q \in DOMAIN s |-> p \o q]
  <2>1. ASSUME NEW q \in Seq(Token) PROVE Rest(p \o q, Len(p)) = q
    BY <1>1, PrefixAndRest
  <2>2. ASSUME NEW q \in DOMAIN s, NEW r \in DOMAIN s, f[q] = f[r] PROVE q = r
    <3>1. q \in Seq(Token) /\ r \in Seq(Token) /\ p \o q = p \o r
      BY <1>3, <2>2
    <3> QED BY <2>1, <3>1, Zenon
  <2>3. f \in [DOMAIN s -> DOMAIN t]
    BY <1>3
  <2> HIDE DEF f
  <2>4. f \in Injection(DOMAIN s, DOMAIN t)
    BY <2>2, <2>3 DEF Injection, IsInjective
  <2>5. IsFiniteSet(DOMAIN t)
    BY DocumentTree
  <2> QED BY <2>4, <2>5, FS_Injection
<1>6. ASSUME NEW q \in DOMAIN s, q # <<>>
      PROVE  Front(q) \in DOMAIN s /\ s[Front(q)].type \in {"object", "array"}
  <2>1. q \in Seq(Token) /\ p \o q \in DOMAIN t
    BY <1>3
  <2>2. Front(q) \in Seq(Token) /\ p \o q # <<>> /\ Front(p \o q) = p \o Front(q)
    BY <1>1, <1>6, <2>1, FrontOfJoined
  <2>3. Front(p \o q) \in DOMAIN t /\ t[Front(p \o q)].type \in {"object", "array"}
    BY <2>1, <2>2, DocumentTree
  <2> QED BY <1>3, <2>2, <2>3
<1>7. IsDocument(s)
  BY <1>2, <1>4, <1>5, <1>6 DEF IsDocument
<1>8. s[<<>>] = t[p]
  BY <1>1, <1>2, <1>3
<1> QED
  BY <1>7, <1>8 DEF s

\* Adding a value where its parent can have it gives a document.
LEMMA GraftDocument ==
  ASSUME NEW t, IsDocument(t), NEW op, Operation(op), Appliable(t, op)
  PROVE  IsDocument(Graft(t, op.path, op.value))
<1> DEFINE p == op.path
           s == op.value
           g == Graft(t, p, s)
<1>1. /\ IsTree(t, Token, Node) /\ IsTree(s, Token, Node) /\ p \in Seq(Token)
      /\ <<>> \in DOMAIN s
  BY DocumentTree DEF Operation
<1>2. /\ \A q : q \in DOMAIN g <=> \/ q \in DOMAIN t /\ ~IsPrefix(p, q)
                                  \/ \E r \in DOMAIN s : q = p \o r
      /\ \A q \in DOMAIN t : ~IsPrefix(p, q) => g[q] = t[q]
      /\ \A r \in DOMAIN s : g[p \o r] = s[r]
      /\ IsMapping(g)
  BY <1>1, GraftNodes, Zenon
<1>3. IsTree(g, Token, Node)
  BY <1>1, GraftType, Zenon
<1>4. p # <<>> => Front(p) \in DOMAIN t /\ t[Front(p)].type = "object"
  BY DEF Appliable
<1>5. \A r : r \in DOMAIN s => r \in Seq(Token) /\ (r # <<>> => Front(r) \in DOMAIN s
                                  /\ s[Front(r)].type \in {"object", "array"})
  BY DocumentTree DEF Operation
<1>6. \A q : q \in DOMAIN t => q \in Seq(Token) /\ (q # <<>> => Front(q) \in DOMAIN t
                                  /\ t[Front(q)].type \in {"object", "array"})
  BY DocumentTree
<1>7. \A q \in Seq(Token) : q # <<>> /\ IsPrefix(p, Front(q)) => IsPrefix(p, q)
  <2> SUFFICES ASSUME NEW q \in Seq(Token), q # <<>>, IsPrefix(p, Front(q)) PROVE IsPrefix(p, q)
    OBVIOUS
  <2> DEFINE k == q[Len(q)]
             f == Front(q)
  <2>1. f \in Seq(Token) /\ k \in Token /\ q = f \o <<k>>
    BY DEF Front
  <2> HIDE DEF k, f
  <2>2. IsPrefix(p, f) /\ <<k>> \in Seq(Token)
    BY <2>1 DEF f
  <2>3. IsPrefix(p, f \o <<k>>)
    BY <1>1, <2>1, <2>2, PrefixBelow, Zenon
  <2> QED BY <2>1, <2>3
<1>8. IsFiniteSet(DOMAIN g)
  <2> DEFINE C == {q \in DOMAIN t : ~IsPrefix(p, q)}
             D == {p \o r : r \in DOMAIN s}
             f == [r \in DOMAIN s |-> p \o r]
  <2>1. DOMAIN g = C \cup D
    BY <1>2
  <2>2. IsFiniteSet(DOMAIN t) /\ IsFiniteSet(DOMAIN s)
    BY DocumentTree DEF Operation
  <2>3. IsFiniteSet(C)
    <3>1. C \in SUBSET DOMAIN t
      OBVIOUS
    <3> HIDE DEF C
    <3> QED BY <2>2, <3>1, FS_Subset
  <2>4. IsFiniteSet(D)
    <3>1. f \in Surjection(DOMAIN s, D)
      BY DEF Surjection
    <3> HIDE DEF f, D
    <3> QED BY <2>2, <3>1, FS_Surjection
  <2> HIDE DEF C, D
  <2> QED BY <2>1, <2>3, <2>4, FS_Union
<1> HIDE DEF p, s, g
<1>9. <<>> \in DOMAIN g
  <2>1. CASE p = <<>>
    BY <1>1, <1>2, <2>1
  <2>2. CASE p # <<>>
    <3>1. <<>> \in DOMAIN t
      BY DocumentTree
    <3>2. ~IsPrefix(p, <<>>)
      BY <1>1, <2>2 DEF IsPrefix
    <3> QED BY <1>2, <3>1, <3>2
  <2> QED BY <2>1, <2>2
<1>10. ASSUME NEW q \in DOMAIN g, q # <<>>
       PROVE  Front(q) \in DOMAIN g /\ g[Front(q)].type \in {"object", "array"}
  <2>1. CASE q \in DOMAIN t /\ ~IsPrefix(p, q)
    <3>1. q \in Seq(Token) /\ Front(q) \in DOMAIN t /\ t[Front(q)].type \in {"object", "array"}
      BY <1>6, <1>10, <2>1
    <3>2. ~IsPrefix(p, Front(q))
      BY <1>7, <1>10, <2>1, <3>1
    <3> QED BY <1>2, <3>1, <3>2
  <2>2. ASSUME NEW r \in DOMAIN s, q = p \o r
        PROVE  Front(q) \in DOMAIN g /\ g[Front(q)].type \in {"object", "array"}
    <3>1. CASE r = <<>>
      <4>1. q = p
        BY <1>1, <2>2, <3>1
      <4>2. Front(p) \in DOMAIN t /\ t[Front(p)].type = "object"
        BY <1>4, <1>10, <4>1
      <4>3. ~IsPrefix(p, Front(p))
        BY <1>1, <1>10, <4>1 DEF IsPrefix, Front
      <4> QED BY <1>2, <4>1, <4>2, <4>3
    <3>2. CASE r # <<>>
      <4>1. r \in Seq(Token) /\ Front(r) \in DOMAIN s /\ s[Front(r)].type \in {"object", "array"}
        BY <1>5, <2>2, <3>2
      <4>2. Front(q) = p \o Front(r)
        BY <1>1, <2>2, <3>2, <4>1, FrontOfJoined
      <4> QED BY <1>2, <4>1, <4>2
    <3> QED BY <3>1, <3>2
  <2> QED BY <1>2, <1>10, <2>1, <2>2
<1>11. g \in [DOMAIN g -> Node] /\ DOMAIN g \subseteq Seq(Token)
  BY <1>2, <1>3 DEF IsTree, IsMapping
<1>12. IsDocument(g)
  BY <1>8, <1>9, <1>10, <1>11 DEF IsDocument
<1> QED
  BY <1>12 DEF g, p, s
-----------------------------------------------------------------------------
(***************************************************************************)
(* The members of a value, and their order.                                *)
(***************************************************************************)

\* The members of a document are tokens, finitely many; only objects and arrays
\* have any.
LEMMA MembersOfDocument ==
  ASSUME NEW t, IsDocument(t)
  PROVE  /\ Members(t, <<>>) \subseteq Token /\ IsFiniteSet(Members(t, <<>>))
         /\ \A k \in Members(t, <<>>) : <<k>> \in DOMAIN t
         /\ Members(t, <<>>) # {} => Kind(t) \in {"object", "array"}
<1> DEFINE S == {q \in DOMAIN t : Len(q) = 1}
           f == [q \in S |-> q[1]]
           M == Members(t, <<>>)
<1>1. IsTree(t, Token, Node) /\ IsFiniteSet(DOMAIN t) /\ \A q \in DOMAIN t : q \in Seq(Token)
  BY DocumentTree
<1>2. M = {q[1] : q \in S}
  <2>1. \A q \in DOMAIN t : IsPrefix(<<>>, q)
    BY <1>1, SubSeqEmpty DEF IsPrefix
  <2>2. Len(<<>>) = 0
    OBVIOUS
  <2> QED BY <2>1, <2>2 DEF Members
<1>3. ASSUME NEW q \in S PROVE q[1] \in Token /\ <<q[1]>> = q
  BY <1>1
<1>4. M \subseteq Token /\ \A k \in M : <<k>> \in DOMAIN t
  BY <1>2, <1>3
<1>5. IsFiniteSet(M)
  <2>1. S \in SUBSET DOMAIN t
    OBVIOUS
  <2>2. f \in Surjection(S, M)
    BY <1>2 DEF Surjection
  <2> HIDE DEF S, f, M
  <2>3. IsFiniteSet(S)
    BY <1>1, <2>1, FS_Subset
  <2> QED BY <2>2, <2>3, FS_Surjection
<1>6. ASSUME NEW k \in M PROVE Kind(t) \in {"object", "array"}
  <2>1. <<k>> \in DOMAIN t /\ <<k>> # <<>> /\ Front(<<k>>) = <<>>
    BY <1>4 DEF Front
  <2> QED BY <2>1, DocumentTree DEF Kind
<1> QED
  BY <1>4, <1>5, <1>6

\* Sorting a finite set of tokens gives a sequence of its members.
LEMMA SortedMembers ==
  ASSUME NEW S \in SUBSET Token, IsFiniteSet(S)
  PROVE  Sequence(Sorted(S)) /\ Range(Sorted(S)) = S
<1> DEFINE n == Cardinality(S)
           before(k) == {j \in S : Rank[j] < Rank[k]}
           at == [k \in S |-> Cardinality(before(k)) + 1]
<1>1. Rank \in [Token -> Nat] /\ \A j, k \in Token : Rank[j] = Rank[k] => j = k
  BY CorpusAssumption
<1>2. n \in Nat
  BY FS_CardinalityType
<1>3. ASSUME NEW k \in S PROVE /\ IsFiniteSet(before(k)) /\ Cardinality(before(k)) \in Nat
                               /\ Cardinality(before(k)) < n
  <2> DEFINE B == before(k)
  <2>1. B \in SUBSET S /\ k \in S /\ k \notin B
    BY <1>1
  <2> HIDE DEF B
  <2>2. IsFiniteSet(B) /\ Cardinality(B) <= n /\ (n = Cardinality(B) => S = B)
    BY <2>1, FS_Subset
  <2>3. Cardinality(B) \in Nat /\ Cardinality(B) # n
    BY <2>1, <2>2, FS_CardinalityType
  <2> QED BY <1>2, <2>2, <2>3 DEF B
<1>4. ASSUME NEW j \in S, NEW k \in S, Rank[j] < Rank[k]
      PROVE  Cardinality(before(j)) < Cardinality(before(k))
  <2> DEFINE B == before(j)
             C == before(k)
  <2>1. B \in SUBSET C /\ j \in C /\ j \notin B
    BY <1>1, <1>4
  <2>2. IsFiniteSet(C) /\ Cardinality(B) \in Nat /\ Cardinality(C) \in Nat
    BY <1>3
  <2> HIDE DEF B, C
  <2>3. Cardinality(B) <= Cardinality(C) /\ (Cardinality(C) = Cardinality(B) => C = B)
    BY <2>1, <2>2, FS_Subset
  <2>4. Cardinality(B) < Cardinality(C)
    BY <2>1, <2>2, <2>3
  <2> QED BY <2>4 DEF B, C
<1>5. ASSUME NEW j \in S, NEW k \in S, at[j] = at[k] PROVE j = k
  <2>1. Cardinality(before(j)) = Cardinality(before(k))
    <3> HIDE DEF before
    <3> QED BY <1>3, <1>5
  <2>2. ~(Rank[j] < Rank[k]) /\ ~(Rank[k] < Rank[j])
    <3> HIDE DEF before
    <3> QED BY <1>3, <1>4, <2>1
  <2> QED BY <1>1, <2>2
<1>6. at \in [S -> 1..n]
  <2> HIDE DEF before
  <2> QED BY <1>2, <1>3
<1>7. at \in Surjection(S, 1..n)
  <2> DEFINE I == 1..n
  <2> HIDE DEF at
  <2>1. IsFiniteSet(I) /\ Cardinality(I) = n
    BY <1>2, FS_Interval
  <2>2. at \in Injection(S, I)
    BY <1>5, <1>6 DEF Injection, IsInjective
  <2> HIDE DEF I
  <2>3. at \in Surjection(S, I)
    BY <2>1, <2>2, FS_Injection
  <2> QED BY <2>3 DEF I
<1>8. ASSUME NEW i \in 1..n PROVE \E k \in S : Cardinality(before(k)) = i - 1
  <2>1. PICK k \in S : at[k] = i
    BY <1>7 DEF Surjection
  <2> HIDE DEF before
  <2> QED BY <1>3, <2>1
<1> DEFINE s == Sorted(S)
<1> DEFINE nth(i) == CHOOSE k \in S : Cardinality(before(k)) = i - 1
<1>9. s = [i \in 1..n |-> nth(i)]
  BY DEF Sorted
<1>10. ASSUME NEW i \in 1..n PROVE s[i] \in S /\ Cardinality(before(s[i])) = i - 1
  <2> HIDE DEF before, s
  <2>1. nth(i) \in S /\ Cardinality(before(nth(i))) = i - 1
    BY <1>8
  <2> HIDE DEF nth
  <2>2. s[i] = nth(i)
    BY <1>9
  <2> QED BY <2>1, <2>2
<1> HIDE DEF s, before, nth
<1>11. Sequence(s) /\ Len(s) = n /\ DOMAIN s = 1..n
  <2>1. DOMAIN s = 1..n /\ s = [i \in 1..n |-> s[i]]
    BY <1>9
  <2> QED BY <1>2, <2>1, Listed
<1>12. ASSUME NEW k \in S PROVE \E i \in 1..n : s[i] = k
  <2> DEFINE i == Cardinality(before(k)) + 1
  <2>1. i \in 1..n
    BY <1>2, <1>3
  <2>2. s[i] \in S /\ Cardinality(before(s[i])) + 1 = i
    BY <1>10, <2>1
  <2>3. at[s[i]] = at[k]
    BY <2>2
  <2> HIDE DEF at, i
  <2> QED BY <1>5, <2>1, <2>2, <2>3
<1>13. Range(s) = S
  BY <1>10, <1>11, <1>12 DEF Range
<1> QED
  BY <1>11, <1>13 DEF s

\* The keys of a document, in order.
LEMMA KeysOfDocument ==
  ASSUME NEW t, IsDocument(t)
  PROVE  Sequence(Keys(t)) /\ Range(Keys(t)) = Members(t, <<>>)
  BY MembersOfDocument, SortedMembers DEF Keys

\* A member of a document is a document.
LEMMA MemberDocument ==
  ASSUME NEW t, IsDocument(t), NEW k \in Members(t, <<>>)
  PROVE  IsDocument(At(t, k)) /\ k \in Token
  BY MembersOfDocument, SubtreeDocument DEF At

\* A part of a part of a document.
LEMMA DocumentPart ==
  ASSUME NEW t, IsTree(t, Token, Node), NEW p \in Seq(Token), NEW q \in Seq(Token)
  PROVE  Subtree(Subtree(t, p), q) = Subtree(t, p \o q)
  BY SubtreeOfSubtree, SMT

\* The text of a key is a document.
LEMMA TextDocument == ASSUME NEW k \in Token PROVE IsDocument(TextValue(k)) /\ Kind(TextValue(k)) = "string"
<1> DEFINE t == TextValue(k)
           n == [type |-> "string", text |-> k, number |-> 0]
<1>1. t \in [{<<>>} -> {n}] /\ DOMAIN t = {<<>>} /\ t[<<>>] = n
  BY DEF TextValue
<1>2. n \in Node
  BY CorpusAssumption DEF Node
<1>3. IsFiniteSet({<<>>})
  BY FS_Singleton
<1>4. Kind(t) = "string"
  BY <1>1 DEF Kind
<1> HIDE DEF t, n
<1>5. <<>> \in Seq(Token)
  OBVIOUS
<1>6. t \in [DOMAIN t -> Node]
  BY <1>1, <1>2
<1>7. IsDocument(t)
  BY <1>1, <1>3, <1>5, <1>6 DEF IsDocument
<1> QED
  BY <1>4, <1>7 DEF t
-----------------------------------------------------------------------------
(***************************************************************************)
(* What the calls and their tasks are, for a validator c and an instance   *)
(* t.  Where c may ask for a default value, a call is given a value of t   *)
(* with its path, or the text of a key.                                    *)
(***************************************************************************)
Quiet(c) == CHOOSE D \in SUBSET DOMAIN c.graph : Silent(c, D)

Somewhere(subs, ptr, inst, c, t) ==
  WellPlaced(c) => \/ ptr \in DOMAIN t /\ inst = Subtree(t, ptr)
                   \/ Kind(inst) = "string"
                   \/ Range(subs) \subseteq Quiet(c)

CallOK(x, c, t) ==
  /\ IsCall(x, DOMAIN c.graph)
  /\ x.role \in {"object", "array"} => Kind(x.inst) = x.role
  /\ Somewhere(x.subs, x.ptr, x.inst, c, t)

\* A call for a condition is made by a schema, for the value it was called for.
Within(x, f) == f.role = "schema" /\ x.ptr = f.ptr /\ x.inst = f.inst

\* A task of the call f.
TaskOK(x, f, c, t) ==
  /\ IsTask(x, DOMAIN c.graph)
  /\ x.do = "add" => (WellPlaced(c) => AddsMissing(x.path, t))
  /\ x.do = "call" => CallOK(x, c, t) /\ (x.via = "if" => Within(x, f))
TasksOK(s, f, c, t) == Sequence(s) /\ \A x \in Range(s) : TaskOK(x, f, c, t)

\* No task, and one.
LEMMA FewTasks ==
  ASSUME NEW f, NEW c, NEW t
  PROVE  TasksOK(<<>>, f, c, t) /\ \A x : TaskOK(x, f, c, t) => TasksOK(<<x>>, f, c, t)
<1>1. Range(<<>>) = {} /\ \A x : Range(<<x>>) = {x}
  BY DEF Range
<1> QED
  BY <1>1, Short DEF TasksOK

\* First these tasks, then those.
LEMMA JoinTasks ==
  ASSUME NEW f, NEW c, NEW t, NEW a, NEW b, TasksOK(a, f, c, t), TasksOK(b, f, c, t)
  PROVE  TasksOK(a \o b, f, c, t)
<1>1. Sequence(a \o b) /\ Range(a \o b) = Range(a) \cup Range(b)
  BY Joined DEF TasksOK
<1> QED
  BY <1>1 DEF TasksOK

\* The rest of an agenda.
LEMMA TailTasks ==
  ASSUME NEW f, NEW c, NEW t, NEW s, TasksOK(s, f, c, t), s # <<>>
  PROVE  TaskOK(Head(s), f, c, t) /\ TasksOK(Tail(s), f, c, t)
<1> DEFINE S == Range(s)
<1>1. s \in Seq(S)
  BY DEF TasksOK, Sequence
<1>2. \A x \in S : TaskOK(x, f, c, t)
  BY DEF TasksOK
<1> HIDE DEF S
<1>3. Head(s) \in S /\ Tail(s) \in Seq(S)
  BY <1>1
<1>4. Sequence(Tail(s)) /\ \A x \in Range(Tail(s)) : x \in S
  <2>1. \A i \in DOMAIN Tail(s) : Tail(s)[i] \in S
    BY <1>3, ElementOfSeq
  <2> QED BY <1>3, <2>1, IsSequence DEF Range
<1> QED
  BY <1>2, <1>3, <1>4 DEF TasksOK

\* One task for each number up to n.
LEMMA ListTasks ==
  ASSUME NEW f, NEW c, NEW t, NEW n \in Nat, NEW s, DOMAIN s = 1..n, s = [i \in 1..n |-> s[i]],
         \A i \in 1..n : TaskOK(s[i], f, c, t)
  PROVE  TasksOK(s, f, c, t)
<1>1. Sequence(s)
  BY Listed
<1> QED
  BY <1>1 DEF TasksOK, Range

\* Some tasks for each number up to n.
LEMMA FlattenTasks ==
  ASSUME NEW f, NEW c, NEW t, NEW n \in Nat, NEW s, DOMAIN s = 1..n, s = [i \in 1..n |-> s[i]],
         \A i \in 1..n : TasksOK(s[i], f, c, t)
  PROVE  TasksOK(FlattenSeq(s), f, c, t)
<1>1. Sequence(s) /\ Len(s) = n
  BY Listed
<1>2. \A i \in 1..Len(s) : Sequence(s[i])
  BY <1>1 DEF TasksOK
<1>3. /\ Sequence(FlattenSeq(s))
      /\ Range(FlattenSeq(s)) = UNION {Range(s[i]) : i \in 1..Len(s)}
  BY <1>1, <1>2, Flattened
<1>4. \A x \in Range(FlattenSeq(s)) : TaskOK(x, f, c, t)
  BY <1>1, <1>3 DEF TasksOK
<1> QED
  BY <1>3, <1>4 DEF TasksOK

\* An error at a path.
LEMMA RejectOK ==
  ASSUME NEW f, NEW c, NEW t, NEW fails, NEW ptr \in Seq(Token)
  PROVE  TasksOK(Reject(fails, ptr), f, c, t)
<1> DEFINE x == Errors(<<ptr>>)
<1>1. x.do = "errors" /\ x.paths = <<ptr>>
  BY DEF Errors
<1> HIDE DEF x
<1>2. <<ptr>> \in Seq(Seq(Token)) /\ <<ptr>> # <<>>
  OBVIOUS
<1>3. TaskOK(x, f, c, t)
  BY <1>1, <1>2 DEF TaskOK, IsTask
<1> QED
  BY <1>3, FewTasks DEF Reject, x

\* A call.
LEMMA CallTask ==
  ASSUME NEW f, NEW c, NEW t, NEW via \in Vias, NEW role \in Roles,
         NEW subs \in Seq(DOMAIN c.graph), NEW ptr \in Seq(Token), NEW inst, IsDocument(inst),
         role \in {"schema", "object", "array", "not"} => Len(subs) = 1,
         role \in {"object", "array"} => Kind(inst) = role,
         Somewhere(subs, ptr, inst, c, t),
         via = "if" => f.role = "schema" /\ ptr = f.ptr /\ inst = f.inst
  PROVE  TaskOK(Call(via, role, subs, ptr, inst), f, c, t)
<1> DEFINE x == Call(via, role, subs, ptr, inst)
<1>1. /\ x.do = "call" /\ x.via = via /\ x.role = role /\ x.subs = subs /\ x.ptr = ptr
      /\ x.inst = inst
  BY DEF Call
<1> HIDE DEF x
<1>2. IsCall(x, DOMAIN c.graph)
  BY <1>1 DEF IsCall
<1>3. CallOK(x, c, t)
  BY <1>1, <1>2 DEF CallOK
<1>4. TaskOK(x, f, c, t)
  BY <1>1, <1>2, <1>3 DEF TaskOK, IsTask, Within
<1> QED
  BY <1>4 DEF x

\* A call of a schema, if there is one.
LEMMA IfPresentOK ==
  ASSUME NEW f, NEW c, NEW t, NEW via \in Vias, NEW i, i # 0 => i \in DOMAIN c.graph,
         NEW ptr \in Seq(Token), NEW inst, IsDocument(inst),
         i # 0 => Somewhere(<<i>>, ptr, inst, c, t),
         via = "if" => f.role = "schema" /\ ptr = f.ptr /\ inst = f.inst
  PROVE  TasksOK(IfPresent(i, via, ptr, inst), f, c, t)
<1>1. CASE i = 0
  BY <1>1, FewTasks DEF IfPresent
<1>2. CASE i # 0
  <2>1. <<i>> \in Seq(DOMAIN c.graph) /\ Len(<<i>>) = 1 /\ "schema" \in Roles
    BY <1>2, Single DEF Roles
  <2>2. TaskOK(Call(via, "schema", <<i>>, ptr, inst), f, c, t)
    BY <1>2, <2>1, CallTask
  <2> QED BY <1>2, <2>2, FewTasks DEF IfPresent
<1> QED
  BY <1>1, <1>2

\* A call of a schema.
LEMMA PlainOK ==
  ASSUME NEW f, NEW c, NEW t, NEW i \in DOMAIN c.graph, NEW ptr \in Seq(Token),
         NEW inst, IsDocument(inst), Somewhere(<<i>>, ptr, inst, c, t)
  PROVE  TaskOK(Plain(i, ptr, inst), f, c, t)
<1>1. <<i>> \in Seq(DOMAIN c.graph) /\ Len(<<i>>) = 1 /\ "schema" \in Roles /\ "plain" \in Vias
  BY Single DEF Roles, Vias
<1> QED
  BY <1>1, CallTask DEF Plain
-----------------------------------------------------------------------------
(***************************************************************************)
(* Schema objects.                                                         *)
(***************************************************************************)

\* The objects of a validator of the corpus.
LEMMA SchemaObjects ==
  ASSUME validator \in Corpus
  PROVE  /\ IsFiniteSet(DOMAIN graph) /\ 0 \notin DOMAIN graph
         /\ \A i \in DOMAIN graph : IsSchema(graph[i], DOMAIN graph)
         /\ \A u \in DOMAIN validator.entries : validator.entries[u] \in DOMAIN graph
  BY CorpusAssumption DEF graph

\* What a schema object calls is a schema object, or nothing.
LEMMA CalleeObjects ==
  ASSUME NEW G, NEW s, IsSchema(s, G)
  PROVE  Callees(s) \subseteq G \cup {0} /\ Astray(s) \subseteq Callees(s)
<1>1. Range(s.tuple) \subseteq G
  <2>1. \A i \in DOMAIN s.tuple : s.tuple[i] \in G
    BY ElementOfSeq DEF IsSchema
  <2> QED BY <2>1 DEF Range
<1>2. Range(s.properties) \subseteq G
  BY DEF IsSchema, Range
<1>3. \A k \in DOMAIN s.patternProperties : s.patternProperties[k].schema \in G
  <2> SUFFICES ASSUME NEW k \in DOMAIN s.patternProperties
               PROVE  s.patternProperties[k].schema \in G
    OBVIOUS
  <2> DEFINE R == [keys : SUBSET Token, schema : G]
  <2>1. s.patternProperties \in Seq(R)
    BY DEF IsSchema
  <2> HIDE DEF R
  <2>2. s.patternProperties[k] \in R
    BY <2>1, ElementOfSeq
  <2> QED BY <2>2 DEF R
<1>4. \A k \in DOMAIN s.dependencies : s.dependencies[k].schema \in G \cup {0}
  <2> SUFFICES ASSUME NEW k \in DOMAIN s.dependencies
               PROVE  s.dependencies[k].schema \in G \cup {0}
    OBVIOUS
  <2>1. s.dependencies[k] \in [required : Seq(Token), schema : G \cup {0}]
    BY DEF IsSchema
  <2> QED BY <2>1
<1>5. \A k \in DOMAIN s.logic : Range(s.logic[k].subs) \subseteq G
  <2> SUFFICES ASSUME NEW k \in DOMAIN s.logic PROVE Range(s.logic[k].subs) \subseteq G
    OBVIOUS
  <2> DEFINE R == [role : {"not", "allOf", "anyOf", "oneOf"}, subs : Seq(G)]
  <2>1. s.logic \in Seq(R)
    BY DEF IsSchema
  <2> HIDE DEF R
  <2>2. s.logic[k] \in R
    BY <2>1, ElementOfSeq
  <2>3. s.logic[k].subs \in Seq(G)
    BY <2>2 DEF R
  <2>4. \A i \in DOMAIN s.logic[k].subs : s.logic[k].subs[i] \in G
    BY <2>3, ElementOfSeq
  <2> QED BY <2>4 DEF Range
<1>6. {s.target, s.if, s.then, s.else, s.additionalProperties, s.propertyNames,
       s.items, s.additionalItems, s.contains} \subseteq G \cup {0}
  BY DEF IsSchema
<1>7. Callees(s) \subseteq G \cup {0}
  BY <1>1, <1>2, <1>3, <1>4, <1>5, <1>6 DEF Callees
<1>8. Astray(s) \subseteq Callees(s)
  BY DEF Callees, Astray
<1> QED
  BY <1>7, <1>8

\* The quiet schemas of a validator that adds default values to the right place.
LEMMA QuietSchemas ==
  ASSUME NEW c, WellPlaced(c)
  PROVE  Quiet(c) \subseteq DOMAIN c.graph /\ Silent(c, Quiet(c))
<1>1. \E D \in SUBSET DOMAIN c.graph : Silent(c, D)
  BY DEF WellPlaced
<1> QED
  BY <1>1 DEF Quiet

\* A schema for the same value: the caller's place is good for it.
LEMMA SamePlace ==
  ASSUME validator \in Corpus, NEW i \in DOMAIN graph, NEW ptr, NEW inst,
         Somewhere(<<i>>, ptr, inst, validator, instance),
         NEW subs, Range(subs) \subseteq Callees(graph[i]) \ {0}
  PROVE  Somewhere(subs, ptr, inst, validator, instance)
<1> SUFFICES ASSUME WellPlaced(validator), Range(<<i>>) \subseteq Quiet(validator)
             PROVE  Range(subs) \subseteq Quiet(validator)
  BY DEF Somewhere
<1>1. i \in Quiet(validator)
  BY DEF Range
<1> QED
  BY <1>1, QuietSchemas DEF Silent, graph

\* A schema for a member of the value.
LEMMA MemberPlace ==
  ASSUME validator \in Corpus, IsDocument(instance), NEW i \in DOMAIN graph,
         NEW ptr \in Seq(Token), NEW inst, IsDocument(inst),
         Somewhere(<<i>>, ptr, inst, validator, instance),
         NEW k \in Members(inst, <<>>), NEW j \in Callees(graph[i]) \ {0}
  PROVE  Somewhere(<<j>>, Append(ptr, k), At(inst, k), validator, instance)
<1> SUFFICES ASSUME WellPlaced(validator)
             PROVE  \/ /\ Append(ptr, k) \in DOMAIN instance
                       /\ At(inst, k) = Subtree(instance, Append(ptr, k))
                    \/ Range(<<j>>) \subseteq Quiet(validator)
  BY DEF Somewhere
<1>1. CASE ptr \in DOMAIN instance /\ inst = Subtree(instance, ptr)
  <2>1. IsTree(instance, Token, Node)
    BY DocumentTree
  <2>2. k \in Token /\ Append(ptr, k) \in DOMAIN instance
    BY <1>1, <2>1, MembersOfSubtree, Zenon
  <2> DEFINE q == <<k>>
  <2>3. q \in Seq(Token) /\ ptr \o q = Append(ptr, k)
    BY <2>2
  <2> HIDE DEF q
  <2>4. Subtree(Subtree(instance, ptr), q) = Subtree(instance, ptr \o q)
    BY <2>1, <2>3, DocumentPart
  <2> USE DEF q
  <2> QED BY <1>1, <2>2, <2>3, <2>4 DEF At
<1>2. CASE Kind(inst) = "string"
  BY <1>2, MembersOfDocument
<1>3. CASE Range(<<i>>) \subseteq Quiet(validator)
  <2>1. i \in Quiet(validator)
    BY <1>3 DEF Range
  <2>2. j \in Quiet(validator)
    BY <2>1, QuietSchemas DEF Silent, graph
  <2> QED BY <2>2 DEF Range
<1> QED
  BY <1>1, <1>2, <1>3 DEF Somewhere

\* A schema that is given the wrong path.
LEMMA AstrayPlace ==
  ASSUME validator \in Corpus, NEW i \in DOMAIN graph, NEW j \in Astray(graph[i]) \ {0},
         NEW ptr, NEW inst
  PROVE  Somewhere(<<j>>, ptr, inst, validator, instance)
<1> SUFFICES ASSUME WellPlaced(validator) PROVE Range(<<j>>) \subseteq Quiet(validator)
  BY DEF Somewhere
<1>1. j \in Quiet(validator)
  BY QuietSchemas DEF Silent, graph
<1> QED
  BY <1>1 DEF Range

\* The recursive function of default_value().
IsFollow(f, i) ==
  f = [n \in 0..Cardinality(DOMAIN graph) |->
         IF n = 0 THEN i
         ELSE LET s == graph[f[n - 1]]
              IN IF s.kind = "ref" /\ IsNull(s.default) /\ s.target # 0
                 THEN s.target ELSE f[n - 1]]

\* The schemas it asks, one after the other, and the last one.
Onward(j) ==
  IF graph[j].kind = "ref" /\ IsNull(graph[j].default) /\ graph[j].target # 0
  THEN graph[j].target ELSE j
Follows(g, i, N) ==
  /\ N \in Nat /\ g \in [0..N -> DOMAIN graph]
  /\ \A n \in 0..N : g[n] = IF n = 0 THEN i ELSE Onward(g[n - 1])
  /\ Defaulting(i) = graph[g[N]]

\* The recursive function has a value.
LEMMA DefaultingFollows ==
  ASSUME validator \in Corpus, NEW i \in DOMAIN graph
  PROVE  \E g : Follows(g, i, Cardinality(DOMAIN graph))
<1> DEFINE N == Cardinality(DOMAIN graph)
           X == DOMAIN graph
           step == [n \in (0 + 1)..N |-> [j \in X |-> Onward(j)]]
<1>1. N \in Nat
  BY SchemaObjects, FS_CardinalityType
<1>2. \A j \in X : Onward(j) \in X
  <2>1. \A j \in X : graph[j].target \in X \cup {0}
    BY SchemaObjects DEF IsSchema
  <2> QED BY <2>1 DEF Onward
<1>3. step \in [(0 + 1)..N -> [X -> X]]
  BY <1>2
<1>4. \E f : IsFollow(f, i)
  <2> HIDE DEF step, N
  <2>1. PICK f \in [0..N -> X] : Recursive(f, 0, N, i, step)
    <3>1. i \in X /\ 0 \in Nat /\ 0 <= N
      BY <1>1
    <3> HIDE DEF X
    <3> QED BY <1>1, <1>3, <3>1, Recursion
  <2>2. \A n \in 0..N : f[n] = IF n = 0 THEN i ELSE step[n][f[n - 1]]
    BY <2>1 DEF Recursive
  <2>3. ASSUME NEW n \in 0..N PROVE f[n] = IF n = 0 THEN i ELSE Onward(f[n - 1])
    <3>1. CASE n = 0
      BY <2>2, <3>1
    <3>2. CASE n # 0
      <4>1. n \in (0 + 1)..N /\ f[n - 1] \in X
        BY <1>1, <2>1, <3>2
      <4>2. step[n][f[n - 1]] = Onward(f[n - 1])
        BY <4>1 DEF step
      <4> QED BY <2>2, <3>2, <4>2
    <3> QED BY <3>1, <3>2
  <2>4. f = [n \in 0..N |-> IF n = 0 THEN i ELSE Onward(f[n - 1])]
    BY <2>1, <2>3
  <2>5. IsFollow(f, i)
    BY <2>4 DEF IsFollow, Onward, N
  <2> QED BY <2>5
<1> DEFINE g == CHOOSE f : IsFollow(f, i)
<1>5. IsFollow(g, i) /\ Defaulting(i) = graph[g[N]]
  <2>1. IsFollow(g, i)
    BY <1>4
  <2>2. Defaulting(i) = graph[g[N]]
    BY DEF Defaulting, IsFollow
  <2> QED BY <2>1, <2>2
<1> HIDE DEF g, N
<1>6. g = [n \in 0..N |-> IF n = 0 THEN i ELSE Onward(g[n - 1])]
  BY <1>5 DEF IsFollow, Onward, N
<1>7. \A n \in 0..N : g[n] \in X
  <2> DEFINE S == {n \in 0..N : g[n] \in X}
  <2>1. 0 \in S
    BY <1>1, <1>6
  <2>2. ASSUME NEW n \in 0..(N - 1), n \in S PROVE n + 1 \in S
    <3>1. n + 1 \in 0..N /\ n + 1 # 0 /\ (n + 1) - 1 = n
      BY <1>1
    <3>2. g[n + 1] = Onward(g[n]) /\ g[n] \in X
      BY <1>6, <2>2, <3>1
    <3> QED BY <1>2, <3>1, <3>2
  <2> HIDE DEF S
  <2>3. 0..N \subseteq S
    BY <1>1, <2>1, <2>2, UpTo
  <2> QED BY <2>3 DEF S
<1> QED
  BY <1>1, <1>5, <1>6, <1>7 DEF Follows, N

\* default_value() asks a schema that targets lead to, and any set of schemas
\* that targets do not leave has it.
LEMMA DefaultingIn ==
  ASSUME validator \in Corpus, NEW i \in DOMAIN graph
  PROVE  \E d \in DOMAIN graph :
           /\ Defaulting(i) = graph[d]
           /\ \A D \in SUBSET DOMAIN graph :
                i \in D /\ (\A j \in D : graph[j].target \in D \cup {0}) => d \in D
<1> DEFINE N == Cardinality(DOMAIN graph)
<1>1. PICK g : Follows(g, i, N)
  BY DefaultingFollows
<1> HIDE DEF N
<1>2. N \in Nat /\ g[N] \in DOMAIN graph /\ Defaulting(i) = graph[g[N]]
  BY <1>1 DEF Follows
<1>3. ASSUME NEW D \in SUBSET DOMAIN graph, i \in D, \A j \in D : graph[j].target \in D \cup {0}
      PROVE  g[N] \in D
  <2> DEFINE S == {n \in 0..N : g[n] \in D}
  <2>1. 0 \in S
    BY <1>1, <1>3 DEF Follows
  <2>2. ASSUME NEW n \in 0..(N - 1), n \in S PROVE n + 1 \in S
    <3>1. n + 1 \in 0..N /\ n + 1 # 0 /\ (n + 1) - 1 = n
      BY <1>2
    <3>2. g[n + 1] = Onward(g[n]) /\ g[n] \in D
      BY <1>1, <2>2, <3>1 DEF Follows
    <3> QED BY <1>3, <3>1, <3>2 DEF Onward
  <2> HIDE DEF S
  <2>3. 0..N \subseteq S
    BY <1>2, <2>1, <2>2, UpTo
  <2> QED BY <1>2, <2>3 DEF S
<1> QED
  BY <1>2, <1>3
-----------------------------------------------------------------------------
(***************************************************************************)
(* The agendas.  Each part of the agenda of a call f has good tasks.       *)
(***************************************************************************)

\* Schema i is asked about a value.
Asked(i, ptr, inst) ==
  /\ validator \in Corpus /\ IsDocument(instance)
  /\ i \in DOMAIN graph /\ ptr \in Seq(Token) /\ IsDocument(inst)
  /\ Somewhere(<<i>>, ptr, inst, validator, instance)

\* Errors for required properties that are not there.
LEMMA MissingOK ==
  ASSUME NEW f, NEW ptr \in Seq(Token), NEW keys \in Seq(Token), NEW inst
  PROVE  TasksOK(Missing(keys, ptr, inst), f, validator, instance)
<1> DEFINE n == Len(keys)
           r(i) == Reject(keys[i] \notin Members(inst, <<>>), ptr)
           s == [i \in 1..n |-> r(i)]
<1>1. n \in Nat /\ DOMAIN keys = 1..n
  OBVIOUS
<1>2. Missing(keys, ptr, inst) = FlattenSeq(s)
  BY <1>1 DEF Missing
<1>3. \A i \in 1..n : TasksOK(r(i), f, validator, instance)
  BY RejectOK
<1> HIDE DEF r, n
<1>4. DOMAIN s = 1..n /\ s = [i \in 1..n |-> s[i]] /\ \A i \in 1..n : s[i] = r(i)
  OBVIOUS
<1> HIDE DEF s
<1>5. TasksOK(FlattenSeq(s), f, validator, instance)
  BY <1>1, <1>3, <1>4, FlattenTasks
<1> QED
  BY <1>2, <1>5

\* The default value of one property.
LEMMA DefaultTaskOK ==
  ASSUME NEW f, validator \in Corpus, NEW i \in DOMAIN graph, NEW ptr \in Seq(Token), NEW k \in Token,
         WellPlaced(validator) => AddsMissing(Append(ptr, k), instance) \/ i \in Quiet(validator)
  PROVE  TasksOK(DefaultTask(i, ptr, k), f, validator, instance)
<1>1. PICK d \in DOMAIN graph :
        /\ Defaulting(i) = graph[d]
        /\ \A D \in SUBSET DOMAIN graph :
             i \in D /\ (\A j \in D : graph[j].target \in D \cup {0}) => d \in D
  BY DefaultingIn
<1>2. IsDocument(graph[d].default)
  BY SchemaObjects DEF IsSchema
<1>3. ASSUME WellPlaced(validator), i \in Quiet(validator) PROVE IsNull(graph[d].default)
  <2>1. Quiet(validator) \in SUBSET DOMAIN graph /\ Silent(validator, Quiet(validator))
    BY <1>3, QuietSchemas DEF graph
  <2>2. \A j \in Quiet(validator) : graph[j].target \in Quiet(validator) \cup {0}
    BY <2>1 DEF Silent, Callees, graph
  <2>3. d \in Quiet(validator)
    BY <1>1, <1>3, <2>1, <2>2
  <2> QED BY <2>1, <2>3 DEF Silent, graph
<1> DEFINE path == Append(ptr, k)
           x == Add(path, graph[d].default)
<1>4. CASE ~IsNull(graph[d].default)
  <2>1. x.do = "add" /\ x.path = path /\ x.value = graph[d].default
    BY DEF Add
  <2>2. path \in Seq(Token)
    OBVIOUS
  <2>3. WellPlaced(validator) => AddsMissing(path, instance)
    BY <1>3, <1>4
  <2> HIDE DEF x, path
  <2>4. TaskOK(x, f, validator, instance)
    BY <1>2, <2>1, <2>2, <2>3 DEF TaskOK, IsTask, Operation
  <2> QED BY <1>1, <1>4, <2>4, FewTasks DEF DefaultTask, x, path
<1>5. CASE IsNull(graph[d].default)
  BY <1>1, <1>5, RejectOK DEF DefaultTask
<1> QED
  BY <1>4, <1>5

\* A property of an object that is not there is missing from the instance.
LEMMA AbsentPlace ==
  ASSUME NEW i, NEW ptr, NEW inst, Asked(i, ptr, inst), Kind(inst) = "object",
         NEW k \in Token \ Members(inst, <<>>), NEW j \in Callees(graph[i]) \ {0},
         WellPlaced(validator)
  PROVE  AddsMissing(Append(ptr, k), instance) \/ j \in Quiet(validator)
<1>1. CASE ptr \in DOMAIN instance /\ inst = Subtree(instance, ptr)
  <2>1. IsTree(instance, Token, Node) /\ ptr \in Seq(Token)
    BY DocumentTree DEF Asked
  <2>2. Append(ptr, k) \notin DOMAIN instance
    BY <1>1, <2>1, MembersOfSubtree, Zenon
  <2>3. instance[ptr].type = "object"
    BY <1>1, SubtreeDocument DEF Asked, Kind
  <2>4. Front(Append(ptr, k)) = ptr /\ Append(ptr, k) # <<>>
    BY <2>1, FrontOfJoined, ZenonT(30)
  <2> QED BY <1>1, <2>2, <2>3, <2>4 DEF AddsMissing
<1>2. CASE Range(<<i>>) \subseteq Quiet(validator)
  <2>1. i \in Quiet(validator)
    BY <1>2 DEF Range
  <2> QED BY <2>1, QuietSchemas DEF Silent, graph
<1> QED
  BY <1>1, <1>2 DEF Asked, Somewhere

\* What the properties call is called by the schema.
LEMMA PropertyCallees ==
  ASSUME NEW i, validator \in Corpus, i \in DOMAIN graph
  PROVE  /\ \A k \in DOMAIN graph[i].properties :
              k \in Token /\ graph[i].properties[k] \in (Callees(graph[i]) \ {0}) \cap DOMAIN graph
         /\ \A k \in DOMAIN graph[i].patternProperties :
              graph[i].patternProperties[k].schema \in (Callees(graph[i]) \ {0}) \cap DOMAIN graph
         /\ Callees(graph[i]) \subseteq DOMAIN graph \cup {0} /\ 0 \notin DOMAIN graph
<1> DEFINE s == graph[i]
           G == DOMAIN graph
<1>1. IsSchema(s, G) /\ 0 \notin G
  BY SchemaObjects
<1> HIDE DEF s, G
<1>2. Callees(s) \subseteq G \cup {0}
  BY <1>1, CalleeObjects
<1>3. ASSUME NEW k \in DOMAIN s.properties
      PROVE  k \in Token /\ s.properties[k] \in G /\ s.properties[k] \in Callees(s)
  <2>1. k \in Token /\ s.properties[k] \in G
    BY <1>1 DEF IsSchema
  <2>2. s.properties[k] \in Range(s.properties)
    BY DEF Range
  <2> QED BY <2>1, <2>2 DEF Callees
<1>4. ASSUME NEW k \in DOMAIN s.patternProperties
      PROVE  s.patternProperties[k].schema \in G /\ s.patternProperties[k].schema \in Callees(s)
  <2> DEFINE R == [keys : SUBSET Token, schema : G]
  <2>1. s.patternProperties \in Seq(R)
    BY <1>1 DEF IsSchema
  <2> HIDE DEF R
  <2>2. s.patternProperties[k] \in R
    BY <2>1, ElementOfSeq
  <2>3. s.patternProperties[k].schema \in G
    BY <2>2 DEF R
  <2> QED BY <2>3 DEF Callees
<1> QED
  BY <1>1, <1>2, <1>3, <1>4 DEF s, G

\* The default values of the properties that are not there.
LEMMA DefaultTasksOK ==
  ASSUME NEW f, NEW i, NEW ptr, NEW inst, Asked(i, ptr, inst), Kind(inst) = "object"
  PROVE  TasksOK(DefaultTasks(graph[i], ptr, inst), f, validator, instance)
<1> DEFINE s == graph[i]
           A == DOMAIN s.properties \ Members(inst, <<>>)
           absent == Sorted(A)
           n == Len(absent)
           r(m) == DefaultTask(s.properties[absent[m]], ptr, absent[m])
           all == [m \in 1..n |-> r(m)]
<1>1. A \in SUBSET Token /\ IsFiniteSet(A)
  <2>1. DOMAIN s.properties \in SUBSET Token /\ IsFiniteSet(DOMAIN s.properties)
    BY SchemaObjects DEF Asked, IsSchema
  <2>2. A \in SUBSET DOMAIN s.properties
    OBVIOUS
  <2> HIDE DEF A, s
  <2> QED BY <2>1, <2>2, FS_Subset
<1>2. Sequence(absent) /\ Range(absent) = A
  <2> HIDE DEF A
  <2> QED BY <1>1, SortedMembers
<1>3. n \in Nat /\ DOMAIN absent = 1..n /\ \A m \in 1..n : absent[m] \in A
  <2> HIDE DEF A, absent
  <2> QED BY <1>2, Elements
<1>4. DefaultTasks(s, ptr, inst) = FlattenSeq(all)
  BY <1>3 DEF DefaultTasks
<1>5. ASSUME NEW k \in A
      PROVE  TasksOK(DefaultTask(s.properties[k], ptr, k), f, validator, instance)
  <2> DEFINE j == s.properties[k]
  <2>1. k \in Token \ Members(inst, <<>>) /\ j \in Callees(graph[i]) \ {0} /\ j \in DOMAIN graph
    BY <1>5, PropertyCallees DEF Asked
  <2> HIDE DEF j
  <2>2. WellPlaced(validator) => AddsMissing(Append(ptr, k), instance) \/ j \in Quiet(validator)
    BY <2>1, AbsentPlace
  <2>3. TasksOK(DefaultTask(j, ptr, k), f, validator, instance)
    BY <2>1, <2>2, DefaultTaskOK DEF Asked
  <2> QED BY <2>3 DEF j
<1>6. \A m \in 1..n : TasksOK(r(m), f, validator, instance)
  <2> HIDE DEF A, absent, n
  <2> QED BY <1>3, <1>5
<1> HIDE DEF r, n
<1>7. DOMAIN all = 1..n /\ all = [m \in 1..n |-> all[m]] /\ \A m \in 1..n : all[m] = r(m)
  OBVIOUS
<1> HIDE DEF all
<1>8. TasksOK(FlattenSeq(all), f, validator, instance)
  BY <1>3, <1>6, <1>7, FlattenTasks
<1> QED
  BY <1>4, <1>8

\* A place for a schema that the one of an object or an array calls for a member.
LEMMA MemberAsked ==
  ASSUME NEW i, NEW ptr, NEW inst, Asked(i, ptr, inst), NEW k \in Members(inst, <<>>),
         NEW j \in Callees(graph[i]) \ {0}
  PROVE  /\ k \in Token /\ Append(ptr, k) \in Seq(Token) /\ IsDocument(At(inst, k))
         /\ j \in DOMAIN graph /\ Somewhere(<<j>>, Append(ptr, k), At(inst, k), validator, instance)
<1>1. k \in Token /\ IsDocument(At(inst, k)) /\ ptr \in Seq(Token)
  BY MemberDocument DEF Asked
<1>2. j \in DOMAIN graph
  BY PropertyCallees DEF Asked
<1>3. Append(ptr, k) \in Seq(Token)
  BY <1>1
<1>4. Somewhere(<<j>>, Append(ptr, k), At(inst, k), validator, instance)
  BY MemberPlace DEF Asked
<1> QED
  BY <1>1, <1>2, <1>3, <1>4

\* The schemas for a key.
LEMMA MatchingOK ==
  ASSUME NEW i, validator \in Corpus, i \in DOMAIN graph, NEW k
  PROVE  /\ Sequence(Matching(graph[i], k))
         /\ Range(Matching(graph[i], k)) \subseteq Callees(graph[i]) \ {0}
<1> DEFINE s == graph[i]
           C == Callees(s) \ {0}
           own == IF k \in DOMAIN s.properties THEN <<s.properties[k]>> ELSE <<>>
           n == Len(s.patternProperties)
           r(m) == IF k \in s.patternProperties[m].keys
                   THEN <<s.patternProperties[m].schema>> ELSE <<>>
           all == [m \in 1..n |-> r(m)]
<1>1. n \in Nat /\ DOMAIN s.patternProperties = 1..n
  BY SchemaObjects DEF IsSchema
<1>2. Matching(s, k) = own \o FlattenSeq(all)
  BY <1>1 DEF Matching
<1>3. Range(<<>>) = {} /\ \A x : Range(<<x>>) = {x}
  BY DEF Range
<1>4. Sequence(own) /\ Range(own) \subseteq C
  <2>1. CASE k \in DOMAIN s.properties
    <3>1. s.properties[k] \in C
      BY <2>1, PropertyCallees
    <3> QED BY <1>3, <2>1, <3>1, Short
  <2>2. CASE k \notin DOMAIN s.properties
    BY <1>3, <2>2, Short
  <2> QED BY <2>1, <2>2
<1>5. ASSUME NEW m \in 1..n PROVE Sequence(r(m)) /\ Range(r(m)) \subseteq C
  <2>1. s.patternProperties[m].schema \in C
    BY <1>1, PropertyCallees
  <2> HIDE DEF C, s
  <2> QED BY <1>3, <2>1, Short
<1> HIDE DEF r, n, own, C
<1>6. /\ DOMAIN all = 1..n /\ all = [m \in 1..n |-> all[m]]
      /\ \A m \in 1..n : all[m] = r(m)
  OBVIOUS
<1> HIDE DEF all
<1>7. Sequence(all) /\ Len(all) = n
  BY <1>1, <1>6, Listed
<1>8. \A m \in 1..Len(all) : Sequence(all[m]) /\ Range(all[m]) \subseteq C
  BY <1>5, <1>6, <1>7
<1>9. Sequence(FlattenSeq(all)) /\ Range(FlattenSeq(all)) \subseteq C
  <2>1. /\ Sequence(FlattenSeq(all))
        /\ Range(FlattenSeq(all)) = UNION {Range(all[m]) : m \in 1..Len(all)}
    BY <1>7, <1>8, Flattened
  <2> QED BY <1>8, <2>1
<1>10. Sequence(own \o FlattenSeq(all)) /\ Range(own \o FlattenSeq(all)) \subseteq C
  BY <1>4, <1>9, Joined
<1> QED
  BY <1>2, <1>10 DEF C

\* What is done for one property.
LEMMA PropertyTasksOK ==
  ASSUME NEW f, NEW i, NEW ptr, NEW inst, Asked(i, ptr, inst), NEW k \in Members(inst, <<>>)
  PROVE  TasksOK(PropertyTasks(graph[i], ptr, inst, k), f, validator, instance)
<1> DEFINE s == graph[i]
           m == Matching(s, k)
           n == Len(m)
           path == Append(ptr, k)
           value == At(inst, k)
           call(j) == Plain(m[j], path, value)
           calls == [j \in 1..n |-> call(j)]
<1>1. k \in Token /\ ptr \in Seq(Token) /\ validator \in Corpus
  BY MemberDocument DEF Asked
<1>2. /\ s.propertyNames \in Callees(s) /\ s.additionalProperties \in Callees(s)
      /\ Callees(s) \subseteq DOMAIN graph \cup {0}
  <2>1. s.propertyNames \in Callees(s) /\ s.additionalProperties \in Callees(s)
    BY DEF Callees
  <2>2. Callees(s) \subseteq DOMAIN graph \cup {0}
    BY PropertyCallees DEF Asked
  <2> QED BY <2>1, <2>2
<1>3. Sequence(m) /\ n \in Nat /\ DOMAIN m = 1..n /\ \A j \in 1..n : m[j] \in Callees(s) \ {0}
  <2>1. Sequence(m) /\ Range(m) \subseteq Callees(s) \ {0}
    BY MatchingOK DEF Asked
  <2> HIDE DEF m, s
  <2> QED BY <2>1, Elements
<1>4. TasksOK(IfPresent(s.propertyNames, "plain", ptr, TextValue(k)), f, validator, instance)
  <2> DEFINE j == s.propertyNames
             x == TextValue(k)
  <2>1. IsDocument(x) /\ Kind(x) = "string" /\ "plain" \in Vias
    BY <1>1, TextDocument DEF Vias
  <2> HIDE DEF x
  <2>2. Somewhere(<<j>>, ptr, x, validator, instance)
    BY <2>1 DEF Somewhere
  <2>3. j # 0 => j \in DOMAIN graph
    BY <1>2
  <2> HIDE DEF j, s
  <2>4. TasksOK(IfPresent(j, "plain", ptr, x), f, validator, instance)
    BY <1>1, <2>1, <2>2, <2>3, IfPresentOK DEF graph
  <2> QED BY <2>4 DEF j, x
<1>5. TasksOK(calls, f, validator, instance)
  <2> HIDE DEF m, s
  <2>1. ASSUME NEW j \in 1..n PROVE TaskOK(call(j), f, validator, instance)
    <3>1. m[j] \in Callees(s) \ {0}
      BY <1>3
    <3>2. /\ path \in Seq(Token) /\ IsDocument(value)
          /\ m[j] \in DOMAIN graph /\ Somewhere(<<m[j]>>, path, value, validator, instance)
      BY <3>1, MemberAsked DEF s
    <3> HIDE DEF path, value
    <3> QED BY <3>2, PlainOK DEF graph
  <2> HIDE DEF n, call
  <2>2. DOMAIN calls = 1..n /\ calls = [j \in 1..n |-> calls[j]] /\ \A j \in 1..n : calls[j] = call(j)
    OBVIOUS
  <2> HIDE DEF calls
  <2> QED BY <1>3, <2>1, <2>2, ListTasks
<1>6. TasksOK(IfPresent(s.additionalProperties, "property", path, value), f, validator, instance)
  <2> DEFINE j == s.additionalProperties
  <2>1. k \in Token /\ path \in Seq(Token) /\ IsDocument(value) /\ "property" \in Vias
    BY <1>1, MemberDocument DEF Vias, Asked
  <2>2. j # 0 => j \in DOMAIN graph /\ Somewhere(<<j>>, path, value, validator, instance)
    <3> SUFFICES ASSUME j # 0 PROVE j \in DOMAIN graph /\ Somewhere(<<j>>, path, value, validator, instance)
      OBVIOUS
    <3>1. j \in Callees(s) \ {0}
      BY <1>2
    <3> HIDE DEF j
    <3> QED BY <3>1, MemberAsked
  <2> HIDE DEF j, path, value
  <2>3. TasksOK(IfPresent(j, "property", path, value), f, validator, instance)
    BY <2>1, <2>2, IfPresentOK DEF graph
  <2> QED BY <2>3 DEF j
<1>7. TasksOK(<<>>, f, validator, instance)
  BY FewTasks
<1>8. PropertyTasks(s, ptr, inst, k)
        = IfPresent(s.propertyNames, "plain", ptr, TextValue(k)) \o calls
          \o (IF m = <<>> THEN IfPresent(s.additionalProperties, "property", path, value) ELSE <<>>)
  BY <1>3 DEF PropertyTasks
<1> DEFINE a == IfPresent(s.propertyNames, "plain", ptr, TextValue(k))
           b == IfPresent(s.additionalProperties, "property", path, value)
<1> HIDE DEF a, b, calls, m, s
<1>9. TasksOK(a \o calls, f, validator, instance)
  BY <1>4, <1>5, JoinTasks DEF a
<1>10. TasksOK(IF m = <<>> THEN b ELSE <<>>, f, validator, instance)
  BY <1>6, <1>7 DEF b
<1>11. TasksOK(a \o calls \o (IF m = <<>> THEN b ELSE <<>>), f, validator, instance)
  BY <1>9, <1>10, JoinTasks
<1> QED
  BY <1>8, <1>11 DEF a, b, s

\* The dependencies of the properties that are there.
LEMMA DependencyTasksOK ==
  ASSUME NEW f, NEW i, NEW ptr, NEW inst, Asked(i, ptr, inst)
  PROVE  TasksOK(DependencyTasks(graph[i], ptr, inst), f, validator, instance)
<1> DEFINE s == graph[i]
           A == DOMAIN s.dependencies \cap Members(inst, <<>>)
           on == Sorted(A)
           n == Len(on)
           r(k) == Missing(s.dependencies[k].required, Append(ptr, k), inst)
                   \o IfPresent(s.dependencies[k].schema, "plain", Append(ptr, k), inst)
           all == [m \in 1..n |-> r(on[m])]
<1>1. A \in SUBSET Token /\ IsFiniteSet(A)
  <2>1. DOMAIN s.dependencies \in SUBSET Token /\ IsFiniteSet(DOMAIN s.dependencies)
    BY SchemaObjects DEF Asked, IsSchema
  <2>2. A \in SUBSET DOMAIN s.dependencies
    OBVIOUS
  <2> HIDE DEF A, s
  <2> QED BY <2>1, <2>2, FS_Subset
<1>2. Sequence(on) /\ Range(on) = A
  <2> HIDE DEF A
  <2> QED BY <1>1, SortedMembers
<1>3. n \in Nat /\ DOMAIN on = 1..n /\ \A m \in 1..n : on[m] \in A
  <2> HIDE DEF A, on
  <2> QED BY <1>2, Elements
<1>4. DependencyTasks(s, ptr, inst) = FlattenSeq(all)
  BY <1>3 DEF DependencyTasks
<1>5. ASSUME NEW k \in A PROVE TasksOK(r(k), f, validator, instance)
  <2> DEFINE d == s.dependencies[k]
             path == Append(ptr, k)
             j == d.schema
  <2>1. d \in [required : Seq(Token), schema : DOMAIN graph \cup {0}]
    BY SchemaObjects DEF Asked, IsSchema
  <2>2. d.required \in Seq(Token) /\ j \in DOMAIN graph \cup {0} /\ j \in Astray(s)
    <3>1. j \in Astray(s)
      BY DEF Astray
    <3> HIDE DEF d
    <3> QED BY <2>1, <3>1
  <2>3. path \in Seq(Token) /\ validator \in Corpus /\ i \in DOMAIN graph /\ IsDocument(inst)
        /\ "plain" \in Vias
    <3>1. k \in Token
      BY <1>1
    <3> QED BY <3>1 DEF Asked, Vias
  <2> HIDE DEF d, path, s, A
  <2>4. TasksOK(Missing(d.required, path, inst), f, validator, instance)
    BY <2>2, <2>3, MissingOK
  <2>5. j # 0 => Somewhere(<<j>>, path, inst, validator, instance)
    BY <2>2, <2>3, AstrayPlace DEF s
  <2> HIDE DEF j
  <2>6. TasksOK(IfPresent(j, "plain", path, inst), f, validator, instance)
    BY <2>2, <2>3, <2>5, IfPresentOK DEF graph
  <2>7. TasksOK(Missing(d.required, path, inst) \o IfPresent(j, "plain", path, inst),
                f, validator, instance)
    BY <2>4, <2>6, JoinTasks
  <2> QED BY <2>7 DEF d, j, path
<1>6. \A m \in 1..n : TasksOK(r(on[m]), f, validator, instance)
  <2> HIDE DEF A, on, n, r
  <2> QED BY <1>3, <1>5
<1> HIDE DEF r, n, on
<1>7. DOMAIN all = 1..n /\ all = [m \in 1..n |-> all[m]] /\ \A m \in 1..n : all[m] = r(on[m])
  OBVIOUS
<1> HIDE DEF all
<1>8. TasksOK(FlattenSeq(all), f, validator, instance)
  BY <1>3, <1>6, <1>7, FlattenTasks
<1> QED
  BY <1>4, <1>8

\* The agenda of class object.
LEMMA ObjectTasksOK ==
  ASSUME NEW f, NEW i, NEW ptr, NEW inst, Asked(i, ptr, inst), Kind(inst) = "object"
  PROVE  TasksOK(ObjectTasks(graph[i], ptr, inst), f, validator, instance)
<1> DEFINE s == graph[i]
           keys == Keys(inst)
           n == Len(keys)
           r(m) == PropertyTasks(s, ptr, inst, keys[m])
           all == [m \in 1..n |-> r(m)]
<1>1. n \in Nat /\ DOMAIN keys = 1..n /\ \A m \in 1..n : keys[m] \in Members(inst, <<>>)
  <2>1. Sequence(keys) /\ Range(keys) = Members(inst, <<>>)
    BY KeysOfDocument DEF Asked
  <2> HIDE DEF keys
  <2> QED BY <2>1, Elements
<1>2. \A m \in 1..n : TasksOK(r(m), f, validator, instance)
  <2> HIDE DEF keys, n
  <2> QED BY <1>1, PropertyTasksOK
<1>3. ptr \in Seq(Token) /\ s.required \in Seq(Token)
  BY SchemaObjects DEF Asked, IsSchema
<1> DEFINE a == Reject(s.maxProperties # NoLimit /\ Size(inst) > s.maxProperties, ptr)
           b == Reject(s.minProperties # NoLimit /\ Size(inst) < s.minProperties, ptr)
           c == Missing(s.required, ptr, inst)
           e == FlattenSeq(all)
           g == DefaultTasks(s, ptr, inst)
           h == DependencyTasks(s, ptr, inst)
<1>4. ObjectTasks(s, ptr, inst) = a \o b \o c \o e \o g \o h
  BY <1>1 DEF ObjectTasks
<1>5. TasksOK(a, f, validator, instance) /\ TasksOK(b, f, validator, instance)
  BY <1>3, RejectOK
<1>6. TasksOK(c, f, validator, instance)
  BY <1>3, MissingOK
<1>7. TasksOK(e, f, validator, instance)
  <2> HIDE DEF r, n, keys
  <2>1. DOMAIN all = 1..n /\ all = [m \in 1..n |-> all[m]] /\ \A m \in 1..n : all[m] = r(m)
    OBVIOUS
  <2> HIDE DEF all
  <2> QED BY <1>1, <1>2, <2>1, FlattenTasks
<1>8. TasksOK(g, f, validator, instance)
  BY DefaultTasksOK
<1>9. TasksOK(h, f, validator, instance)
  BY DependencyTasksOK
<1> HIDE DEF a, b, c, e, g, h
<1>10. TasksOK(a \o b \o c \o e \o g \o h, f, validator, instance)
  BY <1>5, <1>6, <1>7, <1>8, <1>9, JoinTasks
<1> QED
  BY <1>4, <1>10

\* The tokens at the indices of an array or an object.
LEMMA KeysListed ==
  ASSUME NEW i, NEW ptr, NEW inst, Asked(i, ptr, inst)
  PROVE  /\ Len(Keys(inst)) \in Nat /\ DOMAIN Keys(inst) = 1..Len(Keys(inst))
         /\ \A m \in 1..Len(Keys(inst)) :
              /\ Keys(inst)[m] \in Members(inst, <<>>) /\ Keys(inst)[m] \in Token
              /\ IsDocument(At(inst, Keys(inst)[m]))
<1> DEFINE keys == Keys(inst)
<1>1. Sequence(keys) /\ Range(keys) = Members(inst, <<>>)
  BY KeysOfDocument DEF Asked
<1> HIDE DEF keys
<1>2. Len(keys) \in Nat /\ DOMAIN keys = 1..Len(keys)
      /\ \A m \in 1..Len(keys) : keys[m] \in Members(inst, <<>>)
  BY <1>1, Elements
<1>3. \A k \in Members(inst, <<>>) : k \in Token /\ IsDocument(At(inst, k))
  BY MemberDocument DEF Asked
<1> QED
  BY <1>2, <1>3 DEF keys

\* A call of a schema that is given the wrong path.
LEMMA AstrayTask ==
  ASSUME NEW f, NEW i, validator \in Corpus, i \in DOMAIN graph, NEW j \in Astray(graph[i]) \ {0},
         NEW via \in Vias \ {"if"}, NEW path \in Seq(Token), NEW value, IsDocument(value)
  PROVE  TaskOK(Call(via, "schema", <<j>>, path, value), f, validator, instance)
<1>1. Somewhere(<<j>>, path, value, validator, instance)
  BY AstrayPlace
<1>2. j \in DOMAIN graph
  BY SchemaObjects, CalleeObjects
<1>3. <<j>> \in Seq(DOMAIN graph) /\ Len(<<j>>) = 1 /\ "schema" \in Roles
  BY <1>2, Single DEF Roles
<1> QED
  BY <1>1, <1>3, CallTask DEF graph

\* The elements that are checked.
LEMMA ItemTasksOK ==
  ASSUME NEW f, NEW i, NEW ptr, NEW inst, Asked(i, ptr, inst)
  PROVE  TasksOK(ItemTasks(graph[i], ptr, inst), f, validator, instance)
<1> DEFINE s == graph[i]
           keys == Keys(inst)
           n == Len(keys)
           item(j) ==
             CASE s.items # 0 -> Plain(s.items, Append(ptr, keys[j]), At(inst, keys[j]))
               [] s.items = 0 /\ j <= Len(s.tuple) ->
                    Plain(s.tuple[j], Append(ptr, keys[1]), At(inst, keys[j]))
               [] OTHER -> Plain(s.additionalItems, Append(ptr, keys[1]), At(inst, keys[j]))
           checked == {j \in 1..n : s.items # 0 \/ s.additionalItems # 0 \/ j <= Len(s.tuple)}
           all == [j \in checked |-> item(j)]
<1>1. n \in Nat /\ DOMAIN keys = 1..n
      /\ \A m \in 1..n : /\ keys[m] \in Members(inst, <<>>) /\ keys[m] \in Token
                         /\ IsDocument(At(inst, keys[m]))
  BY KeysListed
<1>2. ItemTasks(s, ptr, inst) = all
  BY <1>1 DEF ItemTasks, HasSchema
<1>3. /\ s.items \in Callees(s) /\ s.additionalItems \in Astray(s) /\ s.tuple \in Seq(DOMAIN graph)
      /\ validator \in Corpus /\ i \in DOMAIN graph /\ ptr \in Seq(Token) /\ 0 \notin DOMAIN graph
  BY SchemaObjects DEF Asked, IsSchema, Callees, Astray
<1>4. \A j \in 1..Len(s.tuple) : s.tuple[j] \in Astray(s) \ {0}
  <2>1. \A j \in 1..Len(s.tuple) : s.tuple[j] \in DOMAIN graph /\ s.tuple[j] \in Range(s.tuple)
    BY <1>3, ElementOfSeq DEF Range
  <2> QED BY <1>3, <2>1 DEF Astray
<1>5. Len(s.tuple) \in Nat
  BY <1>3
<1>6. \E m \in Nat : checked = 1..m
  <2>1. CASE s.items # 0 \/ s.additionalItems # 0
    <3>1. checked = 1..n
      BY <2>1
    <3> QED BY <1>1, <3>1
  <2>2. CASE ~(s.items # 0 \/ s.additionalItems # 0)
    <3> DEFINE l == Len(s.tuple)
               m == IF n <= l THEN n ELSE l
    <3>1. checked = {j \in 1..n : j <= l}
      BY <2>2
    <3> HIDE DEF checked, n, l
    <3>2. m \in Nat /\ checked = 1..m
      BY <1>1, <1>5, <3>1 DEF l
    <3> QED BY <3>2
  <2> QED BY <2>1, <2>2
<1>7. ASSUME NEW j \in checked PROVE TaskOK(item(j), f, validator, instance)
  <2>1. /\ j \in 1..n /\ 1 \in 1..n
        /\ s.items # 0 \/ s.additionalItems # 0 \/ j <= Len(s.tuple)
    <3>1. j \in 1..n /\ (s.items # 0 \/ s.additionalItems # 0 \/ j <= Len(s.tuple))
      BY <1>7
    <3> HIDE DEF n
    <3> QED BY <1>1, <3>1
  <2> DEFINE k == keys[j]
             value == At(inst, k)
             first == Append(ptr, keys[1])
  <2>2. k \in Members(inst, <<>>) /\ IsDocument(value) /\ first \in Seq(Token)
        /\ "plain" \in Vias \ {"if"}
    <3>1. keys[1] \in Token
      BY <1>1, <2>1
    <3>2. k \in Members(inst, <<>>) /\ IsDocument(value)
      BY <1>1, <2>1
    <3> HIDE DEF keys
    <3> QED BY <1>3, <3>1, <3>2 DEF Vias
  <2> HIDE DEF k
  <2>3. CASE s.items # 0
    <3> DEFINE x == s.items
    <3>1. x \in Callees(s) \ {0}
      BY <1>3, <2>3
    <3> HIDE DEF x, s
    <3>2. /\ Append(ptr, k) \in Seq(Token) /\ x \in DOMAIN graph
          /\ Somewhere(<<x>>, Append(ptr, k), value, validator, instance)
      BY <2>2, <3>1, MemberAsked DEF s
    <3> HIDE DEF value
    <3>3. TaskOK(Plain(x, Append(ptr, k), value), f, validator, instance)
      BY <2>2, <3>2, PlainOK DEF graph
    <3> QED BY <2>3, <3>3 DEF k, x, value, s
  <2>4. CASE s.items = 0 /\ j <= Len(s.tuple)
    <3> DEFINE x == s.tuple[j]
    <3>1. x \in Astray(s) \ {0}
      <4>1. j \in 1..Len(s.tuple)
        <5> HIDE DEF n
        <5> QED BY <1>1, <1>5, <2>1, <2>4
      <4> QED BY <1>4, <4>1
    <3> HIDE DEF x, first, value
    <3>2. TaskOK(Call("plain", "schema", <<x>>, first, value), f, validator, instance)
      BY <1>3, <2>2, <3>1, AstrayTask DEF s
    <3> QED BY <2>4, <3>2 DEF k, x, value, first, Plain
  <2>5. CASE s.items = 0 /\ ~(j <= Len(s.tuple))
    <3> DEFINE x == s.additionalItems
    <3>1. x \in Astray(s) \ {0}
      BY <1>3, <2>1, <2>5
    <3> HIDE DEF x, first, value
    <3>2. TaskOK(Call("plain", "schema", <<x>>, first, value), f, validator, instance)
      BY <1>3, <2>2, <3>1, AstrayTask DEF s
    <3> QED BY <2>5, <3>2 DEF k, x, value, first, Plain
  <2> QED BY <2>3, <2>4, <2>5
<1>8. PICK m \in Nat : checked = 1..m
  BY <1>6
<1> HIDE DEF item, checked
<1>9. DOMAIN all = 1..m /\ all = [j \in 1..m |-> all[j]] /\ \A j \in 1..m : all[j] = item(j)
  BY <1>8
<1> HIDE DEF all
<1>10. TasksOK(all, f, validator, instance)
  BY <1>7, <1>8, <1>9, ListTasks
<1> QED
  BY <1>2, <1>10

\* The elements that "contains" tries.
LEMMA ContainsTasksOK ==
  ASSUME NEW f, NEW i, NEW ptr, NEW inst, Asked(i, ptr, inst)
  PROVE  TasksOK(ContainsTasks(graph[i], ptr, inst), f, validator, instance)
<1> DEFINE j == graph[i].contains
           keys == Keys(inst)
           n == Len(keys)
           call(m) == Call("contains", "schema", <<j>>, ptr, At(inst, keys[m]))
           all == [m \in 1..n |-> call(m)]
<1>1. n \in Nat /\ DOMAIN keys = 1..n /\ \A m \in 1..n : IsDocument(At(inst, keys[m]))
  BY KeysListed
<1>2. ptr \in Seq(Token) /\ "contains" \in Vias \ {"if"} /\ validator \in Corpus /\ i \in DOMAIN graph
  BY DEF Asked, Vias
<1>3. CASE j = 0
  BY <1>3, FewTasks DEF ContainsTasks
<1>4. CASE j # 0
  <2>1. j \in Astray(graph[i]) \ {0}
    BY <1>4 DEF Astray
  <2>2. ContainsTasks(graph[i], ptr, inst) = all \o Reject(TRUE, ptr)
    BY <1>1, <1>4 DEF ContainsTasks
  <2> HIDE DEF j
  <2>3. \A m \in 1..n : TaskOK(call(m), f, validator, instance)
    <3> HIDE DEF n, keys
    <3> QED BY <1>1, <1>2, <2>1, AstrayTask
  <2> HIDE DEF n, call
  <2>4. DOMAIN all = 1..n /\ all = [m \in 1..n |-> all[m]] /\ \A m \in 1..n : all[m] = call(m)
    OBVIOUS
  <2> HIDE DEF all
  <2>5. TasksOK(all, f, validator, instance)
    BY <1>1, <2>3, <2>4, ListTasks
  <2>6. TasksOK(Reject(TRUE, ptr), f, validator, instance)
    BY <1>2, RejectOK
  <2> QED BY <2>2, <2>5, <2>6, JoinTasks
<1> QED
  BY <1>3, <1>4

\* Errors for equal elements.
LEMMA DuplicatesOK ==
  ASSUME NEW f, NEW i, NEW ptr, NEW inst, Asked(i, ptr, inst)
  PROVE  TasksOK(Duplicates(inst, ptr), f, validator, instance)
<1> DEFINE keys == Keys(inst)
           n == Len(keys)
           again(m) == \E j \in 1..n : m < j /\ Same(At(inst, keys[m]), At(inst, keys[j]))
           r(m) == Reject(again(m), ptr)
           all == [m \in 1..n |-> r(m)]
<1>1. n \in Nat /\ DOMAIN keys = 1..n
  BY KeysListed
<1>2. Duplicates(inst, ptr) = FlattenSeq(all)
  BY <1>1 DEF Duplicates
<1>3. \A m \in 1..n : TasksOK(r(m), f, validator, instance)
  <2> HIDE DEF again
  <2> QED BY RejectOK DEF Asked
<1> HIDE DEF n, r
<1>4. DOMAIN all = 1..n /\ all = [m \in 1..n |-> all[m]] /\ \A m \in 1..n : all[m] = r(m)
  OBVIOUS
<1> HIDE DEF all
<1>5. TasksOK(FlattenSeq(all), f, validator, instance)
  BY <1>1, <1>3, <1>4, FlattenTasks
<1> QED
  BY <1>2, <1>5

\* The agenda of class array.
LEMMA ArrayTasksOK ==
  ASSUME NEW f, NEW i, NEW ptr, NEW inst, Asked(i, ptr, inst)
  PROVE  TasksOK(ArrayTasks(graph[i], ptr, inst), f, validator, instance)
<1> DEFINE s == graph[i]
           a == Reject(s.maxItems # NoLimit /\ Size(inst) > s.maxItems, ptr)
           b == Reject(s.minItems # NoLimit /\ Size(inst) < s.minItems, ptr)
           c == IF s.uniqueItems THEN Duplicates(inst, ptr) ELSE <<>>
           d == ItemTasks(s, ptr, inst)
           e == ContainsTasks(s, ptr, inst)
<1>1. TasksOK(a, f, validator, instance) /\ TasksOK(b, f, validator, instance)
  BY RejectOK DEF Asked
<1>2. TasksOK(c, f, validator, instance)
  BY DuplicatesOK, FewTasks
<1>3. TasksOK(d, f, validator, instance) /\ TasksOK(e, f, validator, instance)
  BY ItemTasksOK, ContainsTasksOK
<1>4. ArrayTasks(s, ptr, inst) = a \o b \o c \o d \o e
  BY DEF ArrayTasks
<1> HIDE DEF a, b, c, d, e
<1>5. TasksOK(a \o b \o c \o d \o e, f, validator, instance)
  BY <1>1, <1>2, <1>3, JoinTasks
<1> QED
  BY <1>4, <1>5

\* The agendas of class string and class numeric.
LEMMA ScalarTasksOK ==
  ASSUME NEW f, NEW ptr \in Seq(Token), NEW inst, NEW s, NEW T
  PROVE  /\ TasksOK(StringTasks(s, ptr, inst), f, validator, instance)
         /\ TasksOK(NumericTasks(s, T, ptr, inst), f, validator, instance)
<1> DEFINE x == [do |-> "raise"]
<1>1. TaskOK(x, f, validator, instance)
  BY DEF TaskOK, IsTask
<1>2. TasksOK(<<x>>, f, validator, instance) /\ TasksOK(<<>>, f, validator, instance)
  <2> HIDE DEF x
  <2> QED BY <1>1, FewTasks
<1>3. \A fails : TasksOK(Reject(fails, ptr), f, validator, instance)
  BY RejectOK
<1>4. TasksOK(NumericTasks(s, T, ptr, inst), f, validator, instance)
  BY <1>3 DEF NumericTasks
<1> DEFINE y == inst[<<>>].text
           a == IF Kind(inst) = "binary" /\ {s.minLength, s.maxLength} # {NoLimit}
                THEN <<x>> ELSE <<>>
           b == Reject(s.minLength # NoLimit /\ Length[y] < s.minLength, ptr)
           c == Reject(s.maxLength # NoLimit /\ Length[y] > s.maxLength, ptr)
           d == Reject(IF s.content # NoLimit THEN y \notin s.content ELSE Kind(inst) = "binary", ptr)
           e == Reject(Kind(inst) = "string" /\ s.pattern # NoLimit /\ y \notin s.pattern, ptr)
           g == Reject(Kind(inst) = "string" /\ s.format # NoLimit /\ y \notin s.format, ptr)
<1>5. TasksOK(a, f, validator, instance)
  BY <1>2
<1>6. /\ TasksOK(b, f, validator, instance) /\ TasksOK(c, f, validator, instance)
      /\ TasksOK(d, f, validator, instance) /\ TasksOK(e, f, validator, instance)
      /\ TasksOK(g, f, validator, instance)
  BY <1>3
<1>7. StringTasks(s, ptr, inst) = a \o b \o c \o d \o e \o g
  BY DEF StringTasks
<1> HIDE DEF a, b, c, d, e, g
<1>8. TasksOK(a \o b \o c \o d \o e \o g, f, validator, instance)
  BY <1>5, <1>6, JoinTasks
<1> QED
  BY <1>4, <1>7, <1>8

\* The agenda of the validator for the type of the instance.
LEMMA TypeTasksOK ==
  ASSUME NEW f, NEW i, NEW ptr, NEW inst, Asked(i, ptr, inst)
  PROVE  TasksOK(TypeTasks(graph[i], i, ptr, inst), f, validator, instance)
<1> DEFINE s == graph[i]
           K == Kind(inst)
           T == ForType(s, K)
<1>1. /\ ptr \in Seq(Token) /\ IsDocument(inst) /\ i \in DOMAIN graph
      /\ Somewhere(<<i>>, ptr, inst, validator, instance)
  BY DEF Asked
<1>2. K \in {"null", "object", "array", "string", "boolean", "binary", "integer", "unsigned", "float"}
  <2>1. inst[<<>>] \in Node
    BY <1>1 DEF IsDocument
  <2> QED BY <2>1 DEF Node, Kind
<1>3. /\ T \in {"object", "array"} => T = K
      /\ T \in {"null", "object", "array", "string", "boolean", "integer", "number", "none"}
  <2> HIDE DEF K
  <2> QED BY <1>2 DEF ForType
<1>4. \A fails : TasksOK(Reject(fails, ptr), f, validator, instance)
  BY <1>1, RejectOK
<1>5. TasksOK(<<>>, f, validator, instance)
  BY FewTasks
<1>6. /\ TasksOK(StringTasks(s, ptr, inst), f, validator, instance)
      /\ TasksOK(NumericTasks(s, T, ptr, inst), f, validator, instance)
  BY <1>1, ScalarTasksOK
<1>7. TypeTasks(s, i, ptr, inst) =
        CASE T \in {"object", "array"} -> <<Call("plain", T, <<i>>, ptr, inst)>>
          [] T = "string" -> StringTasks(s, ptr, inst)
          [] T \in {"integer", "number"} -> NumericTasks(s, T, ptr, inst)
          [] T \in {"null", "boolean"} -> <<>>
          [] T = "none" -> Reject(TRUE, ptr)
  BY DEF TypeTasks
<1>8. T \in {"object", "array"} => TasksOK(<<Call("plain", T, <<i>>, ptr, inst)>>, f, validator, instance)
  <2> SUFFICES ASSUME T \in {"object", "array"}
               PROVE  TasksOK(<<Call("plain", T, <<i>>, ptr, inst)>>, f, validator, instance)
    OBVIOUS
  <2> HIDE DEF T
  <2>1. T \in Roles /\ "plain" \in Vias /\ Kind(inst) = T
    BY <1>3 DEF Roles, Vias
  <2>2. <<i>> \in Seq(DOMAIN graph) /\ Len(<<i>>) = 1
    BY <1>1, Single
  <2> DEFINE c == Call("plain", T, <<i>>, ptr, inst)
  <2>3. TaskOK(c, f, validator, instance)
    BY <1>1, <2>1, <2>2, CallTask DEF graph
  <2> HIDE DEF c
  <2>4. TasksOK(<<c>>, f, validator, instance)
    BY <2>3, FewTasks
  <2> QED BY <2>4 DEF c
<1> HIDE DEF T, K, s
<1>9. CASE T \in {"object", "array"}
  BY <1>7, <1>8, <1>9 DEF s
<1>10. CASE T = "string"
  BY <1>6, <1>7, <1>10 DEF s
<1>11. CASE T \in {"integer", "number"}
  BY <1>6, <1>7, <1>11 DEF s
<1>12. CASE T \in {"null", "boolean"}
  BY <1>5, <1>7, <1>12 DEF s
<1>13. CASE T = "none"
  BY <1>4, <1>7, <1>13 DEF s
<1> QED
  BY <1>3, <1>9, <1>10, <1>11, <1>12, <1>13

\* The combinations of a schema.
LEMMA LogicTasksOK ==
  ASSUME NEW f, NEW i, NEW ptr, NEW inst, Asked(i, ptr, inst)
  PROVE  TasksOK([k \in DOMAIN graph[i].logic |->
                    Call("plain", graph[i].logic[k].role, graph[i].logic[k].subs, ptr, inst)],
                 f, validator, instance)
<1> DEFINE s == graph[i]
           n == Len(s.logic)
           call(k) == Call("plain", s.logic[k].role, s.logic[k].subs, ptr, inst)
           all == [k \in DOMAIN s.logic |-> call(k)]
           R == [role : {"not", "allOf", "anyOf", "oneOf"}, subs : Seq(DOMAIN graph)]
<1>1. /\ ptr \in Seq(Token) /\ IsDocument(inst) /\ i \in DOMAIN graph /\ "plain" \in Vias
      /\ Somewhere(<<i>>, ptr, inst, validator, instance) /\ validator \in Corpus
  BY DEF Asked, Vias
<1>2. /\ s.logic \in Seq(R) /\ 0 \notin DOMAIN graph
      /\ \A k \in DOMAIN s.logic : s.logic[k].role = "not" => Len(s.logic[k].subs) = 1
  BY <1>1, SchemaObjects DEF IsSchema
<1>3. n \in Nat /\ DOMAIN s.logic = 1..n /\ \A k \in 1..n : s.logic[k] \in R
  <2> HIDE DEF R
  <2> QED BY <1>2, ElementOfSeq
<1>4. ASSUME NEW k \in 1..n PROVE TaskOK(call(k), f, validator, instance)
  <2> DEFINE role == s.logic[k].role
             subs == s.logic[k].subs
  <2>1. role \in {"not", "allOf", "anyOf", "oneOf"} /\ subs \in Seq(DOMAIN graph)
    BY <1>3
  <2>2. role = "not" => Len(subs) = 1
    BY <1>2, <1>3
  <2>3. \A m \in DOMAIN subs : subs[m] \in DOMAIN graph /\ subs[m] \in Callees(s)
    <3>1. \A m \in DOMAIN subs : subs[m] \in DOMAIN graph
      BY <2>1, ElementOfSeq
    <3>2. \A m \in DOMAIN subs : subs[m] \in Range(s.logic[k].subs)
      BY DEF Range
    <3>3. k \in DOMAIN s.logic
      BY <1>3
    <3>4. Range(s.logic[k].subs) \subseteq Callees(s)
      BY <3>3 DEF Callees
    <3> QED BY <3>1, <3>2, <3>4
  <2>4. Range(subs) \subseteq Callees(graph[i]) \ {0}
    BY <1>2, <2>3 DEF Range
  <2> HIDE DEF role, subs
  <2>5. Somewhere(subs, ptr, inst, validator, instance)
    BY <1>1, <2>4, SamePlace
  <2>6. role \in Roles /\ role \notin {"schema", "object", "array"}
    BY <2>1 DEF Roles
  <2>7. TaskOK(Call("plain", role, subs, ptr, inst), f, validator, instance)
    BY <1>1, <2>1, <2>2, <2>5, <2>6, CallTask DEF graph
  <2> QED BY <2>7 DEF role, subs
<1> HIDE DEF call
<1>5. DOMAIN all = 1..n /\ all = [k \in 1..n |-> all[k]] /\ \A k \in 1..n : all[k] = call(k)
  BY <1>3
<1>6. n \in Nat
  BY <1>3
<1> HIDE DEF n, all
<1>7. TasksOK(all, f, validator, instance)
  BY <1>4, <1>5, <1>6, ListTasks
<1> QED
  BY <1>7 DEF all, call

\* The default value for an empty document.
LEMMA RootDefaultOK ==
  ASSUME NEW f, NEW i, NEW ptr, NEW inst, Asked(i, ptr, inst), ptr = <<>>, IsNull(inst),
         ~IsNull(graph[i].default)
  PROVE  TasksOK(<<Add(ptr, graph[i].default)>>, f, validator, instance)
<1> DEFINE v == graph[i].default
           x == Add(ptr, v)
<1>1. x.do = "add" /\ x.path = <<>> /\ x.value = v
  BY DEF Add
<1>2. IsDocument(v)
  BY SchemaObjects DEF Asked, IsSchema
<1>3. WellPlaced(validator) => IsNull(instance)
  <2> SUFFICES ASSUME WellPlaced(validator) PROVE IsNull(instance)
    OBVIOUS
  <2>1. CASE inst = Subtree(instance, ptr)
    <3>1. IsTree(instance, Token, Node) /\ IsMapping(instance)
      BY DocumentTree DEF Asked
    <3>2. Subtree(instance, <<>>) = instance
      BY <3>1, SubtreeWhole, SMT
    <3> QED BY <2>1, <3>2
  <2>2. CASE Kind(inst) = "string"
    BY <2>2 DEF IsNull
  <2>3. CASE Range(<<i>>) \subseteq Quiet(validator)
    <3>1. i \in Quiet(validator)
      BY <2>3 DEF Range
    <3> QED BY <3>1, QuietSchemas DEF Silent, graph
  <2> QED BY <2>1, <2>2, <2>3 DEF Asked, Somewhere
<1>4. <<>> \in Seq(Token)
  OBVIOUS
<1> HIDE DEF x, v
<1>5. TaskOK(x, f, validator, instance)
  BY <1>1, <1>2, <1>3, <1>4 DEF TaskOK, IsTask, Operation, AddsMissing
<1> QED
  BY <1>5, FewTasks DEF x, v

\* A schema for the same value.
LEMMA SameAsked ==
  ASSUME NEW i, NEW ptr, NEW inst, Asked(i, ptr, inst), NEW j \in Callees(graph[i]) \ {0}
  PROVE  Asked(j, ptr, inst)
<1>1. j \in DOMAIN graph
  BY PropertyCallees DEF Asked
<1>2. Range(<<j>>) \subseteq Callees(graph[i]) \ {0}
  BY DEF Range
<1>3. Somewhere(<<j>>, ptr, inst, validator, instance)
  BY <1>2, SamePlace DEF Asked
<1> QED
  BY <1>1, <1>3 DEF Asked

\* The agenda of class type_schema.
LEMMA KeywordTasksOK ==
  ASSUME NEW f, NEW i, NEW ptr, NEW inst, Asked(i, ptr, inst),
         f.role = "schema", f.ptr = ptr, f.inst = inst
  PROVE  TasksOK(KeywordTasks(graph[i], i, ptr, inst), f, validator, instance)
<1> DEFINE s == graph[i]
           a == TypeTasks(s, i, ptr, inst)
           b == Reject(s.enum # NoLimit /\ \A v \in s.enum : ~Same(v, inst), ptr)
           c == Reject(s.const # NoLimit /\ ~Same(s.const, inst), ptr)
           d == [k \in DOMAIN s.logic |-> Call("plain", s.logic[k].role, s.logic[k].subs, ptr, inst)]
           e == IF s.then # 0 \/ s.else # 0 THEN IfPresent(s.if, "if", ptr, inst) ELSE <<>>
           g == IF ptr = <<>> /\ IsNull(inst) /\ ~IsNull(s.default)
                THEN <<Add(ptr, s.default)>> ELSE <<>>
<1>1. TasksOK(a, f, validator, instance) /\ TasksOK(<<>>, f, validator, instance)
  BY TypeTasksOK, FewTasks
<1>2. TasksOK(b, f, validator, instance) /\ TasksOK(c, f, validator, instance)
  BY RejectOK DEF Asked
<1>3. TasksOK(d, f, validator, instance)
  BY LogicTasksOK
<1>4. TasksOK(e, f, validator, instance)
  <2> DEFINE j == s.if
  <2>1. j # 0 => Asked(j, ptr, inst)
    <3> SUFFICES ASSUME j # 0 PROVE Asked(j, ptr, inst)
      OBVIOUS
    <3>1. j \in Callees(s) \ {0}
      BY DEF Callees
    <3> HIDE DEF j
    <3> QED BY <3>1, SameAsked
  <2> HIDE DEF j
  <2>2. TasksOK(IfPresent(j, "if", ptr, inst), f, validator, instance)
    <3>1. "if" \in Vias /\ ptr \in Seq(Token) /\ IsDocument(inst)
      BY DEF Asked, Vias
    <3> QED BY <2>1, <3>1, IfPresentOK DEF Asked, graph
  <2> QED BY <1>1, <2>2 DEF j
<1>5. TasksOK(g, f, validator, instance)
  BY <1>1, RootDefaultOK
<1>6. KeywordTasks(s, i, ptr, inst) = a \o b \o c \o d \o e \o g
  BY DEF KeywordTasks
<1> HIDE DEF a, b, c, d, e, g
<1>7. TasksOK(a \o b \o c \o d \o e \o g, f, validator, instance)
  BY <1>1, <1>2, <1>3, <1>4, <1>5, JoinTasks
<1> QED
  BY <1>6, <1>7

\* The agenda of a schema.
LEMMA SchemaTasksOK ==
  ASSUME NEW f, NEW i, NEW ptr, NEW inst, Asked(i, ptr, inst),
         f.role = "schema", f.ptr = ptr, f.inst = inst
  PROVE  TasksOK(SchemaTasks(i, ptr, inst), f, validator, instance)
<1> DEFINE s == graph[i]
<1>1. s.kind \in {"type", "boolean", "ref"} /\ ptr \in Seq(Token)
  BY SchemaObjects DEF Asked, IsSchema
<1>2. TasksOK(KeywordTasks(s, i, ptr, inst), f, validator, instance)
  BY KeywordTasksOK
<1>3. \A fails : TasksOK(Reject(fails, ptr), f, validator, instance)
  BY <1>1, RejectOK
<1>4. TasksOK(RefTasks(s, ptr, inst), f, validator, instance)
  <2> DEFINE j == s.target
  <2>1. CASE j = 0
    BY <1>3, <2>1 DEF RefTasks
  <2>2. CASE j # 0
    <3>1. j \in Callees(s) \ {0}
      BY <2>2 DEF Callees
    <3>2. RefTasks(s, ptr, inst) = <<Plain(j, ptr, inst)>>
      BY <2>2 DEF RefTasks
    <3> HIDE DEF j
    <3>3. Asked(j, ptr, inst)
      BY <3>1, SameAsked
    <3>4. TaskOK(Plain(j, ptr, inst), f, validator, instance)
      BY <3>3, PlainOK DEF Asked, graph
    <3> QED BY <3>2, <3>4, FewTasks
  <2> QED BY <2>1, <2>2
<1> QED
  BY <1>1, <1>2, <1>3, <1>4 DEF SchemaTasks, BooleanTasks

\* The agenda of a call.
LEMMA AgendaOK ==
  ASSUME NEW f, validator \in Corpus, IsDocument(instance), CallOK(f, validator, instance)
  PROVE  TasksOK(Agenda(f.role, f.subs, f.ptr, f.inst), f, validator, instance)
<1> DEFINE subs == f.subs
           ptr == f.ptr
           inst == f.inst
<1>1. /\ f.role \in Roles /\ subs \in Seq(DOMAIN graph) /\ ptr \in Seq(Token) /\ IsDocument(inst)
      /\ f.role \in {"schema", "object", "array", "not"} => Len(subs) = 1
      /\ f.role \in {"object", "array"} => Kind(inst) = f.role
      /\ Somewhere(subs, ptr, inst, validator, instance)
  BY DEF CallOK, IsCall, graph
<1>2. ASSUME NEW k \in 1..Len(subs) PROVE Asked(subs[k], ptr, inst)
  <2>1. subs[k] \in DOMAIN graph /\ subs[k] \in Range(subs)
    BY <1>1, ElementOfSeq DEF Range
  <2>2. Range(<<subs[k]>>) = {subs[k]}
    BY DEF Range
  <2>3. Somewhere(<<subs[k]>>, ptr, inst, validator, instance)
    BY <1>1, <2>1, <2>2 DEF Somewhere
  <2> QED BY <1>1, <2>1, <2>3 DEF Asked
<1>3. Len(subs) \in Nat /\ DOMAIN subs = 1..Len(subs) /\ (Len(subs) = 0 <=> subs = <<>>)
  BY <1>1
<1>4. CASE f.role = "schema"
  <2>1. Asked(subs[1], ptr, inst)
    BY <1>1, <1>2, <1>4
  <2>2. TasksOK(SchemaTasks(subs[1], ptr, inst), f, validator, instance)
    BY <1>4, <2>1, SchemaTasksOK
  <2> QED BY <1>4, <2>2 DEF Agenda
<1>5. CASE f.role = "object"
  <2>1. Asked(subs[1], ptr, inst) /\ Kind(inst) = "object"
    BY <1>1, <1>2, <1>5
  <2>2. TasksOK(ObjectTasks(graph[subs[1]], ptr, inst), f, validator, instance)
    BY <2>1, ObjectTasksOK
  <2> QED BY <1>5, <2>2 DEF Agenda
<1>6. CASE f.role = "array"
  <2>1. Asked(subs[1], ptr, inst)
    BY <1>1, <1>2, <1>6
  <2>2. TasksOK(ArrayTasks(graph[subs[1]], ptr, inst), f, validator, instance)
    BY <2>1, ArrayTasksOK
  <2> QED BY <1>6, <2>2 DEF Agenda
<1>7. CASE f.role = "not"
  <2> DEFINE x == Call("not", "schema", subs, ptr, inst)
  <2>1. "not" \in Vias /\ "schema" \in Roles /\ Len(subs) = 1
    BY <1>1, <1>7 DEF Vias, Roles
  <2>2. TaskOK(x, f, validator, instance)
    <3> HIDE DEF subs, ptr, inst
    <3> QED BY <1>1, <2>1, CallTask DEF graph
  <2> HIDE DEF x
  <2>3. TasksOK(<<x>>, f, validator, instance)
    BY <2>2, FewTasks
  <2> QED BY <1>7, <2>3 DEF Agenda, x
<1>8. CASE f.role \in {"allOf", "anyOf", "oneOf"}
  <2> DEFINE n == Len(subs)
             call(k) == Call("case", "schema", <<subs[k]>>, ptr, inst)
             all == [k \in 1..n |-> call(k)]
             x == [do |-> "count"]
  <2>1. ASSUME NEW k \in 1..n PROVE TaskOK(call(k), f, validator, instance)
    <3>1. "case" \in Vias \ {"if"} /\ "schema" \in Roles /\ Asked(subs[k], ptr, inst)
      BY <1>2 DEF Vias, Roles
    <3> DEFINE j == subs[k]
    <3> HIDE DEF j, subs, ptr, inst
    <3>2. <<j>> \in Seq(DOMAIN graph) /\ Len(<<j>>) = 1
      BY <3>1, Single DEF Asked, j
    <3>3. TaskOK(Call("case", "schema", <<j>>, ptr, inst), f, validator, instance)
      BY <3>1, <3>2, CallTask DEF Asked, graph, j
    <3> QED BY <3>3 DEF j, subs, ptr, inst
  <2>2. TaskOK(x, f, validator, instance)
    BY DEF TaskOK, IsTask
  <2>3. Agenda(f.role, subs, ptr, inst) = all \o <<x>>
    <3>1. Agenda(f.role, subs, ptr, inst) = [k \in DOMAIN subs |-> call(k)] \o <<x>>
      BY <1>8 DEF Agenda
    <3> QED BY <1>3, <3>1
  <2> HIDE DEF x
  <2>4. TasksOK(<<x>>, f, validator, instance)
    BY <2>2, FewTasks
  <2>5. n \in Nat
    BY <1>3
  <2> HIDE DEF n, call
  <2>6. DOMAIN all = 1..n /\ all = [k \in 1..n |-> all[k]] /\ \A k \in 1..n : all[k] = call(k)
    OBVIOUS
  <2> HIDE DEF all
  <2>7. TasksOK(all, f, validator, instance)
    BY <2>1, <2>5, <2>6, ListTasks
  <2>8. TasksOK(all \o <<x>>, f, validator, instance)
    BY <2>4, <2>7, JoinTasks
  <2> QED BY <2>3, <2>8
<1>9. CASE f.role = "root"
  <2>1. CASE subs = <<>>
    <3>1. TasksOK(Reject(TRUE, ptr), f, validator, instance)
      BY <1>1, RejectOK
    <3> QED BY <1>9, <2>1, <3>1 DEF Agenda
  <2>2. CASE subs # <<>>
    <3>1. Asked(subs[1], ptr, inst)
      BY <1>2, <1>3, <2>2
    <3> DEFINE j == subs[1]
    <3> HIDE DEF j, ptr, inst
    <3>2. TaskOK(Plain(j, ptr, inst), f, validator, instance)
      BY <3>1, PlainOK DEF Asked, graph, j
    <3>3. TasksOK(<<Plain(j, ptr, inst)>>, f, validator, instance)
      BY <3>2, FewTasks
    <3> QED BY <1>9, <2>2, <3>3 DEF Agenda, j, ptr, inst
  <2> QED BY <2>1, <2>2
<1> QED
  BY <1>1, <1>4, <1>5, <1>6, <1>7, <1>8, <1>9 DEF Roles
-----------------------------------------------------------------------------
(***************************************************************************)
(* The running calls.                                                      *)
(***************************************************************************)
Fields == {"via", "role", "subs", "ptr", "inst", "todo", "errs", "count", "summary", "mark", "was"}

\* The call f for the validator c and the instance t.
FrameOK(f, c, t) ==
  /\ Fields \subseteq DOMAIN f
  /\ CallOK(f, c, t)
  /\ f.count \in Nat /\ f.mark \in Nat
  /\ f.errs \in Seq(Seq(Token)) /\ f.summary \in Seq(Seq(Token))
  /\ TasksOK(f.todo, f, c, t)

CallsOK(calls, c, t) ==
  /\ Sequence(calls)
  /\ \A k \in 1..Len(calls) : FrameOK(calls[k], c, t)
  /\ \A k \in 2..Len(calls) : calls[k].via = "if" => Within(calls[k], calls[k - 1])

\* The same call, later.
SameCall(f, g) ==
  /\ f.via = g.via /\ f.role = g.role /\ f.subs = g.subs /\ f.ptr = g.ptr /\ f.inst = g.inst

\* What a call is assigned while it runs.
LEMMA EditCall ==
  ASSUME NEW f, NEW c, NEW t, FrameOK(f, c, t)
  PROVE  /\ SameCall(f, f)
         /\ \A x : TasksOK(x, f, c, t) =>
              FrameOK([f EXCEPT !.todo = x], c, t) /\ SameCall([f EXCEPT !.todo = x], f)
         /\ \A x \in Seq(Seq(Token)) :
              FrameOK([f EXCEPT !.errs = x], c, t) /\ SameCall([f EXCEPT !.errs = x], f)
         /\ \A n \in Nat, x \in Seq(Seq(Token)) :
              LET g == [f EXCEPT !.count = n, !.summary = x]
              IN FrameOK(g, c, t) /\ SameCall(g, f)
<1>1. Fields \subseteq DOMAIN f
  BY DEF FrameOK
<1>2. ASSUME NEW g, SameCall(g, f), Fields \subseteq DOMAIN g,
             g.count \in Nat, g.mark \in Nat, g.errs \in Seq(Seq(Token)), g.summary \in Seq(Seq(Token)),
             TasksOK(g.todo, f, c, t)
      PROVE  FrameOK(g, c, t)
  <2>1. CallOK(g, c, t)
    BY <1>2 DEF FrameOK, CallOK, IsCall, SameCall
  <2>2. \A x : TaskOK(x, f, c, t) => TaskOK(x, g, c, t)
    BY <1>2 DEF TaskOK, Within, SameCall
  <2>3. TasksOK(g.todo, g, c, t)
    BY <1>2, <2>2 DEF TasksOK
  <2> QED BY <1>2, <2>1, <2>3 DEF FrameOK
<1>3. ASSUME NEW x, TasksOK(x, f, c, t)
      PROVE  FrameOK([f EXCEPT !.todo = x], c, t) /\ SameCall([f EXCEPT !.todo = x], f)
  <2> DEFINE g == [f EXCEPT !.todo = x]
  <2>1. /\ SameCall(g, f) /\ Fields \subseteq DOMAIN g
        /\ g.count = f.count /\ g.mark = f.mark /\ g.errs = f.errs /\ g.summary = f.summary
        /\ g.todo = x
    BY <1>1 DEF SameCall, Fields
  <2> HIDE DEF g
  <2>2. FrameOK(g, c, t)
    BY <1>2, <1>3, <2>1 DEF FrameOK
  <2> QED BY <2>1, <2>2 DEF g
<1>4. ASSUME NEW x \in Seq(Seq(Token))
      PROVE  FrameOK([f EXCEPT !.errs = x], c, t) /\ SameCall([f EXCEPT !.errs = x], f)
  <2> DEFINE g == [f EXCEPT !.errs = x]
  <2>1. /\ SameCall(g, f) /\ Fields \subseteq DOMAIN g
        /\ g.count = f.count /\ g.mark = f.mark /\ g.errs = x /\ g.summary = f.summary
        /\ g.todo = f.todo
    BY <1>1 DEF SameCall, Fields
  <2> HIDE DEF g
  <2>2. FrameOK(g, c, t)
    BY <1>2, <1>4, <2>1 DEF FrameOK
  <2> QED BY <2>1, <2>2 DEF g
<1>5. ASSUME NEW n \in Nat, NEW x \in Seq(Seq(Token))
      PROVE  LET g == [f EXCEPT !.count = n, !.summary = x]
             IN FrameOK(g, c, t) /\ SameCall(g, f)
  <2> DEFINE g == [f EXCEPT !.count = n, !.summary = x]
  <2>1. /\ SameCall(g, f) /\ Fields \subseteq DOMAIN g
        /\ g.count = n /\ g.mark = f.mark /\ g.errs = f.errs /\ g.summary = x
        /\ g.todo = f.todo
    BY <1>1 DEF SameCall, Fields
  <2> HIDE DEF g
  <2>2. FrameOK(g, c, t)
    BY <1>2, <1>5, <2>1 DEF FrameOK
  <2> QED BY <2>1, <2>2 DEF g
<1> QED
  BY <1>3, <1>4, <1>5 DEF SameCall

\* A frame that is replaced by a later one of the same call.
LEMMA ReplaceCall ==
  ASSUME NEW calls, NEW c, NEW t, CallsOK(calls, c, t), NEW k, NEW f,
         k \in 1..Len(calls) => FrameOK(f, c, t) /\ SameCall(f, calls[k])
  PROVE  CallsOK([calls EXCEPT ![k] = f], c, t)
<1> DEFINE S == Range(calls) \cup {f}
           s == [calls EXCEPT ![k] = f]
<1>1. calls \in Seq(S) /\ f \in S
  BY DEF CallsOK, Sequence
<1> HIDE DEF S
<1>2. s \in Seq(S) /\ Len(s) = Len(calls) /\ Len(calls) \in Nat
      /\ \A i \in 1..Len(calls) : s[i] = IF i = k THEN f ELSE calls[i]
  <2>1. Len(calls) \in Nat /\ DOMAIN calls = 1..Len(calls)
    BY <1>1
  <2>2. CASE k \in 1..Len(calls)
    BY <1>1, <2>1, <2>2, ExceptSeq DEF s
  <2>3. CASE k \notin 1..Len(calls)
    <3>1. s = calls
      BY <1>1, <2>1, <2>3 DEF s
    <3> QED
      BY <1>1, <2>1, <2>3, <3>1
  <2> QED
    BY <2>2, <2>3
<1> HIDE DEF s
<1>3. Sequence(s)
  BY <1>2, IsSequence
<1>4. \A i \in 1..Len(calls) : FrameOK(s[i], c, t) /\ SameCall(s[i], calls[i])
  BY <1>2 DEF CallsOK, SameCall
<1>5. ASSUME NEW i \in 2..Len(s), s[i].via = "if" PROVE Within(s[i], s[i - 1])
  <2> DEFINE j == i - 1
  <2>1. i \in 1..Len(calls) /\ j \in 1..Len(calls) /\ i \in 2..Len(calls)
    BY <1>2
  <2>2. calls[i].via = "if" => Within(calls[i], calls[j])
    BY <2>1 DEF CallsOK
  <2> HIDE DEF j
  <2>3. SameCall(s[i], calls[i]) /\ SameCall(s[j], calls[j])
    BY <1>4, <2>1
  <2>4. Within(s[i], s[j])
    BY <1>5, <2>2, <2>3 DEF SameCall, Within
  <2> QED BY <2>4 DEF j
<1>6. CallsOK(s, c, t)
  BY <1>2, <1>3, <1>4, <1>5 DEF CallsOK
<1> QED
  BY <1>6 DEF s

\* A call begins.
LEMMA PushCall ==
  ASSUME NEW calls, NEW c, NEW t, CallsOK(calls, c, t), calls # <<>>,
         NEW f, FrameOK(f, c, t), f.via = "if" => Within(f, calls[Len(calls)])
  PROVE  CallsOK(Append(calls, f), c, t)
<1> DEFINE s == Append(calls, f)
<1>1. /\ Sequence(s) /\ Len(s) = Len(calls) + 1 /\ Len(calls) \in Nat
      /\ \A i \in 1..Len(calls) : s[i] = calls[i]
      /\ s[Len(calls) + 1] = f
  BY Longer DEF CallsOK
<1> HIDE DEF s
<1>2. Len(calls) > 0
  BY DEF CallsOK, Sequence
<1>3. \A i \in 1..Len(s) : FrameOK(s[i], c, t)
  BY <1>1, <1>2 DEF CallsOK
<1>4. ASSUME NEW i \in 2..Len(s), s[i].via = "if" PROVE Within(s[i], s[i - 1])
  <2>1. CASE i = Len(calls) + 1
    BY <1>1, <1>2, <1>4, <2>1
  <2>2. CASE i # Len(calls) + 1
    <3>1. i \in 2..Len(calls) /\ s[i] = calls[i] /\ s[i - 1] = calls[i - 1]
      BY <1>1, <2>2
    <3> QED BY <1>4, <3>1 DEF CallsOK
  <2> QED BY <2>1, <2>2
<1>5. CallsOK(s, c, t)
  BY <1>1, <1>3, <1>4 DEF CallsOK
<1> QED
  BY <1>5 DEF s

\* A call returns.
LEMMA PopCall ==
  ASSUME NEW calls, NEW c, NEW t, CallsOK(calls, c, t), calls # <<>>
  PROVE  /\ CallsOK(Front(calls), c, t) /\ Len(Front(calls)) = Len(calls) - 1
         /\ Len(calls) \in Nat \ {0}
         /\ \A i \in 1..(Len(calls) - 1) : Front(calls)[i] = calls[i]
<1> DEFINE n == Len(calls) - 1
           s == SubSeq(calls, 1, n)
<1>1. Len(calls) \in Nat \ {0} /\ Sequence(calls) /\ n \in 0..Len(calls)
  BY DEF CallsOK, Sequence
<1>2. /\ Sequence(s) /\ Len(s) = Len(calls) - 1
      /\ \A i \in 1..(Len(calls) - 1) : s[i] = calls[i]
  BY <1>1, Shorter
<1> HIDE DEF s
<1>3. \A i \in 1..Len(s) : i \in 1..Len(calls) /\ s[i] = calls[i]
  BY <1>1, <1>2
<1>4. \A i \in 2..Len(s) : i \in 2..Len(calls) /\ s[i] = calls[i] /\ s[i - 1] = calls[i - 1]
  BY <1>1, <1>2
<1>5. CallsOK(s, c, t)
  BY <1>2, <1>3, <1>4 DEF CallsOK
<1> QED
  BY <1>1, <1>2, <1>5 DEF Front, s
-----------------------------------------------------------------------------
(***************************************************************************)
(* The invariant, together with IInv.                                      *)
(***************************************************************************)
Operations(ops) == Sequence(ops) /\ \A x \in Range(ops) : Operation(x)
Placed(ops, c, t) == WellPlaced(c) => \A x \in Range(ops) : AddsMissing(x.path, t)

TInv ==
  /\ validator \in Corpus /\ throwing \in BOOLEAN
  /\ pc \in {"idle", "validating", "returned", "thrown", "unpatchable"}
  /\ IsDocument(instance)
  /\ errors \in Seq(Seq(Token))
  /\ Operations(patch)
  /\ pc \in {"validating", "returned"} => Placed(patch, validator, instance)
  /\ pc # "validating" => stack = <<>>
  /\ CallsOK(stack, validator, instance)

\* No calls, no operations, no errors.
LEMMA Nothing ==
  ASSUME NEW c, NEW t
  PROVE  CallsOK(<<>>, c, t) /\ Operations(<<>>) /\ Placed(<<>>, c, t) /\ <<>> \in Seq(Seq(Token))
<1>1. Sequence(<<>>) /\ Len(<<>>) = 0 /\ Range(<<>>) = {}
  BY Short DEF Range
<1>2. CallsOK(<<>>, c, t)
  BY <1>1 DEF CallsOK
<1>3. Operations(<<>>) /\ Placed(<<>>, c, t)
  BY <1>1 DEF Operations, Placed
<1> QED
  BY <1>2, <1>3

\* What a step of a call has to keep.
LEMMA StepOK ==
  ASSUME TInv, UNCHANGED inputs, pc' \in {"validating", "returned", "thrown"},
         errors' \in Seq(Seq(Token)), Operations(patch'), Placed(patch', validator, instance),
         CallsOK(stack', validator, instance), pc' # "validating" => stack' = <<>>
  PROVE  TInv'
  BY DEF TInv, inputs

\* The call that goes on, and the one that waits for it.
LEMMA TopCall ==
  ASSUME IInv, TInv, pc = "validating"
  PROVE  /\ FrameOK(Top, validator, instance) /\ Len(stack) \in Nat \ {0} /\ stack # <<>>
         /\ Top = stack[Len(stack)]
         /\ Top.via # "plain" =>
              /\ Len(stack) \in Nat \ {0, 1}
              /\ FrameOK(Caller, validator, instance) /\ Caller = stack[Len(stack) - 1]
              /\ Top.via = "if" => Within(Top, Caller)
<1> DEFINE n == Len(stack)
<1>1. stack # <<>> /\ CallsOK(stack, validator, instance)
  BY DEF IInv, TInv
<1>2. n \in Nat \ {0} /\ Top = stack[n]
  BY <1>1, PopCall DEF Top, Last
<1>3. n = 1 => Top.via = "plain"
  BY <1>1, <1>2 DEF IInv, Nested
<1> HIDE DEF n
<1>4. n \in 1..n
  BY <1>2
<1>5. FrameOK(Top, validator, instance)
  BY <1>1, <1>2, <1>4 DEF CallsOK, n
<1>6. ASSUME Top.via # "plain"
      PROVE  /\ n \in Nat \ {0, 1}
             /\ FrameOK(Caller, validator, instance) /\ Caller = stack[n - 1]
             /\ Top.via = "if" => Within(Top, Caller)
  <2>1. n \in Nat \ {0, 1} /\ n - 1 \in 1..n /\ n \in 2..n
    BY <1>2, <1>3, <1>6
  <2>2. Caller = stack[n - 1]
    BY DEF Caller, n
  <2>3. FrameOK(Caller, validator, instance)
    BY <1>1, <2>1, <2>2 DEF CallsOK, n
  <2>4. stack[n].via = "if" => Within(stack[n], stack[n - 1])
    BY <1>1, <2>1 DEF CallsOK, n
  <2> QED BY <1>2, <2>1, <2>2, <2>3, <2>4
<1> QED
  BY <1>1, <1>2, <1>5, <1>6 DEF n

\* A task is taken from the agenda.
LEMMA ProceedOK ==
  ASSUME IInv, TInv, pc = "validating", Top.todo # <<>>
  PROVE  /\ TaskOK(Task, Top, validator, instance)
         /\ CallsOK(Proceed, validator, instance)
         /\ Len(Proceed) = Len(stack) /\ Proceed # <<>> /\ SameCall(Proceed[Len(stack)], Top)
<1> DEFINE n == Len(stack)
           f == [Top EXCEPT !.todo = Tail(Top.todo)]
<1>1. /\ FrameOK(Top, validator, instance) /\ n \in Nat \ {0} /\ stack # <<>> /\ Top = stack[n]
      /\ CallsOK(stack, validator, instance)
  BY TopCall DEF TInv
<1>2. TaskOK(Task, Top, validator, instance) /\ TasksOK(Tail(Top.todo), Top, validator, instance)
  BY <1>1, TailTasks DEF FrameOK, Task
<1>3. FrameOK(f, validator, instance) /\ SameCall(f, Top)
  BY <1>1, <1>2, EditCall
<1>4. Proceed = [stack EXCEPT ![n] = f]
  BY <1>1 DEF Proceed
<1> HIDE DEF f
<1>5. CallsOK(Proceed, validator, instance)
  BY <1>1, <1>3, <1>4, ReplaceCall
<1>6. Len(Proceed) = n /\ Proceed[n] = f /\ Proceed # <<>>
  <2> DEFINE S == Range(stack) \cup {f}
  <2>1. stack \in Seq(S) /\ f \in S /\ n \in 1..n
    BY <1>1 DEF CallsOK, Sequence
  <2> HIDE DEF S
  <2>2. Len(Proceed) = n /\ Proceed[n] = f
    BY <1>4, <2>1, ExceptSeq
  <2>3. Len(<<>>) = 0
    OBVIOUS
  <2> HIDE DEF n
  <2> QED BY <1>1, <2>2, <2>3
<1> QED
  BY <1>2, <1>3, <1>5, <1>6

\* The caller goes on.
LEMMA ResumeOK ==
  ASSUME IInv, TInv, pc = "validating", Top.via # "plain",
         NEW f, FrameOK(f, validator, instance), SameCall(f, Caller), Resume(f)
  PROVE  CallsOK(stack', validator, instance) /\ UNCHANGED <<inputs, errors, pc>>
<1> DEFINE n == Len(stack)
<1>1. /\ n \in Nat \ {0, 1} /\ stack # <<>> /\ Caller = stack[n - 1]
      /\ CallsOK(stack, validator, instance)
  BY TopCall DEF TInv
<1>2. /\ CallsOK(Suspended, validator, instance)
      /\ \A i \in 1..(n - 1) : Suspended[i] = stack[i]
  BY <1>1, PopCall DEF Suspended
<1>3. stack' = [Suspended EXCEPT ![n - 1] = f] /\ UNCHANGED <<inputs, errors, pc>>
  BY DEF Resume
<1> HIDE DEF n
<1>4. Suspended[n - 1] = Caller
  BY <1>1, <1>2
<1> QED
  BY <1>2, <1>3, <1>4, ReplaceCall

\* The caller gets more to do.
LEMMA PrependOK ==
  ASSUME IInv, TInv, pc = "validating", Top.via # "plain", NEW tasks,
         TasksOK(tasks, Caller, validator, instance), Prepend(tasks), UNCHANGED patch
  PROVE  TInv'
<1> DEFINE x == tasks \o Caller.todo
           f == [Caller EXCEPT !.todo = x]
<1>1. FrameOK(Caller, validator, instance)
  BY TopCall
<1>2. TasksOK(x, Caller, validator, instance)
  BY <1>1, JoinTasks DEF FrameOK
<1>3. Resume(f)
  BY DEF Prepend
<1> HIDE DEF x
<1>4. FrameOK(f, validator, instance) /\ SameCall(f, Caller)
  BY <1>1, <1>2, EditCall
<1> HIDE DEF f
<1>5. CallsOK(stack', validator, instance) /\ UNCHANGED <<inputs, errors, pc>>
  BY <1>3, <1>4, ResumeOK
<1>6. errors' \in Seq(Seq(Token)) /\ Operations(patch') /\ Placed(patch', validator, instance)
  BY <1>5 DEF TInv
<1> QED
  BY <1>5, <1>6, StepOK

\* What is reported is one error or more.
LEMMA ReportedOK ==
  ASSUME IInv, TInv, Reports
  PROVE  /\ Reported \in Seq(Seq(Token)) /\ Head(Reported) \in Seq(Token)
         /\ CallsOK(Proceed, validator, instance) /\ pc = "validating"
<1>1. pc = "validating" /\ Top.todo # <<>> /\ Task.do \in {"errors", "count"}
  BY DEF Reports, Steps
<1>2. TaskOK(Task, Top, validator, instance) /\ CallsOK(Proceed, validator, instance)
  BY <1>1, ProceedOK
<1>3. Top.ptr \in Seq(Token) /\ Top.summary \in Seq(Seq(Token))
  BY <1>1, TopCall DEF FrameOK, CallOK, IsCall
<1> DEFINE S == Seq(Token)
           p == Top.ptr
           r == Top.summary
<1>4. CASE Task.do = "errors"
  <2>1. Task.paths \in Seq(S) /\ Task.paths # <<>> /\ Reported = Task.paths
    BY <1>2, <1>4 DEF TaskOK, IsTask, Reported
  <2> HIDE DEF S
  <2>2. Reported \in Seq(S) /\ Head(Reported) \in S
    BY <2>1
  <2> QED BY <1>1, <1>2, <2>2 DEF S
<1>5. CASE Task.do = "count"
  <2>1. Reported = <<p>> \o r /\ p \in S /\ r \in Seq(S)
    BY <1>3, <1>5 DEF Reported
  <2> HIDE DEF S, p, r
  <2>2. Reported \in Seq(S) /\ Head(Reported) \in S
    BY <2>1
  <2> QED BY <1>1, <1>2, <2>2 DEF S
<1> QED
  BY <1>1, <1>4, <1>5
-----------------------------------------------------------------------------
(***************************************************************************)
(* The steps.                                                              *)
(***************************************************************************)

\* An error is kept by a handler made for an inner call.
LEMMA ReportInsideOK == ASSUME IInv, TInv, ReportInside PROVE TInv'
<1> DEFINE h == Handler
           x == Keep(stack[h], Reported)
           f == [Proceed[h] EXCEPT !.errs = x]
<1>1. /\ Reported \in Seq(Seq(Token)) /\ Head(Reported) \in Seq(Token)
      /\ CallsOK(Proceed, validator, instance) /\ pc = "validating"
  BY ReportedOK DEF ReportInside
<1>2. Len(Proceed) = Len(stack)
  BY <1>1, ProceedOK DEF ReportInside, Reports, Steps
<1>3. stack' = [Proceed EXCEPT ![h] = f]
  BY DEF ReportInside
<1>4. ASSUME h \in 1..Len(Proceed)
      PROVE  FrameOK(f, validator, instance) /\ SameCall(f, Proceed[h])
  <2>1. FrameOK(stack[h], validator, instance)
    BY <1>2, <1>4 DEF TInv, CallsOK
  <2> DEFINE e == stack[h].errs
             S == Seq(Token)
             paths == Reported
  <2>2. e \in Seq(S)
    BY <2>1 DEF FrameOK
  <2>3. x = IF stack[h].via = "case" THEN e \o paths ELSE IF e = <<>> THEN <<Head(paths)>> ELSE e
    BY DEF Keep
  <2>4. paths \in Seq(S) /\ Head(paths) \in S
    BY <1>1
  <2>5. x \in Seq(S)
    <3> HIDE DEF e, S, x, paths
    <3> QED BY <2>2, <2>3, <2>4
  <2>6. FrameOK(Proceed[h], validator, instance)
    BY <1>1, <1>4 DEF CallsOK
  <2> HIDE DEF x, h
  <2> QED BY <2>5, <2>6, EditCall
<1> HIDE DEF f, h, x
<1>5. CallsOK(stack', validator, instance)
  BY <1>1, <1>3, <1>4, ReplaceCall
<1>6. UNCHANGED <<inputs, patch, errors, pc>>
  BY DEF ReportInside
<1> QED
  BY <1>1, <1>5, <1>6, StepOK DEF TInv

\* An error is told to the user.
LEMMA ReportToUserOK == ASSUME IInv, TInv, ReportToUser PROVE TInv'
<1>1. Reported \in Seq(Seq(Token)) /\ CallsOK(Proceed, validator, instance) /\ pc = "validating"
  BY ReportedOK DEF ReportToUser
<1>2. stack' = Proceed /\ errors' = errors \o Reported /\ UNCHANGED <<inputs, patch, pc>>
  BY DEF ReportToUser
<1>3. errors' \in Seq(Seq(Token))
  <2> DEFINE S == Seq(Token)
             r == Reported
  <2>1. errors \in Seq(S) /\ r \in Seq(S)
    BY <1>1 DEF TInv
  <2> HIDE DEF S, r
  <2>2. errors \o r \in Seq(S)
    BY <2>1
  <2> QED BY <1>2, <2>2 DEF S, r
<1> QED
  BY <1>1, <1>2, <1>3, StepOK DEF TInv

\* A handler or the JSON library throws.
LEMMA ThrowOK == ASSUME IInv, TInv, Throw \/ Raise PROVE TInv'
<1>1. stack' = <<>> /\ patch' = <<>> /\ pc' = "thrown" /\ UNCHANGED inputs
  BY DEF Throw, Raise
<1>2. errors' \in Seq(Seq(Token))
  <2>1. CASE Throw
    <3> DEFINE S == Seq(Token)
               x == Head(Reported)
    <3>1. x \in S /\ errors' = <<x>>
      BY <2>1, ReportedOK DEF Throw
    <3> HIDE DEF S, x
    <3>2. errors' \in Seq(S)
      BY <3>1
    <3> QED BY <3>2 DEF S
  <2>2. CASE Raise
    BY <2>2 DEF Raise, TInv
  <2> QED BY <2>1, <2>2
<1>3. CallsOK(stack', validator, instance) /\ Operations(patch') /\ Placed(patch', validator, instance)
  BY <1>1, Nothing
<1> QED
  BY <1>1, <1>2, <1>3, StepOK

\* A combination that some case satisfies.
LEMMA SatisfiedOK == ASSUME IInv, TInv, Satisfied PROVE TInv'
<1>1. pc = "validating" /\ Top.todo # <<>>
  BY DEF Satisfied, Steps
<1>2. CallsOK(Proceed, validator, instance)
  BY <1>1, ProceedOK
<1>3. stack' = Proceed /\ UNCHANGED <<inputs, patch, errors, pc>>
  BY DEF Satisfied
<1> QED
  BY <1>1, <1>2, <1>3, StepOK DEF TInv

\* A default value is added to the patch.
LEMMA AddDefaultOK == ASSUME IInv, TInv, AddDefault PROVE TInv'
<1> DEFINE x == [path |-> Task.path, value |-> Task.value]
<1>1. pc = "validating" /\ Top.todo # <<>> /\ Task.do = "add"
  BY DEF AddDefault, Steps
<1>2. TaskOK(Task, Top, validator, instance) /\ CallsOK(Proceed, validator, instance)
  BY <1>1, ProceedOK
<1>3. stack' = Proceed /\ UNCHANGED <<inputs, errors, pc>> /\ patch' = Append(patch, x)
  BY DEF AddDefault
<1>4. Operation(x) /\ (WellPlaced(validator) => AddsMissing(x.path, instance))
  BY <1>1, <1>2 DEF TaskOK, IsTask, Operation
<1>5. Operations(patch) /\ Placed(patch, validator, instance)
  BY <1>1 DEF TInv
<1> HIDE DEF x
<1>6. Sequence(patch') /\ Range(patch') = Range(patch) \cup {x}
  <2>1. /\ Sequence(patch') /\ Len(patch') = Len(patch) + 1 /\ Len(patch) \in Nat
        /\ \A i \in 1..Len(patch) : patch'[i] = patch[i]
        /\ patch'[Len(patch) + 1] = x
    BY <1>3, <1>5, Longer DEF Operations
  <2>2. DOMAIN patch' = 1..(Len(patch) + 1) /\ DOMAIN patch = 1..Len(patch)
    BY <1>5, <2>1, Elements DEF Operations
  <2> QED BY <2>1, <2>2 DEF Range
<1>7. Operations(patch') /\ Placed(patch', validator, instance)
  BY <1>4, <1>5, <1>6 DEF Operations, Placed
<1> QED
  BY <1>1, <1>2, <1>3, <1>7, StepOK DEF TInv

\* A call of another object.
LEMMA EnterOK == ASSUME IInv, TInv, Enter PROVE TInv'
<1> DEFINE f == Frame(Task)
<1>1. pc = "validating" /\ Top.todo # <<>> /\ Task.do = "call"
  BY DEF Enter, Steps
<1>2. /\ TaskOK(Task, Top, validator, instance) /\ CallsOK(Proceed, validator, instance)
      /\ Len(Proceed) = Len(stack) /\ Proceed # <<>> /\ SameCall(Proceed[Len(stack)], Top)
  BY <1>1, ProceedOK
<1>3. stack' = Append(Proceed, f) /\ UNCHANGED <<inputs, patch, errors, pc>>
  BY DEF Enter
<1>4. CallOK(Task, validator, instance) /\ (Task.via = "if" => Within(Task, Top))
  BY <1>1, <1>2 DEF TaskOK
<1>5. /\ SameCall(f, Task) /\ Fields \subseteq DOMAIN f
      /\ f.todo = Agenda(Task.role, Task.subs, Task.ptr, Task.inst)
      /\ f.errs = <<>> /\ f.count = 0 /\ f.summary = <<>> /\ f.mark = Len(patch)
  BY DEF Frame, SameCall, Fields
<1> HIDE DEF f
<1>6. CallOK(f, validator, instance)
  BY <1>4, <1>5 DEF CallOK, IsCall, SameCall
<1>7. TasksOK(f.todo, f, validator, instance)
  <2>1. TasksOK(Agenda(f.role, f.subs, f.ptr, f.inst), f, validator, instance)
    BY <1>6, AgendaOK DEF TInv
  <2> QED BY <1>5, <2>1 DEF SameCall
<1>8. Len(patch) \in Nat /\ <<>> \in Seq(Seq(Token))
  BY Elements, Nothing DEF TInv, Operations
<1>9. FrameOK(f, validator, instance)
  BY <1>5, <1>6, <1>7, <1>8 DEF FrameOK
<1>10. f.via = "if" => Within(f, Proceed[Len(Proceed)])
  BY <1>2, <1>4, <1>5 DEF SameCall, Within
<1>11. CallsOK(stack', validator, instance)
  BY <1>2, <1>3, <1>9, <1>10, PushCall
<1> QED
  BY <1>1, <1>3, <1>11, StepOK DEF TInv

\* A call returns, and its outcome does not matter.
LEMMA ReturnPlainOK == ASSUME IInv, TInv, ReturnPlain PROVE TInv'
<1>1. pc = "validating" /\ stack # <<>> /\ CallsOK(stack, validator, instance)
  BY DEF ReturnPlain, Returns, IInv, TInv
<1>2. /\ stack' = Front(stack) /\ UNCHANGED <<inputs, patch, errors>>
      /\ pc' = IF Len(stack) = 1 THEN "returned" ELSE pc
  BY DEF ReturnPlain, Suspended
<1>3. CallsOK(stack', validator, instance) /\ Len(stack') = Len(stack) - 1
  BY <1>1, <1>2, PopCall
<1>4. Len(stack') = 0 => stack' = <<>>
  <2>1. Sequence(stack')
    BY <1>3 DEF CallsOK
  <2> QED BY <2>1 DEF Sequence
<1> QED
  BY <1>1, <1>2, <1>3, <1>4, StepOK DEF TInv

\* The schema under "not" returns, and that of an additional property.
LEMMA ReturnNotOK == ASSUME IInv, TInv, ReturnNot \/ ReturnProperty PROVE TInv'
<1>1. /\ pc = "validating" /\ Top.via # "plain" /\ UNCHANGED patch
      /\ Prepend(Reject(~Failed, Top.ptr)) \/ Prepend(Reject(Failed, Caller.ptr))
  BY DEF ReturnNot, ReturnProperty, Returns
<1>2. Top.ptr \in Seq(Token) /\ Caller.ptr \in Seq(Token)
  BY <1>1, TopCall DEF FrameOK, CallOK, IsCall
<1>3. /\ TasksOK(Reject(~Failed, Top.ptr), Caller, validator, instance)
      /\ TasksOK(Reject(Failed, Caller.ptr), Caller, validator, instance)
  BY <1>2, RejectOK
<1> QED
  BY <1>1, <1>3, PrependOK

\* The schema under "contains" returns.
LEMMA ReturnContainsOK == ASSUME IInv, TInv, ReturnContains PROVE TInv'
<1> DEFINE f == IF Failed THEN Caller ELSE [Caller EXCEPT !.todo = <<>>]
<1>1. pc = "validating" /\ Top.via # "plain" /\ UNCHANGED patch /\ Resume(f)
  BY DEF ReturnContains, Returns
<1>2. FrameOK(Caller, validator, instance)
  BY <1>1, TopCall
<1>3. FrameOK(f, validator, instance) /\ SameCall(f, Caller)
  BY <1>2, FewTasks, EditCall
<1> HIDE DEF f
<1>4. CallsOK(stack', validator, instance) /\ UNCHANGED <<inputs, errors, pc>>
  BY <1>1, <1>3, ResumeOK
<1> QED
  BY <1>1, <1>4, StepOK DEF TInv

\* The condition returns: "then" or "else" is next, for the same value.
LEMMA ReturnIfOK == ASSUME IInv, TInv, ReturnIf PROVE TInv'
<1> DEFINE i == Caller.subs[1]
           j == IF Failed THEN graph[i].else ELSE graph[i].then
<1>1. /\ pc = "validating" /\ Top.via = "if" /\ UNCHANGED patch
      /\ Prepend(IfPresent(j, "plain", Top.ptr, Top.inst))
  BY DEF ReturnIf, Returns
<1>2. FrameOK(Caller, validator, instance) /\ Within(Top, Caller)
  BY <1>1, TopCall
<1>3. Asked(i, Top.ptr, Top.inst)
  <2>1. /\ Caller.subs \in Seq(DOMAIN graph) /\ Len(Caller.subs) = 1
        /\ Caller.ptr \in Seq(Token) /\ IsDocument(Caller.inst)
        /\ Somewhere(Caller.subs, Caller.ptr, Caller.inst, validator, instance)
    BY <1>2 DEF FrameOK, CallOK, IsCall, Within, graph
  <2>2. i \in DOMAIN graph /\ Caller.subs = <<i>>
    BY <2>1
  <2> QED BY <1>2, <2>1, <2>2 DEF Asked, Within, TInv
<1>4. j # 0 => Asked(j, Top.ptr, Top.inst)
  <2> SUFFICES ASSUME j # 0 PROVE Asked(j, Top.ptr, Top.inst)
    OBVIOUS
  <2>1. j \in Callees(graph[i]) \ {0}
    BY DEF Callees
  <2> HIDE DEF j, i
  <2> QED BY <1>3, <2>1, SameAsked
<1> HIDE DEF j
<1>5. TasksOK(IfPresent(j, "plain", Top.ptr, Top.inst), Caller, validator, instance)
  <2>1. "plain" \in Vias /\ Top.ptr \in Seq(Token) /\ IsDocument(Top.inst)
    BY <1>3 DEF Asked, Vias
  <2>2. j # 0 => j \in DOMAIN graph /\ Somewhere(<<j>>, Top.ptr, Top.inst, validator, instance)
    BY <1>4 DEF Asked
  <2> QED BY <2>1, <2>2, IfPresentOK DEF graph
<1> QED
  BY <1>1, <1>5, PrependOK

\* A case returns.
LEMMA ReturnCaseOK == ASSUME IInv, TInv, ReturnCase PROVE TInv'
<1> DEFINE count == IF Failed THEN Caller.count ELSE Caller.count + 1
           summary == Caller.summary \o Top.errs
           f == [Caller EXCEPT !.count = count, !.summary = summary]
           all == <<Errors(<<Head(Top.errs)>> \o Top.errs)>>
           one == Reject(TRUE, Top.ptr)
           g == CASE f.role = "allOf" /\ Failed -> [f EXCEPT !.todo = all]
                  [] f.role = "anyOf" /\ count = 1 -> [f EXCEPT !.todo = <<>>]
                  [] f.role = "oneOf" /\ count > 1 -> [f EXCEPT !.todo = one]
                  [] OTHER -> f
<1>1. /\ pc = "validating" /\ Top.via # "plain" /\ stack # <<>>
      /\ patch' = IF Failed THEN RolledBack ELSE patch
      /\ Resume(g)
  BY DEF ReturnCase, Returns, IInv
<1>2. /\ FrameOK(Caller, validator, instance) /\ Top.ptr \in Seq(Token)
      /\ Top.errs \in Seq(Seq(Token))
  BY <1>1, TopCall DEF FrameOK, CallOK, IsCall
<1>3. count \in Nat /\ summary \in Seq(Seq(Token))
  <2>1. Caller.count \in Nat /\ Caller.summary \in Seq(Seq(Token))
    BY <1>2 DEF FrameOK
  <2> DEFINE S == Seq(Token)
             a == Caller.summary
             b == Top.errs
  <2>2. a \in Seq(S) /\ b \in Seq(S)
    BY <1>2, <2>1
  <2> HIDE DEF S, a, b
  <2>3. a \o b \in Seq(S)
    BY <2>2
  <2> QED BY <2>1, <2>3 DEF S, a, b
<1>4. FrameOK(f, validator, instance) /\ SameCall(f, Caller)
  <2> HIDE DEF count, summary
  <2> QED BY <1>2, <1>3, EditCall
<1>5. Failed => TasksOK(all, f, validator, instance)
  <2> SUFFICES ASSUME Failed PROVE TasksOK(all, f, validator, instance)
    OBVIOUS
  <2> DEFINE S == Seq(Token)
             e == Top.errs
             paths == <<Head(e)>> \o e
             x == Errors(paths)
  <2>1. e \in Seq(S) /\ e # <<>>
    BY <1>2 DEF Failed
  <2>2. paths \in Seq(S) /\ paths # <<>>
    <3> HIDE DEF S, e
    <3> QED BY <2>1
  <2>3. x.do = "errors" /\ x.paths = paths
    BY DEF Errors
  <2> HIDE DEF x, paths, e, f
  <2>4. TaskOK(x, f, validator, instance)
    BY <2>2, <2>3 DEF TaskOK, IsTask
  <2>5. TasksOK(<<x>>, f, validator, instance)
    BY <2>4, FewTasks
  <2> QED BY <2>5 DEF x, paths, e
<1>6. TasksOK(one, f, validator, instance) /\ TasksOK(<<>>, f, validator, instance)
  <2> HIDE DEF f
  <2> QED BY <1>2, RejectOK, FewTasks
<1> HIDE DEF f, all, one, count
<1>7. FrameOK(g, validator, instance) /\ SameCall(g, f)
  BY <1>4, <1>5, <1>6, EditCall
<1> HIDE DEF g
<1>8. SameCall(g, Caller)
  BY <1>4, <1>7 DEF SameCall
<1>9. CallsOK(stack', validator, instance) /\ UNCHANGED <<inputs, errors, pc>>
  BY <1>1, <1>7, <1>8, ResumeOK
<1>10. Operations(patch') /\ Placed(patch', validator, instance)
  <2>1. Operations(patch) /\ Placed(patch, validator, instance)
    BY <1>1 DEF TInv
  <2>2. ASSUME Failed PROVE Sequence(RolledBack) /\ Range(RolledBack) \subseteq Range(patch)
    <3> DEFINE m == Top.mark
    <3>1. m \in 0..Len(patch) /\ Sequence(patch)
      <4>1. Len(stack) \in 1..Len(stack)
        BY <1>1, PopFrame DEF IInv
      <4> QED BY <4>1 DEF IInv, Nested, Top, Last
    <3> DEFINE r == SubSeq(patch, 1, m)
    <3>2. RolledBack = r
      BY DEF RolledBack
    <3> HIDE DEF m
    <3>3. /\ Sequence(r) /\ Len(r) = m /\ Len(patch) \in Nat
          /\ \A k \in 1..m : r[k] = patch[k]
      BY <3>1, Shorter
    <3>4. DOMAIN r = 1..m /\ DOMAIN patch = 1..Len(patch)
      <4> HIDE DEF r
      <4> QED BY <3>1, <3>3, Elements
    <3> HIDE DEF r
    <3>5. Range(r) \subseteq Range(patch)
      BY <3>1, <3>3, <3>4 DEF Range
    <3> QED BY <3>2, <3>3, <3>5
  <2> QED BY <1>1, <2>1, <2>2 DEF Operations, Placed
<1> QED
  BY <1>1, <1>9, <1>10, StepOK DEF TInv

\* A validation begins.
LEMMA ValidateOK == ASSUME IInv, TInv, Validate PROVE TInv'
<1> DEFINE f == [via |-> "plain", role |-> "root", subs |-> Entry, ptr |-> <<>>,
                 inst |-> instance, todo |-> Agenda("root", Entry, <<>>, instance),
                 errs |-> <<>>, count |-> 0, summary |-> <<>>, mark |-> 0, was |-> <<>>]
<1>1. /\ patch' = <<>> /\ errors' = <<>> /\ pc' = "validating" /\ stack' = <<f>>
      /\ UNCHANGED inputs
  BY DEF Validate
<1>2. /\ Fields \subseteq DOMAIN f /\ f.via = "plain" /\ f.role = "root" /\ f.subs = Entry
      /\ f.ptr = <<>> /\ f.inst = instance /\ f.todo = Agenda("root", Entry, <<>>, instance)
      /\ f.errs = <<>> /\ f.count = 0 /\ f.summary = <<>> /\ f.mark = 0
  BY DEF Fields
<1> HIDE DEF f
<1>3. IsDocument(instance) /\ validator \in Corpus
  BY DEF TInv
<1>4. CallOK(f, validator, instance)
  <2>1. Entry \in Seq(DOMAIN graph)
    <3>1. CASE validator.rooted /\ validator.initial \in DOMAIN validator.entries
      <4>1. validator.entries[validator.initial] \in DOMAIN graph
        BY <1>3, <3>1, SchemaObjects
      <4> QED BY <3>1, <4>1, Single DEF Entry
    <3>2. CASE ~(validator.rooted /\ validator.initial \in DOMAIN validator.entries)
      <4>1. \A S : <<>> \in Seq(S)
        OBVIOUS
      <4>2. Entry = <<>>
        BY <3>2 DEF Entry
      <4> HIDE DEF Entry
      <4> QED BY <4>1, <4>2
    <3> QED BY <3>1, <3>2
  <2>2. <<>> \in Seq(Token) /\ "plain" \in Vias /\ "root" \in Roles
    BY DEF Vias, Roles
  <2>3. <<>> \in DOMAIN instance /\ instance = Subtree(instance, <<>>)
    <3>1. IsTree(instance, Token, Node) /\ IsMapping(instance) /\ <<>> \in DOMAIN instance
      BY <1>3, DocumentTree
    <3>2. Subtree(instance, <<>>) = instance
      BY <3>1, SubtreeWhole, SMT
    <3> QED BY <3>1, <3>2
  <2> HIDE DEF Entry
  <2> QED BY <1>2, <1>3, <2>1, <2>2, <2>3 DEF CallOK, IsCall, Somewhere, graph
<1>5. TasksOK(f.todo, f, validator, instance)
  <2>1. TasksOK(Agenda(f.role, f.subs, f.ptr, f.inst), f, validator, instance)
    BY <1>3, <1>4, AgendaOK
  <2> QED BY <1>2, <2>1
<1>6. FrameOK(f, validator, instance)
  BY <1>2, <1>4, <1>5, Nothing DEF FrameOK
<1>7. CallsOK(stack', validator, instance)
  <2> DEFINE s == <<f>>
  <2>1. Sequence(s) /\ Len(s) = 1 /\ s[1] = f
    BY Short
  <2> HIDE DEF s
  <2>2. CallsOK(s, validator, instance)
    BY <1>6, <2>1 DEF CallsOK
  <2> QED BY <1>1, <2>2 DEF s
<1> QED
  BY <1>1, <1>7, Nothing, StepOK
-----------------------------------------------------------------------------
(***************************************************************************)
(* The caller applies the patch.                                           *)
(***************************************************************************)

\* What is above a value of a document is in the document.
LEMMA Above ==
  ASSUME NEW t, IsDocument(t), NEW q \in DOMAIN t, NEW p \in Seq(Token), IsPrefix(p, q)
  PROVE  p \in DOMAIN t
<1> DEFINE N == Len(q)
           b == N - Len(p)
           S == {n \in 0..N : SubSeq(q, 1, N - n) \in DOMAIN t}
<1>1. /\ q \in Seq(Token) /\ Sequence(q) /\ N \in Nat /\ Len(p) \in Nat /\ Len(p) <= N
      /\ SubSeq(q, 1, N) = q /\ SubSeq(p, 1, Len(p)) = p
      /\ SubSeq(p, 1, Len(p)) = SubSeq(q, 1, Len(p))
  <2>1. q \in Seq(Token)
    BY DocumentTree
  <2>2. Sequence(q)
    BY <2>1, IsSequence
  <2> QED BY <2>1, <2>2, SubSeqFull DEF IsPrefix
<1>2. 0 \in S
  <2>1. q \in DOMAIN t /\ N \in Nat /\ SubSeq(q, 1, N) = q
    BY <1>1
  <2> HIDE DEF N
  <2>2. N - 0 = N /\ 0 \in 0..N
    BY <2>1
  <2> QED BY <2>1, <2>2
<1>3. ASSUME NEW n \in 0..(b - 1), n \in S PROVE n + 1 \in S
  <2> DEFINE m == N - n
             r == SubSeq(q, 1, m)
  <2>1. r \in DOMAIN t /\ m \in 0..N /\ m # 0 /\ n + 1 \in 0..N /\ m - 1 = N - (n + 1)
        /\ m - 1 \in 0..m /\ m - 1 \in 0..N
    <3>1. SubSeq(q, 1, N - n) \in DOMAIN t
      BY <1>3
    <3>2. N \in Nat /\ Len(p) \in Nat /\ Len(p) <= N /\ n \in 0..(N - Len(p) - 1)
      BY <1>1, <1>3
    <3> HIDE DEF N
    <3> QED BY <3>1, <3>2
  <2> HIDE DEF m
  <2>2. Len(r) = m /\ SubSeq(r, 1, m - 1) = SubSeq(q, 1, m - 1)
    <3> HIDE DEF N
    <3>1. m \in 0..Len(q) /\ m - 1 \in 0..m
      BY <2>1 DEF N
    <3> QED BY <1>1, <3>1, Shorter, CutTwice
  <2> HIDE DEF r
  <2>3. r # <<>>
    BY <2>1, <2>2
  <2>4. Front(r) \in DOMAIN t
    BY <2>1, <2>3, DocumentTree
  <2>5. Front(r) = SubSeq(q, 1, N - (n + 1))
    BY <2>1, <2>2 DEF Front
  <2> QED BY <2>1, <2>4, <2>5
<1>4. b \in 0..N /\ N - b = Len(p)
  BY <1>1
<1> HIDE DEF S, b, N
<1>5. b \in Nat /\ 0 \in Nat
  BY <1>1, <1>4
<1>6. 0..b \subseteq S
  BY <1>2, <1>3, <1>5, UpTo
<1>7. SubSeq(q, 1, N - b) \in DOMAIN t
  BY <1>5, <1>6 DEF S
<1> QED
  BY <1>1, <1>4, <1>7

\* The recursive function of States.
IsStates(d, t, ops) ==
  d = [n \in 0..Len(ops) |-> IF n = 0 THEN t ELSE Graft(d[n - 1], ops[n].path, ops[n].value)]

\* The document after each operation.
LEMMA StatesRule ==
  ASSUME NEW t, IsDocument(t), NEW ops, Operations(ops)
  PROVE  /\ Len(ops) \in Nat /\ \A n \in 1..Len(ops) : Operation(ops[n])
         /\ \A n \in 0..Len(ops) :
              States(t, ops)[n]
                = IF n = 0 THEN t ELSE Graft(States(t, ops)[n - 1], ops[n].path, ops[n].value)
<1> DEFINE N == Len(ops)
           X == UNION {[D -> Node] : D \in SUBSET Seq(Token)}
           step == [n \in (0 + 1)..N |-> [v \in X |-> Graft(v, ops[n].path, ops[n].value)]]
<1>1. N \in Nat /\ \A n \in 1..N : Operation(ops[n])
  BY Elements DEF Operations
<1>2. \A v \in X : IsTree(v, Token, Node)
  BY DEF IsTree
<1>3. \A v : IsTree(v, Token, Node) /\ IsMapping(v) => v \in X
  BY DEF IsTree, IsMapping
<1>4. t \in X
  BY <1>3, DocumentTree
<1> HIDE DEF X
<1>5. ASSUME NEW n \in 1..N, NEW v \in X PROVE Graft(v, ops[n].path, ops[n].value) \in X
  <2> DEFINE p == ops[n].path
             s == ops[n].value
             g == Graft(v, p, s)
  <2>1. IsTree(v, Token, Node) /\ IsTree(s, Token, Node) /\ p \in Seq(Token)
    BY <1>1, <1>2, DocumentTree DEF Operation
  <2> HIDE DEF p, s
  <2>2. IsTree(g, Token, Node)
    BY <2>1, GraftType, Zenon
  <2>3. IsMapping(g)
    BY <2>1, GraftNodes, Zenon
  <2> QED BY <1>3, <2>2, <2>3 DEF p, s
<1>6. step \in [(0 + 1)..N -> [X -> X]]
  BY <1>5
<1>7. \E d : IsStates(d, t, ops)
  <2> HIDE DEF step, N
  <2>1. PICK d \in [0..N -> X] : Recursive(d, 0, N, t, step)
    <3>1. 0 \in Nat /\ 0 <= N
      BY <1>1
    <3> QED BY <1>1, <1>4, <1>6, <3>1, Recursion
  <2>2. \A n \in 0..N : d[n] = IF n = 0 THEN t ELSE step[n][d[n - 1]]
    BY <2>1 DEF Recursive
  <2>3. ASSUME NEW n \in 0..N
        PROVE  d[n] = IF n = 0 THEN t ELSE Graft(d[n - 1], ops[n].path, ops[n].value)
    <3>1. CASE n = 0
      BY <2>2, <3>1
    <3>2. CASE n # 0
      <4>1. n \in (0 + 1)..N /\ d[n - 1] \in X
        BY <1>1, <2>1, <3>2
      <4>2. step[n][d[n - 1]] = Graft(d[n - 1], ops[n].path, ops[n].value)
        BY <4>1 DEF step
      <4> QED BY <2>2, <3>2, <4>2
    <3> QED BY <3>1, <3>2
  <2>4. d = [n \in 0..N |-> IF n = 0 THEN t ELSE Graft(d[n - 1], ops[n].path, ops[n].value)]
    BY <2>1, <2>3
  <2>5. IsStates(d, t, ops)
    BY <2>4 DEF IsStates, N
  <2> QED BY <2>5
<1> DEFINE d == CHOOSE doc : IsStates(doc, t, ops)
<1>8. IsStates(d, t, ops)
  BY <1>7
<1>9. States(t, ops) = d
  BY DEF States, IsStates
<1> HIDE DEF d
<1>10. \A n \in 0..N : d[n] = IF n = 0 THEN t ELSE Graft(d[n - 1], ops[n].path, ops[n].value)
  BY <1>8 DEF IsStates
<1> QED
  BY <1>1, <1>9, <1>10

\* Operations that can all be applied give a document.
LEMMA PatchedDocument ==
  ASSUME NEW t, IsDocument(t), NEW ops, Operations(ops), AllAppliable(t, ops)
  PROVE  \A n \in 0..Len(ops) : IsDocument(States(t, ops)[n])
<1> DEFINE d == States(t, ops)
           N == Len(ops)
           S == {n \in 0..N : IsDocument(d[n])}
<1>1. /\ N \in Nat /\ \A n \in 1..N : Operation(ops[n])
      /\ \A n \in 0..N : d[n] = IF n = 0 THEN t ELSE Graft(d[n - 1], ops[n].path, ops[n].value)
  BY StatesRule
<1>2. \A n \in 1..N : Appliable(d[n - 1], ops[n])
  BY Elements DEF AllAppliable, Operations
<1> HIDE DEF d, N
<1>3. 0 \in S
  BY <1>1
<1>4. ASSUME NEW n \in 0..(N - 1), n \in S PROVE n + 1 \in S
  <2> DEFINE m == n + 1
  <2>1. m \in 1..N /\ m \in 0..N /\ m # 0 /\ m - 1 = n
    BY <1>1
  <2> HIDE DEF m
  <2>2. /\ d[m] = Graft(d[n], ops[m].path, ops[m].value) /\ Operation(ops[m])
        /\ Appliable(d[n], ops[m]) /\ IsDocument(d[n])
    BY <1>1, <1>2, <1>4, <2>1
  <2>3. IsDocument(d[m])
    BY <2>2, GraftDocument
  <2> QED BY <2>1, <2>3 DEF m
<1> HIDE DEF S
<1>5. 0..N \subseteq S
  BY <1>1, <1>3, <1>4, UpTo
<1> QED
  BY <1>5 DEF S, d, N

\* Operations that only add what is missing keep what is present.
LEMMA PatchedKeeps ==
  ASSUME NEW t, IsDocument(t), ~IsNull(t), NEW ops, Operations(ops), AllAppliable(t, ops),
         \A x \in Range(ops) : AddsMissing(x.path, t), NEW q \in DOMAIN t
  PROVE  q \in DOMAIN Patched(t, ops) /\ Patched(t, ops)[q] = t[q]
<1> DEFINE d == States(t, ops)
           N == Len(ops)
           S == {n \in 0..N : q \in DOMAIN d[n] /\ d[n][q] = t[q]}
<1>1. /\ N \in Nat /\ \A n \in 1..N : Operation(ops[n])
      /\ \A n \in 0..N : d[n] = IF n = 0 THEN t ELSE Graft(d[n - 1], ops[n].path, ops[n].value)
  BY StatesRule
<1>2. \A n \in 0..N : IsDocument(d[n])
  BY PatchedDocument
<1>3. \A n \in 1..N : AddsMissing(ops[n].path, t)
  BY Elements DEF Operations
<1> HIDE DEF d, N
<1>4. 0 \in S
  BY <1>1
<1>5. ASSUME NEW n \in 0..(N - 1), n \in S PROVE n + 1 \in S
  <2> DEFINE m == n + 1
  <2>1. m \in 1..N /\ m \in 0..N /\ m # 0 /\ m - 1 = n /\ n \in 0..N
    BY <1>1
  <2> HIDE DEF m
  <2> DEFINE p == ops[m].path
             s == ops[m].value
             v == d[n]
  <2>2. d[m] = Graft(v, p, s) /\ Operation(ops[m]) /\ IsDocument(v) /\ AddsMissing(p, t)
    BY <1>1, <1>2, <1>3, <2>1
  <2>3. IsTree(v, Token, Node) /\ IsTree(s, Token, Node) /\ p \in Seq(Token)
    BY <2>2, DocumentTree DEF Operation
  <2>4. ~IsPrefix(p, q)
    <3>1. p \notin DOMAIN t
      BY <2>2 DEF AddsMissing
    <3> HIDE DEF p
    <3> QED BY <2>3, <3>1, Above
  <2>5. q \in DOMAIN v /\ v[q] = t[q]
    BY <1>5
  <2> HIDE DEF p, s, v
  <2> DEFINE g == Graft(v, p, s)
  <2>6. /\ \A x : x \in DOMAIN g <=> \/ x \in DOMAIN v /\ ~IsPrefix(p, x)
                                    \/ \E r \in DOMAIN s : x = p \o r
        /\ \A x \in DOMAIN v : ~IsPrefix(p, x) => g[x] = v[x]
        /\ \A r \in DOMAIN s : g[p \o r] = s[r]
        /\ IsMapping(g)
    BY <2>3, GraftNodes, Zenon
  <2> HIDE DEF g
  <2>7. q \in DOMAIN g /\ g[q] = t[q]
    BY <2>4, <2>5, <2>6
  <2> QED BY <2>1, <2>2, <2>7 DEF m, g
<1> HIDE DEF S
<1>6. 0..N \subseteq S
  BY <1>1, <1>4, <1>5, UpTo
<1>7. N \in S
  BY <1>1, <1>6
<1> QED
  BY <1>7 DEF S, Patched, d, N

\* The step.
LEMMA ApplyPatchOK ==
  ASSUME IInv, TInv, ApplyPatch
  PROVE  /\ TInv'
         /\ WellPlaced(validator) /\ ~IsNull(instance) =>
              \A p \in DOMAIN instance : p \in DOMAIN instance' /\ instance'[p] = instance[p]
<1>1. /\ pc = "returned" /\ UNCHANGED <<validator, throwing, stack, patch, errors>>
      /\ IF AllAppliable(instance, patch)
         THEN instance' = Patched(instance, patch) /\ pc' = "idle"
         ELSE instance' = instance /\ pc' = "unpatchable"
  BY DEF ApplyPatch
<1>2. /\ stack = <<>> /\ Operations(patch) /\ Placed(patch, validator, instance)
      /\ IsDocument(instance)
  BY <1>1 DEF TInv
<1>3. IsDocument(instance')
  <2>1. CASE AllAppliable(instance, patch)
    <3>1. Len(patch) \in Nat
      BY <1>2, Elements DEF Operations
    <3>2. IsDocument(States(instance, patch)[Len(patch)])
      BY <1>2, <2>1, <3>1, PatchedDocument
    <3> QED BY <1>1, <2>1, <3>2 DEF Patched
  <2>2. CASE ~AllAppliable(instance, patch)
    BY <1>1, <1>2, <2>2
  <2> QED BY <2>1, <2>2
<1>4. CallsOK(stack', validator', instance')
  <2> DEFINE t == instance'
  <2> HIDE DEF t
  <2>1. CallsOK(<<>>, validator, t)
    BY Nothing
  <2> QED BY <1>1, <1>2, <2>1 DEF t
<1>5. TInv'
  BY <1>1, <1>2, <1>3, <1>4 DEF TInv
<1>6. ASSUME WellPlaced(validator), ~IsNull(instance), NEW p \in DOMAIN instance
      PROVE  p \in DOMAIN instance' /\ instance'[p] = instance[p]
  <2>1. CASE AllAppliable(instance, patch)
    <3>1. p \in DOMAIN Patched(instance, patch) /\ Patched(instance, patch)[p] = instance[p]
      BY <1>2, <1>6, <2>1, PatchedKeeps DEF Placed
    <3> QED BY <1>1, <2>1, <3>1
  <2>2. CASE ~AllAppliable(instance, patch)
    BY <1>1, <2>2
  <2> QED BY <2>1, <2>2
<1> QED
  BY <1>5, <1>6
-----------------------------------------------------------------------------
(***************************************************************************)
(* The theorems.                                                           *)
(***************************************************************************)

\* The invariant is inductive.
LEMMA TypesInductive == IInv /\ TInv /\ [Next]_vars => TInv'
<1> SUFFICES ASSUME IInv, TInv, [Next]_vars PROVE TInv'
  OBVIOUS
<1>1. CASE Validate
  BY <1>1, ValidateOK
<1>2. CASE ReportInside
  BY <1>2, ReportInsideOK
<1>3. CASE ReportToUser
  BY <1>3, ReportToUserOK
<1>4. CASE Throw \/ Raise
  BY <1>4, ThrowOK
<1>5. CASE Satisfied
  BY <1>5, SatisfiedOK
<1>6. CASE AddDefault
  BY <1>6, AddDefaultOK
<1>7. CASE Enter
  BY <1>7, EnterOK
<1>8. CASE ReturnPlain
  BY <1>8, ReturnPlainOK
<1>9. CASE ReturnNot \/ ReturnProperty
  BY <1>9, ReturnNotOK
<1>10. CASE ReturnContains
  BY <1>10, ReturnContainsOK
<1>11. CASE ReturnIf
  BY <1>11, ReturnIfOK
<1>12. CASE ReturnCase
  BY <1>12, ReturnCaseOK
<1>13. CASE ApplyPatch
  BY <1>13, ApplyPatchOK
<1>14. CASE UNCHANGED vars
  BY <1>14 DEF vars, TInv
<1> QED
  BY <1>1, <1>2, <1>3, <1>4, <1>5, <1>6, <1>7, <1>8, <1>9, <1>10, <1>11, <1>12, <1>13, <1>14
  DEF Next, Validating, Stop

\* The invariant holds in every reachable state.
LEMMA TypesInvariant == Spec => [](IInv /\ TInv)
<1>1. Init => TInv
  <2> SUFFICES ASSUME Init PROVE TInv
    OBVIOUS
  <2>1. validator.handlers \subseteq BOOLEAN /\ \A t \in validator.instances : IsDocument(t)
    BY CorpusAssumption DEF Init
  <2>2. /\ CallsOK(<<>>, validator, instance) /\ Operations(<<>>)
        /\ <<>> \in Seq(Seq(Token))
    BY Nothing
  <2> QED BY <2>1, <2>2 DEF Init, TInv
<1>2. IInv /\ TInv /\ [Next]_vars => TInv'
  BY TypesInductive
<1> QED
  BY <1>1, <1>2, Invariant, PTL DEF Spec

\* The variables keep their types: among others, every patch has documents as
\* values, every call of a running validation is for a document and for schemas of
\* the validator, and applying patches gives documents again.
THEOREM TypeCorrect == Spec => []TypeOK
<1>1. IInv /\ TInv => TypeOK
  <2> SUFFICES ASSUME IInv, TInv PROVE TypeOK
    OBVIOUS
  <2>1. \A i \in DOMAIN patch : Operation(patch[i])
    BY DEF TInv, Operations, Range
  <2>2. pc = "validating" <=> stack # <<>>
    BY DEF IInv, TInv
  <2>3. ASSUME NEW k \in DOMAIN stack
        PROVE  LET f == stack[k] IN
               /\ IsCall(f, DOMAIN graph) /\ f.count \in Nat /\ f.mark \in Nat
               /\ f.errs \in Seq(Seq(Token)) /\ f.summary \in Seq(Seq(Token))
               /\ \A i \in DOMAIN f.todo : IsTask(f.todo[i], DOMAIN graph)
    <3> DEFINE f == stack[k]
    <3>1. CallsOK(stack, validator, instance)
      BY DEF TInv
    <3>2. k \in 1..Len(stack)
      BY <3>1, Elements DEF CallsOK
    <3>3. FrameOK(f, validator, instance)
      BY <3>1, <3>2 DEF CallsOK
    <3> HIDE DEF f
    <3>4. \A i \in DOMAIN f.todo : IsTask(f.todo[i], DOMAIN graph)
      BY <3>3 DEF FrameOK, TasksOK, TaskOK, Range, graph
    <3>5. IsCall(f, DOMAIN graph) /\ f.count \in Nat /\ f.mark \in Nat
          /\ f.errs \in Seq(Seq(Token)) /\ f.summary \in Seq(Seq(Token))
      BY <3>3 DEF FrameOK, CallOK, graph
    <3> QED BY <3>4, <3>5 DEF f
  <2> QED BY <2>1, <2>2, <2>3 DEF TypeOK, TInv
<1> QED
  BY <1>1, TypesInvariant, PTL

\* The validator stays the one of the first state.
LEMMA SameValidator == IInv /\ TInv /\ [Next]_vars => validator' = validator
  BY DEF Next, Validating, Validate, ReportInside, ReportToUser, Throw, Raise, Satisfied,
         AddDefault, Enter, ReturnPlain, ReturnNot, ReturnProperty, ReturnContains, ReturnIf,
         ReturnCase, Prepend, Resume, ApplyPatch, Stop, inputs, vars

\* Where no schema with a default value is given a wrong path, a patch only adds
\* what the instance lacks: a property of an object of it, or an empty document.
THEOREM OnlyMissingAdded == Spec /\ WellPlaced(validator) => []AddsOnlyMissing
<1>1. IInv /\ TInv /\ WellPlaced(validator) => AddsOnlyMissing
  BY DEF TInv, Placed, AddsOnlyMissing, Range
<1>2. IInv /\ TInv /\ WellPlaced(validator) /\ [Next]_vars => WellPlaced(validator)'
  BY SameValidator
<1> QED
  BY <1>1, <1>2, TypesInvariant, PTL DEF Spec

\* The caller who applies such patches keeps every value of the document, however
\* often the document is validated and patched.
THEOREM PresentKept == Spec /\ WellPlaced(validator) => KeepsPresent
<1> DEFINE A == IsNull(instance) \/ \A p \in DOMAIN instance :
                                       p \in DOMAIN instance' /\ instance'[p] = instance[p]
<1>1. IInv /\ TInv /\ WellPlaced(validator) /\ [Next]_vars => [A]_vars
  <2> SUFFICES ASSUME IInv, TInv, WellPlaced(validator), Next PROVE A
    BY DEF A
  <2>1. CASE ApplyPatch
    BY <2>1, ApplyPatchOK
  <2>2. CASE ~ApplyPatch
    <3>1. instance' = instance
      BY <2>2 DEF Next, Validating, Validate, ReportInside, ReportToUser, Throw, Raise, Satisfied,
         AddDefault, Enter, ReturnPlain, ReturnNot, ReturnProperty, ReturnContains, ReturnIf,
         ReturnCase, Prepend, Resume, Stop, inputs, vars
    <3> QED BY <3>1
  <2> QED BY <2>1, <2>2
<1>2. IInv /\ TInv /\ WellPlaced(validator) /\ [Next]_vars => WellPlaced(validator)'
  BY SameValidator
<1> QED
  BY <1>1, <1>2, TypesInvariant, PTL DEF Spec, KeepsPresent
=============================================================================
