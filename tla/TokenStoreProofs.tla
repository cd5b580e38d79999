-------------------------- MODULE TokenStoreProofs --------------------------
(***************************************************************************)
(* RefreshInv of TokenStore, for any number of calls, tokens and versions. *)
(***************************************************************************)
EXTENDS TokenStore, TLAPS

\* What the invariant says of one call by itself.
CallOK(k) ==
    /\ k \in Call
    /\ k.pc \notin {"idle", "done", "select"} => k.attempts < MaxFailures

\* The part of the invariant that concerns the types and the counters.
Shape == TypeOK /\ LimitsInv

LEMMA NoCredentialsType == NoCredentials \in Credentials
BY BoundsAssumption DEF NoCredentials, Credentials

LEMMA AtOK ==
    ASSUME NEW pc \in Steps, NEW kind \in Kinds, NEW cr \in Credentials,
           NEW n \in 0 .. MaxFailures,
           pc \notin {"idle", "done", "select"} => n < MaxFailures
    PROVE  /\ CallOK(At(pc, kind, cr, n))
           /\ At(pc, kind, cr, n).pc = pc
           /\ At(pc, kind, cr, n).kind = kind
           /\ At(pc, kind, cr, n).cred = cr
BY DEF CallOK, Call, At

LEMMA DoneOK == CallOK(Idle) /\ CallOK(Done) /\ Idle.pc = "idle" /\ Done.pc = "done"
<1>1. 0 \in 0 .. MaxFailures /\ "idle" \in Steps /\ "done" \in Steps /\ "request" \in Kinds
  BY BoundsAssumption DEF Steps, Kinds
<1> QED
  BY <1>1, AtOK, NoCredentialsType DEF Idle, Done

\* The calls after one of them was replaced.
LEMMA SetCall ==
    ASSUME Shape, NEW c \in Calls, NEW k, CallOK(k), call' = [call EXCEPT ![c] = k]
    PROVE  /\ call' \in [Calls -> Call]
           /\ \A d \in Calls : CallOK(call'[d])
           /\ call'[c] = k
           /\ \A d \in Calls : d # c => call'[d] = call[d]
<1>1. call \in [Calls -> Call] /\ \A d \in Calls : CallOK(call[d])
  BY DEF Shape, TypeOK, LimitsInv, CallOK
<1>2. k \in Call
  BY DEF CallOK
<1> QED
  BY <1>1, <1>2

\* What the invariant gives about one call.
LEMMA CallType ==
    ASSUME Shape, NEW c \in Calls
    PROVE  /\ CallOK(call[c]) /\ call[c].pc \in Steps /\ call[c].kind \in Kinds
           /\ call[c].cred \in Credentials /\ call[c].attempts \in 0 .. MaxFailures
BY DEF Shape, TypeOK, LimitsInv, CallOK, Call

\* Goto, Proceed, Return and Start replace the call by a sound one.
LEMMA GotoCall ==
    ASSUME Shape, NEW c \in Calls, NEW pc \in Steps, NEW cr \in Credentials, Goto(c, pc, cr),
           pc = "select" \/ call[c].pc \notin {"idle", "done", "select"}
             \/ call[c].attempts < MaxFailures
    PROVE  /\ call' \in [Calls -> Call]
           /\ \A d \in Calls : CallOK(call'[d])
           /\ call'[c].pc = pc /\ call'[c].kind = call[c].kind /\ call'[c].cred = cr
           /\ \A d \in Calls : d # c => call'[d] = call[d]
<1>1. /\ CallOK(call[c]) /\ call[c].kind \in Kinds /\ call[c].attempts \in 0 .. MaxFailures
  BY CallType
<1>2. pc \notin {"idle", "done", "select"} => call[c].attempts < MaxFailures
  BY <1>1 DEF CallOK
<1> DEFINE k == At(pc, call[c].kind, cr, call[c].attempts)
<1>3. CallOK(k) /\ k.pc = pc /\ k.kind = call[c].kind /\ k.cred = cr
  BY <1>1, <1>2, AtOK
<1>4. call' = [call EXCEPT ![c] = k]
  BY DEF Goto
<1> HIDE DEF k
<1> QED
  BY <1>3, <1>4, SetCall

LEMMA ReturnCall ==
    ASSUME Shape, NEW c \in Calls, Return(c)
    PROVE  /\ call' \in [Calls -> Call]
           /\ \A d \in Calls : CallOK(call'[d])
           /\ call'[c].pc = "done"
           /\ \A d \in Calls : d # c => call'[d] = call[d]
<1>1. call' = [call EXCEPT ![c] = Done]
  BY DEF Return
<1> QED
  BY <1>1, DoneOK, SetCall

LEMMA StartCall ==
    ASSUME Shape, NEW c \in Calls, NEW pc \in Steps, NEW kind \in Kinds,
           NEW cr \in Credentials, Start(c, kind, pc, cr)
    PROVE  /\ call' \in [Calls -> Call]
           /\ \A d \in Calls : CallOK(call'[d])
           /\ call[c].pc = "idle" /\ call'[c].pc = pc
           /\ \A d \in Calls : d # c => call'[d] = call[d]
<1>1. 0 \in 0 .. MaxFailures /\ 0 < MaxFailures
  BY BoundsAssumption
<1> DEFINE k == At(pc, kind, cr, 0)
<1>2. CallOK(k) /\ k.pc = pc
  BY <1>1, AtOK
<1>3. call' = [call EXCEPT ![c] = k] /\ call[c].pc = "idle"
  BY DEF Start
<1> HIDE DEF k
<1> QED
  BY <1>2, <1>3, SetCall
-----------------------------------------------------------------------------
\* The common case of the step proofs: call c moves to a place where it holds no
\* token that matters, and no token in use is taken away.
LEMMA QuietMove ==
    ASSUME RefreshInv, NEW c \in Calls,
           \A d \in Calls : d # c => call'[d] = call[d],
           call'[c].pc \notin {"sent", "answered", "invalid", "compare", "reload"},
           lock' = lock \/ lock = c,
           harm \subseteq harm', valid \subseteq valid',
           \/ cred'.rt = cred.rt /\ call[c].pc # "answered"
           \/ "lost" \notin harm' => cred'.rt \in valid'
    PROVE  LockInv' /\ LiveInv'
<1>1. LockInv'
  BY DEF RefreshInv, LockInv
<1>2. ASSUME "lost" \notin harm'
      PROVE  /\ (\A d \in Calls : call'[d].pc # "answered") => cred'.rt \in valid'
             /\ \A d \in Calls :
                  /\ call'[d].pc = "answered" => call'[d].cred.rt \in valid'
                  /\ call'[d].pc = "sent" /\ call'[d].kind # "force" => call'[d].cred.rt \in valid'
                  /\ call'[d].pc \notin {"invalid", "compare", "reload"}
  <2>1. /\ (\A d \in Calls : call[d].pc # "answered") => cred.rt \in valid
        /\ \A d \in Calls :
             /\ call[d].pc = "answered" => call[d].cred.rt \in valid
             /\ call[d].pc = "sent" /\ call[d].kind # "force" => call[d].cred.rt \in valid
             /\ call[d].pc \notin {"invalid", "compare", "reload"}
    BY <1>2 DEF RefreshInv, LiveInv
  <2>2. ASSUME \A d \in Calls : call'[d].pc # "answered"
        PROVE  cred'.rt \in valid'
    <3>1. CASE "lost" \notin harm' => cred'.rt \in valid'
      BY <3>1, <1>2
    <3>2. CASE cred'.rt = cred.rt /\ call[c].pc # "answered"
      <4>1. \A d \in Calls : call[d].pc # "answered"
        BY <2>2, <3>2
      <4> QED
        BY <4>1, <2>1, <3>2
    <3> QED
      BY <3>1, <3>2
  <2>3. ASSUME NEW d \in Calls
        PROVE  /\ call'[d].pc = "answered" => call'[d].cred.rt \in valid'
               /\ call'[d].pc = "sent" /\ call'[d].kind # "force" => call'[d].cred.rt \in valid'
               /\ call'[d].pc \notin {"invalid", "compare", "reload"}
    <3>1. CASE d = c
      BY <3>1
    <3>2. CASE d # c
      BY <3>2, <2>1
    <3> QED
      BY <3>1, <3>2
  <2> QED
    BY <2>2, <2>3
<1>3. LiveInv'
  BY <1>2 DEF LiveInv
<1> QED
  BY <1>1, <1>3

\* The types and counters after a step, once the calls are known to be sound.
LEMMA ShapeNext ==
    ASSUME call' \in [Calls -> Call], \A d \in Calls : CallOK(call'[d]),
           cred' \in Credentials, reason' \in Reasons, failures' \in 0 .. MaxFailures,
           reason' = "None" => failures' < MaxFailures,
           file' \in [cred : Credentials, disabled : BOOLEAN], lock' \in Calls \cup {None},
           issued' \in 0 .. MaxIssued, valid' \subseteq 0 .. issued', now' \in 0 .. issued',
           versions' \in 0 .. MaxVersions, harm' \subseteq {"lost", "behind"}
    PROVE  Shape'
BY DEF Shape, TypeOK, LimitsInv, CallOK

\* What the shape says of the variables other than the calls.
LEMMA ShapeNow ==
    ASSUME Shape
    PROVE  /\ cred \in Credentials /\ reason \in Reasons /\ failures \in 0 .. MaxFailures
           /\ reason = "None" => failures < MaxFailures
           /\ file \in [cred : Credentials, disabled : BOOLEAN] /\ lock \in Calls \cup {None}
           /\ issued \in 0 .. MaxIssued /\ valid \subseteq 0 .. issued /\ now \in 0 .. issued
           /\ versions \in 0 .. MaxVersions /\ harm \subseteq {"lost", "behind"}
BY DEF Shape, TypeOK, LimitsInv

\* A call arrives.
LEMMA ArriveStep ==
    ASSUME RefreshInv, NEW c \in Calls, Arrive(c)
    PROVE  RefreshInv'
<1>0. Shape
  BY DEF RefreshInv, Shape
<1>1. /\ "select" \in Steps /\ "waiting" \in Steps /\ "extra" \in Steps /\ "changed" \in Steps
      /\ \A k \in {"request", "query", "force", "admin"} : k \in Kinds
  BY DEF Steps, Kinds
<1>2. PICK kind \in Kinds, pc \in {"select", "waiting", "extra", "changed"},
           cr \in Credentials : Start(c, kind, pc, cr)
  BY <1>0, <1>1, ShapeNow, NoCredentialsType
     DEF Arrive, Request, Query, ForceRefresh, Edit, Relogin, SetDisabled
<1>3. /\ call' \in [Calls -> Call] /\ \A d \in Calls : CallOK(call'[d])
      /\ call[c].pc = "idle" /\ call'[c].pc = pc
      /\ \A d \in Calls : d # c => call'[d] = call[d]
  BY <1>0, <1>1, <1>2, StartCall
<1>4. /\ file' = file /\ lock' = lock /\ harm' = harm /\ now' = now
  BY DEF Arrive, Request, Query, ForceRefresh, Edit, Relogin, SetDisabled, entryVars, serviceVars
<1>5. /\ versions' \in 0 .. MaxVersions /\ issued' \in 0 .. MaxIssued /\ issued <= issued'
      /\ valid \subseteq valid' /\ valid' \subseteq 0 .. issued'
      /\ cred' \in Credentials /\ (cred'.rt = cred.rt \/ cred'.rt \in valid')
  <2>1. CASE Edit(c)
    BY <2>1, <1>0, ShapeNow, BoundsAssumption
       DEF Edit, ChangeMeta, WithMeta, Credentials, serviceVars
  <2>2. CASE Relogin(c)
    BY <2>2, <1>0, ShapeNow, BoundsAssumption DEF Relogin, Credentials
  <2>3. CASE Request(c) \/ Query(c) \/ ForceRefresh(c) \/ SetDisabled(c)
    BY <2>3, <1>0, ShapeNow, BoundsAssumption
       DEF Request, Query, ForceRefresh, SetDisabled, entryVars, serviceVars
  <2> QED
    BY <2>1, <2>2, <2>3 DEF Arrive
<1>6. /\ reason' \in Reasons /\ failures' \in 0 .. MaxFailures
      /\ reason' = "None" => failures' < MaxFailures
  BY <1>0, ShapeNow, BoundsAssumption
     DEF Arrive, Request, Query, ForceRefresh, Edit, Relogin, SetDisabled, ChangeMeta, entryVars, Reasons
<1>7. Shape'
  BY <1>0, <1>3, <1>4, <1>5, <1>6, ShapeNow, ShapeNext
<1>8. LockInv' /\ LiveInv'
  BY <1>3, <1>4, <1>5, QuietMove
<1> QED
  BY <1>7, <1>8 DEF RefreshInv, Shape

\* A call that waits for the lock gets it.
LEMMA LockedStep ==
    ASSUME RefreshInv, NEW c \in Calls, Locked(c)
    PROVE  RefreshInv'
<1>0. Shape
  BY DEF RefreshInv, Shape
<1>1. /\ call[c].pc = "waiting" /\ lock = None /\ "sent" \in Steps /\ "extra" \in Steps
      /\ \A d \in Calls : call[d].pc \notin {"sent", "answered"}
  BY CallsAssumption DEF Locked, Steps, RefreshInv, LockInv
<1>2. /\ entryVars' = entryVars /\ file' = file /\ serviceVars' = serviceVars
      /\ versions' = versions /\ harm' = harm
  BY DEF Locked
<1>3. CASE lock' = c /\ Goto(c, "sent", call[c].cred) /\ call[c].kind = "force"
  <2>1. /\ call' \in [Calls -> Call] /\ \A d \in Calls : CallOK(call'[d])
        /\ call'[c].pc = "sent" /\ call'[c].kind = "force"
        /\ \A d \in Calls : d # c => call'[d] = call[d]
    BY <1>0, <1>1, <1>3, CallType, GotoCall
  <2>2. Shape'
    BY <1>0, <1>2, <1>3, <2>1, ShapeNow, ShapeNext DEF entryVars, serviceVars
  <2>3. LockInv' /\ LiveInv'
    BY <1>1, <1>2, <1>3, <2>1 DEF RefreshInv, LockInv, LiveInv, entryVars, serviceVars
  <2> QED
    BY <2>2, <2>3 DEF RefreshInv, Shape
<1>4. CASE lock' = c /\ Goto(c, "sent", cred)
  <2>1. /\ call' \in [Calls -> Call] /\ \A d \in Calls : CallOK(call'[d])
        /\ call'[c].pc = "sent" /\ call'[c].cred = cred
        /\ \A d \in Calls : d # c => call'[d] = call[d]
    BY <1>0, <1>1, <1>4, ShapeNow, GotoCall
  <2>2. Shape'
    BY <1>0, <1>2, <1>4, <2>1, ShapeNow, ShapeNext DEF entryVars, serviceVars
  <2>3. LockInv' /\ LiveInv'
    BY <1>1, <1>2, <1>4, <2>1 DEF RefreshInv, LockInv, LiveInv, entryVars, serviceVars
  <2> QED
    BY <2>2, <2>3 DEF RefreshInv, Shape
<1>5. CASE lock' = lock /\ Proceed(c, "extra")
  <2>1. /\ call' \in [Calls -> Call] /\ \A d \in Calls : CallOK(call'[d])
        /\ call'[c].pc = "extra" /\ \A d \in Calls : d # c => call'[d] = call[d]
    BY <1>0, <1>1, <1>5, NoCredentialsType, GotoCall DEF Proceed
  <2>2. Shape'
    BY <1>0, <1>2, <1>5, <2>1, ShapeNow, ShapeNext DEF entryVars, serviceVars
  <2>3. LockInv' /\ LiveInv'
    BY <1>1, <1>2, <1>5, <2>1, QuietMove DEF entryVars, serviceVars
  <2> QED
    BY <2>2, <2>3 DEF RefreshInv, Shape
<1> QED
  BY <1>3, <1>4, <1>5 DEF Locked
-----------------------------------------------------------------------------
\* Proceed and Return, as one case: the call goes to some place pc.
LEMMA MoveCall ==
    ASSUME Shape, NEW c \in Calls, NEW pc \in Steps,
           \/ Return(c) /\ pc = "done"
           \/ /\ Proceed(c, pc)
              /\ \/ call[c].pc \notin {"idle", "done", "select"}
                 \/ call[c].attempts < MaxFailures
    PROVE  /\ call' \in [Calls -> Call]
           /\ \A d \in Calls : CallOK(call'[d])
           /\ call'[c].pc = pc
           /\ \A d \in Calls : d # c => call'[d] = call[d]
BY ReturnCall, NoCredentialsType, GotoCall DEF Proceed

\* Writing the file, or failing to, leaves the tokens in memory alone.
LEMMA WriteStep ==
    ASSUME RefreshInv, NEW c \in Calls, Write(c) \/ WriteFails(c)
    PROVE  RefreshInv'
<1>0. Shape
  BY DEF RefreshInv, Shape
<1>1. /\ call[c].pc = "write" /\ AfterWrite(c) /\ entryVars' = entryVars
      /\ serviceVars' = serviceVars /\ versions' = versions
  BY DEF Write, WriteFails
<1>2. PICK pc \in {"extra", "ending", "done"} :
         Proceed(c, pc) \/ (Return(c) /\ pc = "done")
  BY <1>1 DEF AfterWrite
<1>3. /\ call' \in [Calls -> Call] /\ \A d \in Calls : CallOK(call'[d])
      /\ call'[c].pc = pc /\ \A d \in Calls : d # c => call'[d] = call[d]
  <2>1. pc \in Steps
    BY DEF Steps
  <2> QED
    BY <1>0, <1>1, <1>2, <2>1, MoveCall
<1>4. /\ lock' \in Calls \cup {None} /\ (lock' = lock \/ lock = c)
      /\ harm \subseteq harm' /\ harm' \subseteq {"lost", "behind"}
  BY <1>0, <1>1, ShapeNow DEF AfterWrite, Write, WriteFails
<1>5. file' \in [cred : Credentials, disabled : BOOLEAN]
  <2>1. call[c].cred \in Credentials /\ call[c].disabled \in BOOLEAN
    BY <1>0, CallType DEF CallOK, Call
  <2> QED
    BY <1>0, <2>1, ShapeNow DEF Write, WriteFails
<1>6. Shape'
  BY <1>0, <1>1, <1>3, <1>4, <1>5, ShapeNow, ShapeNext DEF entryVars, serviceVars
<1>7. LockInv' /\ LiveInv'
  BY <1>1, <1>3, <1>4, QuietMove DEF entryVars, serviceVars
<1> QED
  BY <1>6, <1>7 DEF RefreshInv, Shape

LEMMA SnapshotStep ==
    ASSUME RefreshInv, NEW c \in Calls, Snapshot(c)
    PROVE  RefreshInv'
<1>0. Shape
  BY DEF RefreshInv, Shape
<1> DEFINE k == [pc |-> "write", kind |-> call[c].kind, cred |-> cred, disabled |-> ~Enabled,
                 attempts |-> call[c].attempts]
<1>1. /\ call[c].pc = "changed" /\ call' = [call EXCEPT ![c] = k] /\ entryVars' = entryVars
      /\ serviceVars' = serviceVars /\ versions' = versions
      /\ file' = file /\ lock' = lock /\ harm' = harm
  BY DEF Snapshot
<1>2. CallOK(k) /\ k.pc = "write"
  <2>1. /\ "write" \in Steps /\ call[c].kind \in Kinds /\ cred \in Credentials
        /\ (~Enabled) \in BOOLEAN /\ call[c].attempts \in 0 .. MaxFailures
        /\ call[c].attempts < MaxFailures
    BY <1>0, <1>1, ShapeNow, CallType DEF CallOK, Steps, Enabled
  <2> QED
    BY <2>1 DEF CallOK, Call
<1> HIDE DEF k
<1>3. /\ call' \in [Calls -> Call] /\ \A d \in Calls : CallOK(call'[d])
      /\ call'[c].pc = "write" /\ \A d \in Calls : d # c => call'[d] = call[d]
  BY <1>0, <1>1, <1>2, SetCall
<1>4. Shape'
  BY <1>0, <1>1, <1>3, ShapeNow, ShapeNext DEF entryVars, serviceVars
<1>5. LockInv' /\ LiveInv'
  BY <1>1, <1>3, QuietMove DEF entryVars, serviceVars
<1> QED
  BY <1>4, <1>5 DEF RefreshInv, Shape

\* The steps of a call that holds no lock and changes no token.
LEMMA PlainStep ==
    ASSUME RefreshInv, NEW c \in Calls,
           Select(c) \/ LearnMeta(c) \/ QueryDone(c) \/ Ensured(c)
    PROVE  RefreshInv'
<1>0. Shape
  BY DEF RefreshInv, Shape
<1>1. PICK pc \in {"waiting", "extra", "changed", "done"} :
         \/ Return(c) /\ pc = "done"
         \/ Proceed(c, pc) /\ (call[c].pc = "extra" \/ call[c].attempts < MaxFailures)
  <2>1. call[c].attempts \in Nat /\ MaxFailures \in Nat
    BY <1>0, CallType, BoundsAssumption
  <2> QED
    BY <2>1 DEF Select, LearnMeta, QueryDone, Ensured
<1>2. call[c].pc \in {"select", "extra", "ending"}
  BY DEF Select, LearnMeta, QueryDone, Ensured
<1>3. /\ call' \in [Calls -> Call] /\ \A d \in Calls : CallOK(call'[d])
      /\ call'[c].pc = pc /\ \A d \in Calls : d # c => call'[d] = call[d]
  <2>1. pc \in Steps
    BY DEF Steps
  <2> QED
    BY <1>0, <1>1, <2>1, MoveCall
<1>4. /\ file' = file /\ lock' = lock /\ serviceVars' = serviceVars /\ harm' = harm
      /\ reason' = reason
  BY DEF Select, LearnMeta, QueryDone, Ensured, ChangeMeta, entryVars
<1>5. /\ cred' \in Credentials /\ cred'.rt = cred.rt /\ versions' \in 0 .. MaxVersions
  <2>1. CASE LearnMeta(c)
    BY <2>1, <1>0, ShapeNow, BoundsAssumption DEF LearnMeta, ChangeMeta, WithMeta, Credentials
  <2>2. CASE Select(c) \/ QueryDone(c) \/ Ensured(c)
    BY <2>2, <1>0, ShapeNow DEF Select, QueryDone, Ensured, entryVars
  <2> QED
    BY <2>1, <2>2
<1>6. failures' \in 0 .. MaxFailures /\ (reason' = "None" => failures' < MaxFailures)
  BY <1>0, <1>4, ShapeNow, BoundsAssumption
     DEF Select, LearnMeta, QueryDone, Ensured, ChangeMeta, entryVars
<1>7. Shape'
  BY <1>0, <1>3, <1>4, <1>5, <1>6, ShapeNow, ShapeNext DEF serviceVars
<1>8. LockInv' /\ LiveInv'
  BY <1>2, <1>3, <1>4, <1>5, QuietMove DEF serviceVars
<1> QED
  BY <1>7, <1>8 DEF RefreshInv, Shape

\* The reports of acquire_context, which count the attempt.
LEMMA ReportStep ==
    ASSUME RefreshInv, NEW c \in Calls, RefreshFailed(c) \/ TokenInvalid(c)
    PROVE  RefreshInv'
<1>0. Shape
  BY DEF RefreshInv, Shape
<1>1. /\ call[c].pc \in {"failed", "report"} /\ CountAttempt(c)
      /\ cred' = cred /\ file' = file /\ lock' = lock /\ serviceVars' = serviceVars
      /\ versions' = versions /\ harm' = harm
  BY DEF RefreshFailed, TokenInvalid
<1>2. /\ call' \in [Calls -> Call] /\ \A d \in Calls : CallOK(call'[d])
      /\ call'[c].pc \in {"select", "done"} /\ \A d \in Calls : d # c => call'[d] = call[d]
  <2> DEFINE k == At("select", call[c].kind, NoCredentials, call[c].attempts + 1)
  <2>1. CASE Return(c)
    BY <2>1, <1>0, ReturnCall
  <2>2. CASE call' = [call EXCEPT ![c] = k]
    <3>1. call[c].attempts + 1 \in 0 .. MaxFailures
      BY <1>0, <1>1, CallType, BoundsAssumption DEF CallOK
    <3>2. CallOK(k) /\ k.pc = "select"
      <4>1. "select" \in Steps /\ call[c].kind \in Kinds
        BY <1>0, CallType DEF Steps
      <4> QED
        BY <3>1, <4>1, NoCredentialsType, AtOK
    <3> HIDE DEF k
    <3> QED
      BY <1>0, <2>2, <3>2, SetCall
  <2> QED
    BY <1>1, <2>1, <2>2 DEF CountAttempt
<1>3. /\ reason' \in Reasons /\ failures' \in 0 .. MaxFailures
      /\ reason' = "None" => failures' < MaxFailures
  BY <1>0, ShapeNow, BoundsAssumption DEF RefreshFailed, TokenInvalid, Enabled, Reasons
<1>4. Shape'
  BY <1>0, <1>1, <1>2, <1>3, ShapeNow, ShapeNext DEF serviceVars
<1>5. LockInv' /\ LiveInv'
  BY <1>1, <1>2, QuietMove DEF serviceVars
<1> QED
  BY <1>4, <1>5 DEF RefreshInv, Shape
-----------------------------------------------------------------------------
\* Nobody but the holder of the lock has sent a token or has an answer.
LEMMA OnlyHolder ==
    ASSUME RefreshInv, NEW c \in Calls, call[c].pc \in {"sent", "answered"}
    PROVE  lock = c /\ \A d \in Calls : d # c => call[d].pc \notin {"sent", "answered"}
BY DEF RefreshInv, LockInv

\* Where an error of refresh_token leads.
LEMMA ErrorCall ==
    ASSUME Shape, NEW c \in Calls, NEW pc \in {"failed", "invalid"}, RefreshError(c, pc),
           call[c].pc \in {"sent", "answered"}
    PROVE  /\ call' \in [Calls -> Call] /\ \A d \in Calls : CallOK(call'[d])
           /\ call'[c].pc = IF call[c].kind = "request" THEN pc ELSE "done"
           /\ \A d \in Calls : d # c => call'[d] = call[d]
           /\ lock' = None
<1>1. pc \in Steps /\ "done" \in Steps
  BY DEF Steps
<1> QED
  BY <1>1, MoveCall DEF RefreshError

\* The service rotates or keeps the token.
LEMMA RefreshService ==
    ASSUME Shape, NEW c \in Calls, NEW rotate \in BOOLEAN, Refresh(c, rotate)
    PROVE  /\ issued' \in 0 .. MaxIssued /\ valid' \subseteq 0 .. issued' /\ now' \in 0 .. issued'
           /\ now' = now /\ issued' \in (0 .. MaxIssued)
           /\ call[c].pc = "sent" /\ call[c].cred.rt \in valid
           /\ rotate => issued' \in valid'
           /\ ~rotate => valid' = valid
BY ShapeNow, BoundsAssumption DEF Refresh

\* The answer is good, and it is the only token on its way.
LEMMA AcceptStep ==
    ASSUME RefreshInv, NEW c \in Calls, Accept(c)
    PROVE  RefreshInv'
<1>0. Shape
  BY DEF RefreshInv, Shape
<1>1. PICK rotate \in BOOLEAN, expiry \in BOOLEAN :
         /\ Refresh(c, rotate)
         /\ Goto(c, "answered",
                 [rt |-> IF rotate THEN issued' ELSE call[c].cred.rt,
                  at |-> IF expiry THEN issued' ELSE call[c].cred.at,
                  meta |-> call[c].cred.meta])
  BY DEF Accept
<1> DEFINE cr == [rt |-> IF rotate THEN issued' ELSE call[c].cred.rt,
                  at |-> IF expiry THEN issued' ELSE call[c].cred.at,
                  meta |-> call[c].cred.meta]
<1>2. /\ issued' \in 0 .. MaxIssued /\ valid' \subseteq 0 .. issued' /\ now' \in 0 .. issued'
      /\ call[c].pc = "sent" /\ call[c].cred.rt \in valid
      /\ rotate => issued' \in valid'
      /\ ~rotate => valid' = valid
  BY <1>0, <1>1, RefreshService
<1>3. cr \in Credentials /\ cr.rt \in valid'
  <2>1. call[c].cred \in Credentials
    BY <1>0, CallType
  <2> QED
    BY <1>2, <2>1 DEF Credentials
<1>4. /\ entryVars' = entryVars /\ file' = file /\ lock' = lock /\ versions' = versions
      /\ harm' = harm
  BY DEF Accept
<1>5. Goto(c, "answered", cr) /\ "answered" \in Steps
  BY <1>1 DEF Steps
<1> HIDE DEF cr
<1>6. /\ call' \in [Calls -> Call] /\ \A d \in Calls : CallOK(call'[d])
      /\ call'[c].pc = "answered" /\ call'[c].cred = cr
      /\ \A d \in Calls : d # c => call'[d] = call[d]
  BY <1>0, <1>2, <1>3, <1>5, GotoCall
<1>7. Shape'
  BY <1>0, <1>2, <1>4, <1>6, ShapeNow, ShapeNext DEF entryVars
<1>8. lock = c /\ \A d \in Calls : d # c => call[d].pc \notin {"sent", "answered"}
  BY <1>2, OnlyHolder
<1>9. LockInv'
  BY <1>4, <1>6, <1>8 DEF LockInv
<1>10. LiveInv'
  BY <1>3, <1>4, <1>6, <1>8 DEF RefreshInv, LiveInv
<1> QED
  BY <1>7, <1>9, <1>10 DEF RefreshInv, Shape

\* A rejected request or query proves that a token was lost.
LEMMA RejectStep ==
    ASSUME RefreshInv, NEW c \in Calls, Reject(c)
    PROVE  RefreshInv'
<1>0. Shape
  BY DEF RefreshInv, Shape
<1>1. /\ call[c].pc = "sent" /\ call[c].cred.rt \notin valid /\ RefreshError(c, "invalid")
      /\ entryVars' = entryVars /\ file' = file /\ serviceVars' = serviceVars
      /\ versions' = versions /\ harm' = harm
  BY DEF Reject
<1>2. /\ call' \in [Calls -> Call] /\ \A d \in Calls : CallOK(call'[d])
      /\ call'[c].pc = IF call[c].kind = "request" THEN "invalid" ELSE "done"
      /\ \A d \in Calls : d # c => call'[d] = call[d]
      /\ lock' = None
  BY <1>0, <1>1, ErrorCall
<1>3. Shape'
  BY <1>0, <1>1, <1>2, ShapeNow, ShapeNext DEF entryVars, serviceVars
<1>4. lock = c
  BY <1>1, OnlyHolder
<1>5. CASE call[c].kind = "request"
  <2>1. "lost" \in harm
    BY <1>1, <1>5 DEF RefreshInv, LiveInv
  <2>2. LockInv'
    BY <1>2, <1>4, <1>5 DEF RefreshInv, LockInv
  <2> QED
    BY <1>1, <1>3, <2>1, <2>2 DEF RefreshInv, Shape, LiveInv
<1>6. CASE call[c].kind # "request"
  <2>1. LockInv' /\ LiveInv'
    BY <1>1, <1>2, <1>4, <1>6, QuietMove DEF entryVars, serviceVars
  <2> QED
    BY <1>3, <2>1 DEF RefreshInv, Shape
<1> QED
  BY <1>5, <1>6

\* The other errors: the answer is lost only if it is recorded as such.
LEMMA ErrorStep ==
    ASSUME RefreshInv, NEW c \in Calls, RefreshFails(c) \/ LoseAnswer(c) \/ DropAnswer(c)
    PROVE  RefreshInv'
<1>0. Shape
  BY DEF RefreshInv, Shape
<1>1. /\ call[c].pc \in {"sent", "answered"} /\ RefreshError(c, "failed")
      /\ entryVars' = entryVars /\ file' = file /\ versions' = versions
  BY DEF RefreshFails, LoseAnswer, DropAnswer, Refresh
<1>2. /\ call' \in [Calls -> Call] /\ \A d \in Calls : CallOK(call'[d])
      /\ call'[c].pc \in {"failed", "done"}
      /\ \A d \in Calls : d # c => call'[d] = call[d]
      /\ lock' = None
  BY <1>0, <1>1, ErrorCall
<1>3. /\ issued' \in 0 .. MaxIssued /\ valid' \subseteq 0 .. issued' /\ now' \in 0 .. issued'
      /\ harm \subseteq harm' /\ harm' \subseteq {"lost", "behind"}
      /\ "lost" \notin harm' => valid' = valid
  <2>1. CASE LoseAnswer(c)
    <3>1. PICK rotate \in BOOLEAN :
            Refresh(c, rotate) /\ harm' = IF rotate THEN harm \cup {"lost"} ELSE harm
      BY <2>1 DEF LoseAnswer
    <3>2. /\ issued' \in 0 .. MaxIssued /\ valid' \subseteq 0 .. issued' /\ now' \in 0 .. issued'
          /\ ~rotate => valid' = valid
      BY <1>0, <3>1, RefreshService
    <3> QED
      BY <1>0, <3>1, <3>2, ShapeNow
  <2>2. CASE RefreshFails(c) \/ DropAnswer(c)
    BY <2>2, <1>0, ShapeNow DEF RefreshFails, DropAnswer, serviceVars
  <2> QED
    BY <2>1, <2>2
<1>4. Shape'
  BY <1>0, <1>1, <1>2, <1>3, ShapeNow, ShapeNext DEF entryVars
<1>5. lock = c /\ \A d \in Calls : d # c => call[d].pc \notin {"sent", "answered"}
  BY <1>1, OnlyHolder
<1>6. LockInv'
  BY <1>2, <1>5 DEF LockInv
<1>7. ASSUME "lost" \notin harm' PROVE cred'.rt \in valid'
  <2>1. valid' = valid /\ cred' = cred /\ "lost" \notin harm
    BY <1>1, <1>3, <1>7 DEF entryVars
  <2>2. CASE call[c].pc = "answered"
    <3>1. DropAnswer(c)
      BY <2>2 DEF RefreshFails, LoseAnswer, Refresh
    <3>2. call[c].cred.rt = cred.rt
      BY <1>7, <3>1 DEF DropAnswer
    <3> QED
      BY <2>1, <2>2, <3>2 DEF RefreshInv, LiveInv
  <2>3. CASE call[c].pc # "answered"
    BY <2>1, <2>3, <1>5 DEF RefreshInv, LiveInv
  <2> QED
    BY <2>2, <2>3
<1>8. LiveInv'
  BY <1>2, <1>3, <1>5, <1>7 DEF RefreshInv, LiveInv
<1> QED
  BY <1>4, <1>6, <1>8 DEF RefreshInv, Shape

\* The answer is stored.
LEMMA StoreStep ==
    ASSUME RefreshInv, NEW c \in Calls, Store(c)
    PROVE  RefreshInv'
<1>0. Shape
  BY DEF RefreshInv, Shape
<1>1. /\ call[c].pc = "answered" /\ cred' = call[c].cred /\ Proceed(c, "changed")
      /\ reason' = reason /\ file' = file /\ lock' = lock /\ serviceVars' = serviceVars
      /\ versions' = versions /\ harm' = harm
  BY DEF Store
<1>2. /\ call' \in [Calls -> Call] /\ \A d \in Calls : CallOK(call'[d])
      /\ call'[c].pc = "changed" /\ \A d \in Calls : d # c => call'[d] = call[d]
  <2>1. "changed" \in Steps
    BY DEF Steps
  <2> QED
    BY <1>0, <1>1, <2>1, MoveCall
<1>3. /\ failures' \in 0 .. MaxFailures /\ (reason' = "None" => failures' < MaxFailures)
      /\ cred' \in Credentials
  BY <1>0, <1>1, ShapeNow, CallType, BoundsAssumption DEF Store
<1>4. Shape'
  BY <1>0, <1>1, <1>2, <1>3, ShapeNow, ShapeNext DEF serviceVars
<1>5. "lost" \notin harm' => cred'.rt \in valid'
  BY <1>1 DEF RefreshInv, LiveInv, serviceVars
<1>6. LockInv' /\ LiveInv'
  BY <1>1, <1>2, <1>5, QuietMove DEF serviceVars
<1> QED
  BY <1>4, <1>6 DEF RefreshInv, Shape

\* The reload of the file only happens after a token was lost.
LEMMA ReloadStep ==
    ASSUME RefreshInv, NEW c \in Calls, ReadFile(c) \/ Compare(c) \/ Reload(c)
    PROVE  RefreshInv'
<1>0. Shape
  BY DEF RefreshInv, Shape
<1>1. /\ call[c].pc \in {"invalid", "compare", "reload"}
      /\ file' = file /\ lock' = lock /\ serviceVars' = serviceVars
      /\ versions' = versions /\ harm' = harm
  BY DEF ReadFile, Compare, Reload
<1>2. "lost" \in harm
  BY <1>1 DEF RefreshInv, LiveInv
<1>3. PICK pc \in {"compare", "reload", "report", "select"}, cr \in Credentials : Goto(c, pc, cr)
  BY <1>0, ShapeNow, CallType, NoCredentialsType DEF ReadFile, Compare, Reload, Proceed
<1>4. /\ call' \in [Calls -> Call] /\ \A d \in Calls : CallOK(call'[d])
      /\ call'[c].pc = pc /\ \A d \in Calls : d # c => call'[d] = call[d]
  <2>1. pc \in Steps
    BY DEF Steps
  <2> QED
    BY <1>0, <1>1, <1>3, <2>1, GotoCall
<1>5. /\ cred' \in Credentials /\ reason' \in Reasons /\ failures' \in 0 .. MaxFailures
      /\ reason' = "None" => failures' < MaxFailures
  <2>1. CASE Reload(c)
    <3>1. call[c].cred \in Credentials /\ cred \in Credentials
      BY <1>0, CallType, ShapeNow
    <3>2. cred' \in Credentials
      BY <2>1, <3>1 DEF Reload, WithMeta, Credentials
    <3> QED
      BY <2>1, <3>2, BoundsAssumption DEF Reload, Reasons
  <2>2. CASE ReadFile(c) \/ Compare(c)
    BY <2>2, <1>0, ShapeNow DEF ReadFile, Compare, entryVars
  <2> QED
    BY <2>1, <2>2
<1>6. Shape'
  BY <1>0, <1>1, <1>4, <1>5, ShapeNow, ShapeNext DEF serviceVars
<1>7. LockInv'
  BY <1>1, <1>4 DEF RefreshInv, LockInv
<1>8. LiveInv'
  BY <1>1, <1>2 DEF LiveInv
<1> QED
  BY <1>6, <1>7, <1>8 DEF RefreshInv, Shape

\* A restart keeps a token only if nothing newer was on its way.
LEMMA RestartStep ==
    ASSUME RefreshInv, Restart
    PROVE  RefreshInv'
<1>0. Shape
  BY DEF RefreshInv, Shape
<1>1. /\ call' = [c \in Calls |-> IF call[c].pc = "idle" THEN Idle ELSE Done]
      /\ cred' = file.cred /\ file' = file /\ serviceVars' = serviceVars
      /\ versions' = versions /\ lock' = None
      /\ harm' = IF Unsaved THEN harm \cup {"lost"} ELSE harm
      /\ reason' \in Reasons /\ failures' = 0
  BY DEF Restart, Reasons
<1>2. /\ call' \in [Calls -> Call] /\ \A d \in Calls : CallOK(call'[d])
      /\ \A d \in Calls : call'[d].pc \in {"idle", "done"}
  BY <1>1, DoneOK DEF CallOK
<1>3. Shape'
  <2>1. cred' \in Credentials /\ 0 \in 0 .. MaxFailures /\ 0 < MaxFailures
    BY <1>0, <1>1, ShapeNow, BoundsAssumption
  <2> QED
    BY <1>0, <1>1, <1>2, <2>1, ShapeNow, ShapeNext DEF serviceVars
<1>4. LockInv'
  BY <1>2 DEF LockInv
<1>5. ASSUME "lost" \notin harm' PROVE cred'.rt \in valid'
  <2>1. "lost" \notin harm /\ cred.rt = file.cred.rt
        /\ \A c \in Calls : call[c].pc = "answered" => call[c].cred.rt = file.cred.rt
    BY <1>1, <1>5 DEF Unsaved
  <2>2. CASE \E c \in Calls : call[c].pc = "answered"
    BY <1>1, <2>1, <2>2 DEF RefreshInv, LiveInv, serviceVars
  <2>3. CASE \A c \in Calls : call[c].pc # "answered"
    BY <1>1, <2>1, <2>3 DEF RefreshInv, LiveInv, serviceVars
  <2> QED
    BY <2>2, <2>3
<1>6. LiveInv'
  BY <1>2, <1>5 DEF LiveInv
<1> QED
  BY <1>3, <1>4, <1>6 DEF RefreshInv, Shape

\* Time and the other client of the file.
LEMMA WorldStep ==
    ASSUME RefreshInv, Expire \/ IdeRefresh
    PROVE  RefreshInv'
<1>0. Shape
  BY DEF RefreshInv, Shape
<1>1. /\ entryVars' = entryVars /\ lock' = lock /\ call' = call /\ versions' = versions
  BY DEF Expire, IdeRefresh
<1>2. call \in [Calls -> Call] /\ \A d \in Calls : CallOK(call[d])
  BY <1>0, CallType DEF Shape, TypeOK
<1>3. /\ issued' \in 0 .. MaxIssued /\ valid' \subseteq 0 .. issued' /\ now' \in 0 .. issued'
      /\ file' \in [cred : Credentials, disabled : BOOLEAN]
      /\ harm' \subseteq {"lost", "behind"}
  <2>1. CASE Expire
    BY <2>1, <1>0, ShapeNow DEF Expire
  <2>2. CASE IdeRefresh
    BY <2>2, <1>0, ShapeNow, BoundsAssumption DEF IdeRefresh, Credentials
  <2> QED
    BY <2>1, <2>2
<1>4. Shape'
  BY <1>0, <1>1, <1>2, <1>3, ShapeNow, ShapeNext DEF entryVars
<1>5. LockInv'
  BY <1>1 DEF RefreshInv, LockInv
<1>6. LiveInv'
  BY <1>1 DEF RefreshInv, LiveInv, Expire, IdeRefresh, entryVars
<1> QED
  BY <1>4, <1>5, <1>6 DEF RefreshInv, Shape

LEMMA InitRefreshInv == Init => RefreshInv
<1> SUFFICES ASSUME Init PROVE RefreshInv
  OBVIOUS
<1>1. call = [c \in Calls |-> Idle] /\ cred = NoCredentials /\ valid = {0} /\ harm = {}
  BY DEF Init
<1>2. \A c \in Calls : CallOK(call[c]) /\ call[c].pc = "idle"
  BY <1>1, DoneOK
<1>3. NoCredentials \in Credentials /\ NoCredentials.rt = 0
  BY NoCredentialsType DEF NoCredentials
<1>4. TypeOK /\ LimitsInv
  BY <1>1, <1>2, <1>3, BoundsAssumption DEF Init, TypeOK, LimitsInv, CallOK, Reasons
<1>5. LockInv /\ LiveInv
  BY <1>1, <1>2, <1>3 DEF LockInv, LiveInv
<1> QED
  BY <1>4, <1>5 DEF RefreshInv

LEMMA NextRefreshInv == RefreshInv /\ [Next]_vars => RefreshInv'
<1> SUFFICES ASSUME RefreshInv, [Next]_vars PROVE RefreshInv'
  OBVIOUS
<1>1. CASE UNCHANGED vars
  BY <1>1 DEF vars, RefreshInv, TypeOK, LimitsInv, LockInv, LiveInv
<1>2. ASSUME NEW c \in Calls, Arrive(c) PROVE RefreshInv'
  BY <1>2, ArriveStep
<1>3. ASSUME NEW c \in Calls, Locked(c) PROVE RefreshInv'
  BY <1>3, LockedStep
<1>4. ASSUME NEW c \in Calls, Progress(c) PROVE RefreshInv'
  BY <1>4, PlainStep, AcceptStep, RejectStep, ErrorStep, StoreStep, SnapshotStep, WriteStep,
     ReportStep, ReloadStep DEF Progress
<1>5. CASE Expire \/ IdeRefresh \/ Restart
  BY <1>5, WorldStep, RestartStep
<1> QED
  BY <1>1, <1>2, <1>3, <1>4, <1>5 DEF Next

\* The inductive invariant holds for any number of calls (token_manager.rs,
\* refresh_lock around refresh_token and persist_credentials).
THEOREM RefreshInvariant == Spec => []RefreshInv
BY InitRefreshInv, NextRefreshInv, PTL DEF Spec

\* Requests and queries only send refresh tokens the service accepts, whatever other
\* calls do at the same time, as long as no token was lost outside of the program.
THEOREM SendsLiveToken == Spec => []RefreshSendsLiveToken
<1>1. RefreshInv => RefreshSendsLiveToken
  BY DEF RefreshInv, LiveInv, RefreshSendsLiveToken
<1> QED
  BY <1>1, RefreshInvariant, PTL
-----------------------------------------------------------------------------
(***************************************************************************)
(* The file and the memory.  A change of the credentials stands between    *)
(* "changed" and the end of its write; unless a write failed or crossed    *)
(* another one, the last of the writes on their way saves what is in       *)
(* memory.                                                                 *)
(***************************************************************************)
Writer(c) == call[c].pc = "write"

FileInv ==
    harm = {} /\ (\A c \in Calls : call[c].pc # "changed") =>
        \/ \E c \in Calls : Writer(c) /\ call[c].cred = cred
        \/ (\A c \in Calls : ~Writer(c)) /\ file.cred = cred

\* A call that neither changes the credentials nor saves them.
LEMMA FileQuiet ==
    ASSUME FileInv, harm \subseteq harm', cred' = cred, file' = file,
           NEW c \in Calls, call[c].pc \notin {"changed", "write"}, call'[c].pc # "write",
           \A d \in Calls : d # c => call'[d] = call[d]
    PROVE  FileInv'
BY DEF FileInv, Writer

\* A call that has changed the credentials and is about to save them.
LEMMA FileChanged ==
    ASSUME NEW c \in Calls, call'[c].pc = "changed"
    PROVE  FileInv'
BY DEF FileInv

LEMMA AtPc ==
    ASSUME NEW pc, NEW kind, NEW cr, NEW n
    PROVE  At(pc, kind, cr, n).pc = pc
BY DEF At

\* The steps that neither change nor save the credentials.
LEMMA FileQuietStep ==
    ASSUME TypeOK, FileInv, NEW c \in Calls,
           \/ Request(c) \/ Query(c) \/ ForceRefresh(c) \/ Locked(c) \/ Select(c)
           \/ Accept(c) \/ Reject(c) \/ RefreshFails(c) \/ LoseAnswer(c) \/ DropAnswer(c)
           \/ QueryDone(c) \/ Ensured(c) \/ RefreshFailed(c) \/ TokenInvalid(c)
           \/ ReadFile(c) \/ Compare(c)
    PROVE  FileInv'
<1>1. cred' = cred /\ file' = file /\ harm \subseteq harm'
  BY DEF Request, Query, ForceRefresh, Locked, Select, Accept, Reject, RefreshFails,
         LoseAnswer, DropAnswer, QueryDone, Ensured, RefreshFailed, TokenInvalid,
         ReadFile, Compare, entryVars
<1>2. call[c].pc \notin {"changed", "write"}
  BY DEF Request, Query, ForceRefresh, Start, Locked, Select, Accept, Reject, RefreshFails,
         LoseAnswer, DropAnswer, Refresh, QueryDone, Ensured, RefreshFailed, TokenInvalid,
         ReadFile, Compare
<1>3. PICK k : call' = [call EXCEPT ![c] = k] /\ k.pc # "write"
  <2>1. Done.pc # "write"
    BY AtPc DEF Done
  <2>2. CASE Request(c) \/ Query(c) \/ ForceRefresh(c)
    BY <2>2, AtPc DEF Request, Query, ForceRefresh, Start
  <2>3. CASE \/ Select(c) \/ Locked(c) \/ QueryDone(c) \/ Ensured(c) \/ ReadFile(c) \/ Compare(c)
    BY <2>1, <2>3, AtPc
       DEF Select, Locked, QueryDone, Ensured, ReadFile, Compare, Proceed, Goto, Return
  <2>4. CASE Reject(c) \/ RefreshFails(c) \/ LoseAnswer(c) \/ DropAnswer(c)
    BY <2>1, <2>4, AtPc
       DEF Reject, RefreshFails, LoseAnswer, DropAnswer, RefreshError, Proceed, Goto, Return
  <2>5. CASE RefreshFailed(c) \/ TokenInvalid(c)
    BY <2>1, <2>5, AtPc DEF RefreshFailed, TokenInvalid, CountAttempt, Return
  <2>6. CASE Accept(c)
    <3>1. PICK cr : Goto(c, "answered", cr)
      BY <2>6 DEF Accept
    <3> DEFINE a == At("answered", call[c].kind, cr, call[c].attempts)
    <3>2. call' = [call EXCEPT ![c] = a]
      BY <3>1 DEF Goto
    <3>3. a.pc = "answered"
      BY AtPc
    <3> HIDE DEF a
    <3> QED
      BY <3>2, <3>3
  <2> QED
    BY <2>2, <2>3, <2>4, <2>5, <2>6
<1>4. call'[c] = k /\ \A d \in Calls : d # c => call'[d] = call[d]
  BY <1>3 DEF TypeOK
<1> QED
  BY <1>1, <1>2, <1>3, <1>4, FileQuiet

\* Every operation that changes the credentials goes on to save them.
LEMMA FileChangeStep ==
    ASSUME TypeOK, NEW c \in Calls,
           Edit(c) \/ Relogin(c) \/ SetDisabled(c) \/ LearnMeta(c) \/ Store(c)
    PROVE  FileInv'
<1>1. PICK k : call' = [call EXCEPT ![c] = k] /\ k.pc = "changed"
  BY AtPc DEF Edit, Relogin, SetDisabled, LearnMeta, Store, Start, Proceed, Goto
<1>2. call'[c].pc = "changed"
  BY <1>1 DEF TypeOK
<1> QED
  BY <1>2, FileChanged

\* What is saved is what is in memory at the time of the snapshot.
LEMMA FileSnapshotStep ==
    ASSUME TypeOK, NEW c \in Calls, Snapshot(c)
    PROVE  FileInv'
<1> DEFINE k == [pc |-> "write", kind |-> call[c].kind, cred |-> cred, disabled |-> ~Enabled,
                 attempts |-> call[c].attempts]
<1>1. call' = [call EXCEPT ![c] = k] /\ cred' = cred
  BY DEF Snapshot, entryVars
<1>2. k.pc = "write" /\ k.cred = cred
  OBVIOUS
<1> HIDE DEF k
<1>3. call'[c].pc = "write" /\ call'[c].cred = cred
  BY <1>1, <1>2 DEF TypeOK
<1> QED
  BY <1>1, <1>3 DEF FileInv, Writer

\* The only write on its way leaves the file as the memory; another one, or a failure,
\* is recorded.
LEMMA FileWriteStep ==
    ASSUME TypeOK, FileInv, NEW c \in Calls, Write(c) \/ WriteFails(c)
    PROVE  FileInv'
<1>1. /\ Writer(c) /\ cred' = cred /\ AfterWrite(c)
  BY DEF Write, WriteFails, entryVars, Writer
<1>2. PICK k : call' = [call EXCEPT ![c] = k] /\ k.pc # "write"
  BY <1>1, AtPc DEF AfterWrite, Proceed, Goto, Return, Done
<1>3. call'[c] = k /\ \A d \in Calls : d # c => call'[d] = call[d]
  BY <1>2 DEF TypeOK
<1>4. ASSUME harm' = {}, \A d \in Calls : call'[d].pc # "changed"
      PROVE  (\A d \in Calls : ~Writer(d)') /\ file'.cred = cred'
  <2>1. /\ harm = {} /\ file'.cred = call[c].cred
        /\ \A d \in Calls : d # c => ~Writer(d)
    BY <1>4 DEF Write, WriteFails, Writer
  <2>2. \A d \in Calls : call[d].pc # "changed"
    BY <1>1, <1>3, <1>4 DEF Writer
  <2>3. call[c].cred = cred
    BY <1>1, <2>1, <2>2 DEF FileInv
  <2> QED
    BY <1>1, <1>2, <1>3, <2>1, <2>3 DEF Writer
<1> QED
  BY <1>4 DEF FileInv

\* A restart reads the file again, with no call left; another client of the file is
\* recorded.
LEMMA FileWorldStep ==
    ASSUME FileInv, Expire \/ IdeRefresh \/ Restart
    PROVE  FileInv'
<1>1. CASE Expire
  BY <1>1 DEF Expire, FileInv, Writer, entryVars
<1>2. CASE IdeRefresh
  BY <1>2 DEF IdeRefresh, FileInv
<1>3. CASE Restart
  <2>1. Idle.pc # "write" /\ Done.pc # "write"
    BY AtPc DEF Idle, Done
  <2>2. \A c \in Calls : call'[c].pc # "write"
    BY <1>3, <2>1 DEF Restart
  <2> QED
    BY <1>3, <2>2 DEF Restart, FileInv, Writer
<1> QED
  BY <1>1, <1>2, <1>3

LEMMA NextFileInv == RefreshInv /\ FileInv /\ [Next]_vars => FileInv'
<1> SUFFICES ASSUME RefreshInv, FileInv, [Next]_vars PROVE FileInv'
  OBVIOUS
<1>0. TypeOK
  BY DEF RefreshInv
<1>1. CASE UNCHANGED vars
  BY <1>1 DEF vars, FileInv, Writer
<1>2. ASSUME NEW c \in Calls, Arrive(c) PROVE FileInv'
  BY <1>0, <1>2, FileQuietStep, FileChangeStep DEF Arrive
<1>3. ASSUME NEW c \in Calls, Locked(c) PROVE FileInv'
  BY <1>0, <1>3, FileQuietStep
<1>4. ASSUME NEW c \in Calls, Progress(c) PROVE FileInv'
  <2>1. CASE Reload(c)
    \* A reload follows a rejected token, and a token is only rejected if one was lost.
    <3>1. "lost" \in harm /\ harm' = harm
      BY <2>1 DEF Reload, RefreshInv, LiveInv
    <3> QED
      BY <3>1 DEF FileInv
  <2>2. CASE ~Reload(c)
    BY <1>0, <1>4, <2>2, FileQuietStep, FileChangeStep, FileSnapshotStep, FileWriteStep
       DEF Progress
  <2> QED
    BY <2>1, <2>2
<1>5. CASE Expire \/ IdeRefresh \/ Restart
  BY <1>5, FileWorldStep
<1> QED
  BY <1>1, <1>2, <1>3, <1>4, <1>5 DEF Next

\* No operation forgets to save what it changed: between the operations the file and
\* the memory hold the same credentials (persist_credentials after every change),
\* unless a write failed or crossed another one.
THEOREM FileTheorem == Spec => []FileAgrees
<1>1. Init => FileInv
  BY DoneOK DEF Init, FileInv, Writer
<1>2. FileInv => FileAgrees
  BY DEF FileInv, FileAgrees, Writer
<1> QED
  BY <1>1, <1>2, RefreshInvariant, NextFileInv, PTL DEF Spec
=============================================================================
