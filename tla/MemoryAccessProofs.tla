------------------------- MODULE MemoryAccessProofs -------------------------
(***************************************************************************)
(* For any number of participants, heads and pages: the frozen boundary    *)
(* excludes every writer, no write of a tracked generation goes            *)
(* unreported, and the domain implements HostMemory.                       *)
(***************************************************************************)
EXTENDS MemoryAccessInv, FiniteSetTheorems, TLAPS

\* Marking only adds pages and only loses validity; what it marks stays in
\* registered RAM, and a valid inventory has all of it.
LEMMA MarkFacts ==
    ASSUME NEW map \in [installed : BOOLEAN, dirty : SUBSET Ram, valid : BOOLEAN],
           NEW pages \in SUBSET Pages, NEW m \in Mark(map, pages)
    PROVE  /\ m \in [installed : BOOLEAN, dirty : SUBSET Ram, valid : BOOLEAN]
           /\ m.installed = map.installed
           /\ map.dirty \subseteq m.dirty
           /\ m.valid => map.valid /\ pages \subseteq m.dirty
<1>1. PICK marked \in SUBSET (pages \cap Ram) :
        /\ pages \subseteq Ram => marked = pages
        /\ m = [map EXCEPT !.dirty = @ \cup marked, !.valid = @ /\ pages \subseteq Ram]
  BY DEF Mark
<1>2. m.dirty = map.dirty \cup marked /\ m.installed = map.installed
  BY <1>1
<1>3. m.valid = (map.valid /\ pages \subseteq Ram)
  BY <1>1
<1>4. m \in [installed : BOOLEAN, dirty : SUBSET Ram, valid : BOOLEAN]
  BY <1>1
<1> QED
  BY <1>1, <1>2, <1>3, <1>4

\* The initial state satisfies the inductive invariant.
LEMMA InitInv == Init => AccessInv
<1> SUFFICES ASSUME Init PROVE AccessInv
  OBVIOUS
<1>1. (CHOOSE h \in Heads : TRUE) \in Heads
  BY HeadsAssumption
<1>2. TypeOK
  <2>1. /\ state \in [mode : {Resident, Tracking, Frozen}, generation : 0..MaxGeneration]
        /\ bitmap \in [installed : BOOLEAN, dirty : SUBSET Ram, valid : BOOLEAN]
        /\ draining \in Participants
    BY GenerationAssumption, ParticipantsAssumption DEF Init, NoBitmap, Participants
  <2>2. wanted \in [Participants -> [head : Heads, pages : SUBSET Pages]]
    BY <1>1 DEF Init
  <2>3. seen \in [Participants -> [mode : {Resident, Tracking, Frozen}, generation : 0..MaxGeneration]]
    BY <2>1 DEF Init
  <2> QED
    BY <2>1, <2>2, <2>3 DEF Init, TypeOK
<1>3. ModeSound /\ DirtyCovers
  BY DEF Init, ModeSound, DirtyCovers, AdmissionMode, Resident, Tracking, Frozen
<1>4. ASSUME NEW p \in Participants PROVE ParticipantSound(p)
  <2>1. /\ active[p] = 0 /\ admitted[p] = {} /\ pc[p] = "idle" /\ phase = "open"
    BY DEF Init
  <2>2. Cardinality(admitted[p]) = 0
    BY <2>1, FS_EmptySet
  <2> QED
    BY <2>1, <2>2 DEF ParticipantSound, CountAgrees, Counted, RequestSound, DrainSound, Drained,
                      Announced
<1> QED
  BY <1>2, <1>3, <1>4 DEF AccessInv

\* Typing of the VMM's steps.
LEMMA VmmType ==
    ASSUME AccessInv, VmmStep PROVE TypeOK'
<1> USE DEF vmmVars, requestVars
<1>a. TypeOK /\ ModeSound
  BY DEF AccessInv
<1>0. ModeChanged => pc' \in [Participants -> {"idle", "retry", "loaded", "counted", "marking",
                              "reject", "notify", "notify-park", "park", "asleep"}]
  BY <1>a DEF ModeChanged, TypeOK
<1>1. CASE Freeze
  <2>1. state' \in [mode : {Resident, Tracking, Frozen}, generation : 0..MaxGeneration]
    BY <1>a, <1>1, GenerationAssumption DEF Freeze, TypeOK
  <2>2. draining' \in Participants
    BY <1>1, ParticipantsAssumption DEF Freeze, Participants
  <2>3. previous' \in {Resident, Tracking}
    BY <1>a, <1>1 DEF Freeze, TypeOK, ModeSound
  <2> QED
    BY <1>a, <1>1, <2>1, <2>2, <2>3 DEF Freeze, TypeOK
<1>2. CASE DrainCheck
  <2>1. draining' \in Participants
    BY <1>a, <1>2, ParticipantsAssumption DEF DrainCheck, TypeOK, Participants
  <2> QED
    BY <1>a, <1>2, <2>1 DEF DrainCheck, TypeOK
<1>3. CASE DrainTimeout
  BY <1>a, <1>0, <1>3 DEF DrainTimeout, Reopen, TypeOK
<1>4. CASE TakeDirtyRanges
  BY <1>a, <1>4 DEF TakeDirtyRanges, TypeOK
<1>5. CASE ConfigureTracking
  BY <1>a, <1>5 DEF ConfigureTracking, TypeOK, CleanBitmap
<1>6. CASE BeginTracking
  <2>1. state' \in [mode : {Resident, Tracking, Frozen}, generation : 0..MaxGeneration]
    BY <1>a, <1>6, GenerationAssumption DEF BeginTracking, TypeOK
  <2> QED
    BY <1>a, <1>0, <1>6, <2>1 DEF BeginTracking, TypeOK, CleanBitmap
<1>7. CASE ResumeResident
  <2>1. state' \in [mode : {Resident, Tracking, Frozen}, generation : 0..MaxGeneration]
    BY <1>a, <1>7, GenerationAssumption DEF ResumeResident, TypeOK
  <2> QED
    BY <1>a, <1>0, <1>7, <2>1 DEF ResumeResident, TypeOK, NoBitmap
<1>8. CASE ResumeMode
  BY <1>a, <1>0, <1>8 DEF ResumeMode, Reopen, TypeOK
<1> QED
  BY <1>1, <1>2, <1>3, <1>4, <1>5, <1>6, <1>7, <1>8 DEF VmmStep

\* Typing of a participant's steps.
LEMMA ParticipantType ==
    ASSUME AccessInv, NEW p \in Participants, WorkerStep(p) \/ DeviceStep(p) PROVE TypeOK'
<1> USE DEF vmmVars, requestVars
<1>a. TypeOK /\ ParticipantSound(p)
  BY DEF AccessInv
<1>0. /\ wanted[p].head \in Heads /\ wanted[p].pages \in SUBSET Pages
      /\ bitmap \in [installed : BOOLEAN, dirty : SUBSET Ram, valid : BOOLEAN]
  BY <1>a DEF TypeOK
<1>1. CASE ReloadState(p)
  BY <1>a, <1>1 DEF ReloadState, TypeOK
<1>2. CASE CountRequest(p)
  BY <1>a, <1>2 DEF CountRequest, TypeOK
<1>3. CASE RecheckState(p)
  BY <1>a, <1>3 DEF RecheckState, TypeOK
<1>4. CASE Admit(p)
  <2>1. bitmap' \in [installed : BOOLEAN, dirty : SUBSET Ram, valid : BOOLEAN]
    BY <1>0, <1>4, MarkFacts DEF Admit
  <2>2. exposed' \in [Participants -> [Heads -> SUBSET Pages]]
    BY <1>a, <1>0, <1>4 DEF Admit, TypeOK
  <2>3. admitted' \in [Participants -> SUBSET Heads]
    BY <1>a, <1>0, <1>4 DEF Admit, TypeOK
  <2> QED
    BY <1>a, <1>4, <2>1, <2>2, <2>3 DEF Admit, TypeOK
<1>5. ASSUME active[p] # 0 PROVE active[p] - 1 \in Nat
  BY <1>a, <1>5 DEF TypeOK
<1>6. CASE Reject(p)
  <2>1. active[p] # 0
    <3>1. Cardinality(admitted[p]) \in Nat
      BY <1>a, HeadsAssumption, FS_Subset, FS_CardinalityType DEF TypeOK
    <3> QED
      BY <1>a, <1>6, <3>1 DEF Reject, ParticipantSound, CountAgrees, Counted
  <2> QED
    BY <1>a, <1>5, <1>6, <2>1 DEF Reject, Uncount, TypeOK
<1>7. CASE Notify(p)
  BY <1>a, <1>7 DEF Notify, TypeOK
<1>8. CASE Park(p)
  BY <1>a, <1>8 DEF Park, TypeOK
<1>9. ASSUME NEW h \in Heads, EndRequest(p, h) PROVE TypeOK'
  <2>1. active[p] # 0
    <3>1. IsFiniteSet(admitted[p]) /\ h \in admitted[p]
      BY <1>a, <1>9, HeadsAssumption, FS_Subset DEF TypeOK, EndRequest
    <3>2. Cardinality(admitted[p]) # 0 /\ Cardinality(admitted[p]) \in Nat
      BY <3>1, FS_EmptySet, FS_CardinalityType
    <3> QED
      BY <1>a, <3>2 DEF ParticipantSound, CountAgrees, Counted
  <2>2. exposed' \in [Participants -> [Heads -> SUBSET Pages]]
    BY <1>a, <1>9 DEF EndRequest, TypeOK
  <2> QED
    BY <1>a, <1>5, <1>9, <2>1, <2>2 DEF EndRequest, Uncount, TypeOK
<1>10. ASSUME NEW h \in Heads, NEW pages \in SUBSET Pages, LoadState(p, h, pages) PROVE TypeOK'
  BY <1>a, <1>10 DEF LoadState, TypeOK
<1>11. ASSUME NEW h \in Heads, WriteMemory(p, h) PROVE TypeOK'
  BY <1>a, <1>11 DEF WriteMemory, TypeOK
<1>12. ASSUME NEW h \in Heads, NEW page \in Pages, MarkWrite(p, h, page) PROVE TypeOK'
  <2>1. bitmap' \in [installed : BOOLEAN, dirty : SUBSET Ram, valid : BOOLEAN]
    BY <1>0, <1>12, MarkFacts DEF MarkWrite
  <2>2. exposed' \in [Participants -> [Heads -> SUBSET Pages]]
    BY <1>a, <1>12 DEF MarkWrite, TypeOK
  <2> QED
    BY <1>a, <1>12, <2>1, <2>2 DEF MarkWrite, TypeOK
<1> QED
  BY <1>1, <1>2, <1>3, <1>4, <1>6, <1>7, <1>8, <1>9, <1>10, <1>11, <1>12 DEF WorkerStep, DeviceStep

\* The part of the state that belongs to one participant.
SameParticipant(q) ==
    /\ active'[q] = active[q] /\ admitted'[q] = admitted[q] /\ exposed'[q] = exposed[q]
    /\ pc'[q] = pc[q] /\ seen'[q] = seen[q] /\ wanted'[q] = wanted[q]

\* A step of one participant keeps the others' part of the invariant.
LEMMA Local ==
    ASSUME AccessInv, NEW p \in Participants,
           UNCHANGED <<state, trackingEnabled, phase, previous, draining>>,
           \A q \in Participants \ {p} : SameParticipant(q),
           bitmap'.installed = bitmap.installed, bitmap.dirty \subseteq bitmap'.dirty,
           bitmap'.valid => bitmap.valid,
           TypeOK', ParticipantSound(p)', DirtyCovers'
    PROVE  AccessInv'
<1>1. ModeSound'
  BY DEF AccessInv, ModeSound, AdmissionMode
<1>2. ASSUME NEW q \in Participants \ {p} PROVE ParticipantSound(q)'
  <2>1. SameParticipant(q) /\ ParticipantSound(q)
    BY DEF AccessInv
  <2>2. CountAgrees(q)' /\ RequestSound(q)' /\ DrainSound(q)'
    BY <2>1 DEF SameParticipant, ParticipantSound, CountAgrees, Counted, RequestSound,
                DrainSound, Drained, AdmissionMode
  <2>3. Announced(q)'
    BY <2>1 DEF SameParticipant, ParticipantSound, Announced
  <2> QED
    BY <2>2, <2>3 DEF ParticipantSound
<1> QED
  BY <1>1, <1>2 DEF AccessInv

\* Counting facts about the heads a participant owns.
LEMMA CountFacts ==
    ASSUME TypeOK, NEW p \in Participants
    PROVE  /\ Cardinality(admitted[p]) \in Nat
           /\ (Cardinality(admitted[p]) = 0) <=> (admitted[p] = {})
           /\ \A h \in Heads \ admitted[p] :
                Cardinality(admitted[p] \cup {h}) = Cardinality(admitted[p]) + 1
           /\ \A h \in admitted[p] :
                Cardinality(admitted[p] \ {h}) = Cardinality(admitted[p]) - 1
<1>1. IsFiniteSet(admitted[p])
  BY HeadsAssumption, FS_Subset DEF TypeOK
<1>2. /\ Cardinality(admitted[p]) \in Nat
      /\ (Cardinality(admitted[p]) = 0) <=> (admitted[p] = {})
  BY <1>1, FS_EmptySet, FS_CardinalityType
<1>3. ASSUME NEW h \in Heads \ admitted[p]
      PROVE  Cardinality(admitted[p] \cup {h}) = Cardinality(admitted[p]) + 1
  BY <1>1, FS_AddElement
<1>4. ASSUME NEW h \in admitted[p]
      PROVE  Cardinality(admitted[p] \ {h}) = Cardinality(admitted[p]) - 1
  BY <1>1, FS_RemoveElement
<1> QED
  BY <1>2, <1>3, <1>4

\* A participant's step preserves the invariant.
LEMMA ParticipantInv ==
    ASSUME AccessInv, NEW p \in Participants, WorkerStep(p) \/ DeviceStep(p) PROVE AccessInv'
<1> USE DEF vmmVars, requestVars
<1>a. TypeOK /\ ModeSound /\ DirtyCovers /\ ParticipantSound(p)
  BY DEF AccessInv
<1>t. TypeOK'
  BY ParticipantType
<1>b. /\ wanted[p].head \in Heads /\ wanted[p].pages \in SUBSET Pages
      /\ bitmap \in [installed : BOOLEAN, dirty : SUBSET Ram, valid : BOOLEAN]
      /\ active[p] \in Nat
  BY <1>a DEF TypeOK
<1>c. Cardinality(admitted[p]) \in Nat
  BY <1>a, CountFacts
<1>1. ASSUME ReloadState(p) \/ (\E h \in Heads, pages \in SUBSET Pages : LoadState(p, h, pages))
      PROVE  AccessInv'
  <2>1. /\ UNCHANGED <<state, trackingEnabled, bitmap, phase, previous, draining, written>>
        /\ active'[p] = active[p] /\ admitted'[p] = admitted[p] /\ exposed'[p] = exposed[p]
    BY <1>1 DEF ReloadState, LoadState
  <2>2. \A q \in Participants \ {p} : SameParticipant(q)
    BY <1>a, <1>1 DEF ReloadState, LoadState, SameParticipant, TypeOK
  <2>3. /\ pc[p] \in {"idle", "retry"} /\ pc'[p] \in {"loaded", "park"}
        /\ pc'[p] = "loaded" => seen'[p].mode # Frozen
    BY <1>a, <1>1 DEF ReloadState, LoadState, TypeOK
  <2>4. wanted'[p].head \notin admitted[p]
    <3>1. CASE ReloadState(p)
      BY <1>a, <3>1 DEF ReloadState, ParticipantSound, RequestSound
    <3>2. ASSUME NEW h \in Heads, NEW pages \in SUBSET Pages, LoadState(p, h, pages)
          PROVE  wanted'[p].head \notin admitted[p]
      BY <1>a, <3>2 DEF LoadState, TypeOK
    <3> QED
      BY <1>1, <3>1, <3>2
  <2>5. ParticipantSound(p)'
    BY <1>a, <2>1, <2>3, <2>4 DEF ParticipantSound, CountAgrees, Counted, RequestSound, DrainSound,
        Drained, Announced
  <2>6. DirtyCovers'
    BY <1>a, <2>1 DEF DirtyCovers
  <2> QED
    BY <1>t, <2>1, <2>2, <2>5, <2>6, Local
<1>2. CASE CountRequest(p)
  <2>1. ParticipantSound(p)'
    <3>1. active'[p] = active[p] + 1 /\ pc'[p] = "counted" /\ pc[p] = "loaded"
      BY <1>a, <1>2 DEF CountRequest, TypeOK
    <3>2. CountAgrees(p)'
      BY <1>a, <1>2, <1>c, <3>1 DEF CountRequest, ParticipantSound, CountAgrees, Counted
    <3> QED
      BY <1>a, <1>2, <3>1, <3>2 DEF CountRequest, ParticipantSound, RequestSound, DrainSound,
          Drained, Announced
  <2>2. \A q \in Participants \ {p} : SameParticipant(q)
    BY <1>a, <1>2 DEF CountRequest, SameParticipant, TypeOK
  <2> QED
    BY <1>a, <1>t, <1>2, <2>1, <2>2, Local DEF CountRequest, DirtyCovers
<1>3. CASE RecheckState(p)
  <2>1. ParticipantSound(p)'
    <3>1. /\ pc[p] = "counted" /\ pc'[p] \in {"marking", "reject"}
          /\ pc'[p] = "marking" => state = seen[p]
      BY <1>a, <1>3 DEF RecheckState, TypeOK
    <3>2. CountAgrees(p)'
      BY <1>a, <1>3, <3>1 DEF RecheckState, ParticipantSound, CountAgrees, Counted
    <3>3. pc'[p] = "marking" => phase = "open"
      BY <1>a, <3>1 DEF ParticipantSound, RequestSound, ModeSound
    <3> QED
      BY <1>a, <1>3, <3>1, <3>2, <3>3 DEF RecheckState, ParticipantSound, RequestSound,
          DrainSound, Drained, Announced, AdmissionMode
  <2>2. \A q \in Participants \ {p} : SameParticipant(q)
    BY <1>a, <1>3 DEF RecheckState, SameParticipant, TypeOK
  <2> QED
    BY <1>a, <1>t, <1>3, <2>1, <2>2, Local DEF RecheckState, DirtyCovers
<1>4. CASE Admit(p)
  <2>1. /\ bitmap'.installed = bitmap.installed /\ bitmap.dirty \subseteq bitmap'.dirty
        /\ bitmap'.valid => bitmap.valid
        /\ bitmap'.valid /\ seen[p].mode = Tracking => wanted[p].pages \subseteq bitmap'.dirty
    BY <1>b, <1>4, MarkFacts DEF Admit
  <2>2. /\ pc[p] = "marking" /\ pc'[p] = "idle"
        /\ admitted'[p] = admitted[p] \cup {wanted[p].head}
        /\ exposed'[p] = [exposed[p] EXCEPT ![wanted[p].head] = wanted[p].pages]
        /\ exposed[p] \in [Heads -> SUBSET Pages]
    BY <1>a, <1>4 DEF Admit, TypeOK
  <2>3. CountAgrees(p)'
    <3>1. wanted[p].head \notin admitted[p]
      BY <1>a, <2>2 DEF ParticipantSound, RequestSound
    <3>2. Cardinality(admitted'[p]) = Cardinality(admitted[p]) + 1
      BY <1>a, <1>b, <2>2, <3>1, CountFacts
    <3>3. active'[p] = active[p] /\ active[p] = Cardinality(admitted[p]) + 1
      BY <1>a, <1>4, <2>2 DEF Admit, ParticipantSound, CountAgrees, Counted
    <3>4. Counted(p)' = 0
      BY <2>2 DEF Counted
    <3> QED
      BY <1>c, <3>2, <3>3, <3>4 DEF CountAgrees
  <2>4. Announced(p)'
    <3> SUFFICES ASSUME trackingEnabled, bitmap'.valid, NEW h \in admitted'[p]
                 PROVE  exposed'[p][h] \cap Ram \subseteq bitmap'.dirty
      BY <1>4 DEF Admit, Announced
    <3>1. CASE h = wanted[p].head
      <4>1. seen[p].mode = Tracking
        BY <1>a, <2>2 DEF ParticipantSound, RequestSound, ModeSound
      <4> QED
        BY <1>b, <2>1, <2>2, <3>1, <4>1
    <3>2. CASE h # wanted[p].head
      <4>1. h \in admitted[p] /\ h \in Heads /\ exposed'[p][h] = exposed[p][h]
        BY <1>a, <2>2, <3>2 DEF TypeOK
      <4> QED
        BY <1>a, <2>1, <4>1 DEF ParticipantSound, Announced
    <3> QED
      BY <3>1, <3>2
  <2>5. ParticipantSound(p)'
    BY <1>a, <1>4, <2>2, <2>3, <2>4 DEF Admit, ParticipantSound, RequestSound, DrainSound, Drained
  <2>6. \A q \in Participants \ {p} : SameParticipant(q)
    BY <1>a, <1>4 DEF Admit, SameParticipant, TypeOK
  <2>7. DirtyCovers'
    BY <1>a, <1>4, <2>1 DEF Admit, DirtyCovers
  <2> QED
    BY <1>t, <1>4, <2>1, <2>5, <2>6, <2>7, Local DEF Admit
<1>5. CASE Reject(p)
  <2>1. /\ pc[p] = "reject" /\ pc'[p] \in {"notify-park", "park"}
        /\ active'[p] = active[p] - 1
    BY <1>a, <1>5 DEF Reject, Uncount, TypeOK
  <2>2. ParticipantSound(p)'
    <3>1. active[p] = Cardinality(admitted[p]) + 1 /\ admitted' = admitted /\ Counted(p)' = 0
      BY <1>a, <1>5, <2>1 DEF Reject, ParticipantSound, CountAgrees, Counted
    <3>2. CountAgrees(p)'
      BY <1>c, <2>1, <3>1 DEF CountAgrees
    <3> QED
      BY <1>a, <1>5, <2>1, <3>2 DEF Reject, ParticipantSound, RequestSound, DrainSound, Drained,
          Announced
  <2>3. \A q \in Participants \ {p} : SameParticipant(q)
    BY <1>a, <1>5 DEF Reject, Uncount, SameParticipant, TypeOK
  <2> QED
    BY <1>a, <1>t, <1>5, <2>2, <2>3, Local DEF Reject, DirtyCovers
<1>6. CASE Notify(p) \/ Park(p)
  <2>1. /\ UNCHANGED <<vmmVars, requestVars, written>>
        /\ pc[p] \in {"notify", "notify-park", "park"}
        /\ pc'[p] \in {"idle", "park", "asleep", "retry"}
        /\ pc[p] = "notify" <=> pc'[p] = "idle"
    BY <1>a, <1>6 DEF Notify, Park, TypeOK
  <2>2. ParticipantSound(p)'
    BY <1>a, <2>1 DEF ParticipantSound, CountAgrees, Counted, RequestSound, DrainSound, Drained,
        Announced
  <2>3. \A q \in Participants \ {p} : SameParticipant(q)
    BY <1>a, <1>6 DEF Notify, Park, SameParticipant, TypeOK
  <2> QED
    BY <1>a, <1>t, <2>1, <2>2, <2>3, Local DEF DirtyCovers
<1>7. ASSUME NEW h \in Heads, EndRequest(p, h) PROVE AccessInv'
  <2>1. /\ pc[p] = "idle" /\ h \in admitted[p] /\ pc'[p] \in {"notify", "idle"}
        /\ active'[p] = active[p] - 1 /\ admitted'[p] = admitted[p] \ {h}
        /\ exposed'[p] = [exposed[p] EXCEPT ![h] = {}]
        /\ exposed[p] \in [Heads -> SUBSET Pages]
    BY <1>a, <1>7 DEF EndRequest, Uncount, TypeOK
  <2>2. CountAgrees(p)'
    <3>1. Cardinality(admitted'[p]) = Cardinality(admitted[p]) - 1
      BY <1>a, <2>1, CountFacts
    <3>2. active[p] = Cardinality(admitted[p]) + 0 /\ Counted(p)' = 0
      BY <1>a, <2>1 DEF ParticipantSound, CountAgrees, Counted
    <3> QED
      BY <1>c, <2>1, <3>1, <3>2 DEF CountAgrees
  <2>3. ASSUME NEW g \in admitted'[p]
        PROVE  g \in admitted[p] /\ exposed'[p][g] = exposed[p][g]
    BY <1>a, <2>1 DEF TypeOK
  <2>4. ParticipantSound(p)'
    BY <1>a, <1>7, <2>1, <2>2, <2>3 DEF EndRequest, ParticipantSound, RequestSound, DrainSound,
        Drained, Announced
  <2>5. \A q \in Participants \ {p} : SameParticipant(q)
    BY <1>a, <1>7 DEF EndRequest, Uncount, SameParticipant, TypeOK
  <2> QED
    BY <1>a, <1>t, <1>7, <2>4, <2>5, Local DEF EndRequest, DirtyCovers
<1>8. ASSUME NEW h \in Heads, WriteMemory(p, h) PROVE AccessInv'
  <2>1. /\ UNCHANGED <<vmmVars, requestVars, pc>>
        /\ h \in admitted[p]
    BY <1>8 DEF WriteMemory
  <2>2. PICK page \in exposed[p][h] \cap Ram : written' = written \cup {page}
    BY <1>8 DEF WriteMemory
  <2>3. DirtyCovers'
    BY <1>a, <2>1, <2>2 DEF DirtyCovers, ParticipantSound, Announced
  <2>4. ParticipantSound(p)'
    BY <1>a, <2>1 DEF ParticipantSound, CountAgrees, Counted, RequestSound, DrainSound, Drained,
        Announced, AdmissionMode
  <2>5. \A q \in Participants \ {p} : SameParticipant(q)
    BY <2>1 DEF SameParticipant
  <2> QED
    BY <1>t, <2>1, <2>3, <2>4, <2>5, Local
<1>9. ASSUME NEW h \in Heads, NEW page \in Pages, MarkWrite(p, h, page) PROVE AccessInv'
  <2>1. /\ bitmap'.installed = bitmap.installed /\ bitmap.dirty \subseteq bitmap'.dirty
        /\ bitmap'.valid => bitmap.valid
        /\ bitmap'.valid /\ trackingEnabled => page \in bitmap'.dirty
    BY <1>b, <1>9, MarkFacts DEF MarkWrite
  <2>2. /\ pc[p] = "idle" /\ h \in admitted[p]
        /\ UNCHANGED <<state, trackingEnabled, phase, previous, draining, active,
                       admitted, wanted, seen, pc, written>>
        /\ exposed'[p] = [exposed[p] EXCEPT ![h] = @ \cup {page}]
        /\ exposed[p] \in [Heads -> SUBSET Pages]
    BY <1>a, <1>9 DEF MarkWrite, TypeOK
  <2>3. Announced(p)'
    <3> SUFFICES ASSUME trackingEnabled, bitmap'.valid, NEW g \in admitted[p]
                 PROVE  exposed'[p][g] \cap Ram \subseteq bitmap'.dirty
      BY <2>2 DEF Announced
    <3>1. g \in Heads /\ exposed'[p][g] \subseteq exposed[p][g] \cup {page}
          /\ (g # h => exposed'[p][g] = exposed[p][g])
      BY <1>a, <2>2 DEF TypeOK
    <3>2. exposed[p][g] \cap Ram \subseteq bitmap.dirty
      BY <1>a, <2>1 DEF ParticipantSound, Announced
    <3> QED
      BY <2>1, <3>1, <3>2
  <2>4. ParticipantSound(p)'
    BY <1>a, <2>2, <2>3 DEF ParticipantSound, CountAgrees, Counted, RequestSound, DrainSound,
        Drained, AdmissionMode
  <2>5. \A q \in Participants \ {p} : SameParticipant(q)
    BY <1>a, <1>9 DEF MarkWrite, SameParticipant, TypeOK
  <2>6. DirtyCovers'
    BY <1>a, <2>1, <2>2 DEF DirtyCovers
  <2> QED
    BY <1>t, <2>1, <2>2, <2>4, <2>5, <2>6, Local
<1> QED
  BY <1>1, <1>2, <1>3, <1>4, <1>5, <1>6, <1>7, <1>8, <1>9 DEF WorkerStep, DeviceStep

\* A step of the VMM preserves the invariant.
LEMMA VmmInv ==
    ASSUME AccessInv, VmmStep PROVE AccessInv'
<1> USE DEF vmmVars, requestVars
<1>a. TypeOK /\ ModeSound /\ DirtyCovers
  BY DEF AccessInv
<1>s. \A p \in Participants : ParticipantSound(p)
  BY DEF AccessInv
<1>t. TypeOK'
  BY VmmType
<1>1. CASE Freeze
  <2>1. ModeSound' /\ DirtyCovers' /\ AdmissionMode' = AdmissionMode
    BY <1>a, <1>1 DEF Freeze, ModeSound, DirtyCovers, AdmissionMode, Frozen
  <2>2. ASSUME NEW p \in Participants PROVE ParticipantSound(p)'
    BY <1>a, <1>s, <1>1, <2>1 DEF Freeze, ParticipantSound, CountAgrees, Counted, RequestSound,
        DrainSound, Drained, Announced, TypeOK, Participants
  <2> QED
    BY <1>t, <2>1, <2>2 DEF AccessInv
<1>2. CASE DrainCheck
  <2>1. /\ UNCHANGED <<state, trackingEnabled, bitmap, previous, requestVars, pc, written>>
        /\ phase = "draining" /\ phase' \in {"draining", "held"}
    BY <1>2 DEF DrainCheck
  <2>2. ModeSound' /\ DirtyCovers' /\ AdmissionMode' = AdmissionMode
    BY <1>a, <2>1 DEF ModeSound, DirtyCovers, AdmissionMode
  <2>3. ASSUME NEW p \in Participants, Drained(p)' PROVE Drained(p) \/ active[p] = 0
    <3>1. p \in 1..N /\ draining \in 1..N /\ N \in Nat
      BY <1>a, ParticipantsAssumption DEF TypeOK, Participants
    <3> QED
      BY <1>2, <2>3, <3>1 DEF DrainCheck, Drained
  <2>4. ASSUME NEW p \in Participants PROVE ParticipantSound(p)'
    <3>1. DrainSound(p)'
      <4> SUFFICES ASSUME Drained(p)' PROVE admitted[p] = {} /\ pc[p] # "marking"
        BY <2>1 DEF DrainSound
      <4>1. CASE Drained(p)
        BY <1>s, <4>1 DEF ParticipantSound, DrainSound
      <4>2. CASE active[p] = 0
        <5>1. Cardinality(admitted[p]) + Counted(p) = 0 /\ Cardinality(admitted[p]) \in Nat
          BY <1>a, <1>s, <4>2, CountFacts DEF ParticipantSound, CountAgrees
        <5>2. Counted(p) = 0 /\ Cardinality(admitted[p]) = 0
          BY <5>1 DEF Counted
        <5> QED
          BY <1>a, <5>2, CountFacts DEF Counted
      <4> QED
        BY <2>3, <4>1, <4>2
    <3> QED
      BY <1>s, <2>1, <2>2, <3>1 DEF ParticipantSound, CountAgrees, Counted, RequestSound, Announced
  <2> QED
    BY <1>t, <2>2, <2>4 DEF AccessInv
<1>3. CASE DrainTimeout \/ ResumeMode
  <2>1. /\ UNCHANGED <<trackingEnabled, bitmap, requestVars, written>>
        /\ phase # "open" /\ phase' = "open" /\ state'.mode = previous /\ ModeChanged
    BY <1>a, <1>3 DEF DrainTimeout, ResumeMode, Reopen, TypeOK
  <2>2. ModeSound' /\ DirtyCovers' /\ AdmissionMode' = AdmissionMode
    BY <1>a, <2>1 DEF ModeSound, DirtyCovers, AdmissionMode, TypeOK, Resident, Tracking, Frozen
  <2>3. ASSUME NEW p \in Participants PROVE ParticipantSound(p)'
    <3>1. pc'[p] = IF pc[p] = "asleep" THEN "park" ELSE pc[p]
      BY <2>1 DEF ModeChanged
    <3> QED
      BY <1>s, <2>1, <2>2, <3>1 DEF ParticipantSound, CountAgrees, Counted, RequestSound,
          DrainSound, Drained, Announced
  <2> QED
    BY <1>t, <2>2, <2>3 DEF AccessInv
<1>4. CASE TakeDirtyRanges
  <2>1. /\ UNCHANGED <<state, trackingEnabled, phase, previous, draining, requestVars, pc>>
        /\ bitmap'.installed = bitmap.installed /\ written' = {} /\ phase = "held"
    BY <1>a, <1>4 DEF TakeDirtyRanges, TypeOK
  <2>2. ModeSound' /\ DirtyCovers' /\ AdmissionMode' = AdmissionMode
    BY <1>a, <2>1 DEF ModeSound, DirtyCovers, AdmissionMode
  <2>3. ASSUME NEW p \in Participants PROVE ParticipantSound(p)'
    <3>1. admitted[p] = {}
      BY <1>s, <2>1 DEF ParticipantSound, DrainSound, Drained
    <3> QED
      BY <1>s, <2>1, <2>2, <3>1 DEF ParticipantSound, CountAgrees, Counted, RequestSound,
          DrainSound, Drained, Announced
  <2> QED
    BY <1>t, <2>2, <2>3 DEF AccessInv
<1>5. CASE ConfigureTracking
  <2>1. /\ UNCHANGED <<state, trackingEnabled, phase, previous, draining, requestVars, pc>>
        /\ bitmap'.installed /\ written' = {} /\ phase = "held"
    BY <1>5 DEF ConfigureTracking, CleanBitmap
  <2>2. ModeSound' /\ DirtyCovers' /\ AdmissionMode' = AdmissionMode
    BY <1>a, <2>1 DEF ModeSound, DirtyCovers, AdmissionMode
  <2>3. ASSUME NEW p \in Participants PROVE ParticipantSound(p)'
    <3>1. admitted[p] = {}
      BY <1>s, <2>1 DEF ParticipantSound, DrainSound, Drained
    <3> QED
      BY <1>s, <2>1, <2>2, <3>1 DEF ParticipantSound, CountAgrees, Counted, RequestSound,
          DrainSound, Drained, Announced
  <2> QED
    BY <1>t, <2>2, <2>3 DEF AccessInv
<1>6. CASE BeginTracking \/ ResumeResident
  <2>1. /\ UNCHANGED requestVars /\ ModeChanged /\ phase = "held" /\ phase' = "open"
        /\ written' = {}
        /\ \/ trackingEnabled' /\ state'.mode = Tracking /\ bitmap'.installed
           \/ ~trackingEnabled' /\ state'.mode = Resident
    BY <1>6 DEF BeginTracking, ResumeResident, CleanBitmap
  <2>2. ModeSound' /\ DirtyCovers'
    BY <2>1, <1>t DEF ModeSound, DirtyCovers, AdmissionMode, TypeOK, Resident, Tracking, Frozen
  <2>3. ASSUME NEW p \in Participants PROVE ParticipantSound(p)'
    <3>1. admitted[p] = {} /\ pc[p] # "marking"
      BY <1>s, <2>1 DEF ParticipantSound, DrainSound, Drained
    <3>2. pc'[p] = IF pc[p] = "asleep" THEN "park" ELSE pc[p]
      BY <2>1 DEF ModeChanged
    <3> QED
      BY <1>s, <2>1, <3>1, <3>2 DEF ParticipantSound, CountAgrees, Counted, RequestSound,
          DrainSound, Drained, Announced
  <2> QED
    BY <1>t, <2>2, <2>3 DEF AccessInv
<1> QED
  BY <1>1, <1>2, <1>3, <1>4, <1>5, <1>6 DEF VmmStep

\* Every reachable state satisfies the inductive invariant.
THEOREM AccessInvariant == Spec => []AccessInv
<1>1. AccessInv /\ [Next]_vars => AccessInv'
  <2> SUFFICES ASSUME AccessInv, [Next]_vars PROVE AccessInv'
    OBVIOUS
  <2>1. CASE Next
    BY <2>1, VmmInv, ParticipantInv DEF Next
  <2>2. CASE UNCHANGED vars
    <3>1. TypeOK' /\ ModeSound' /\ DirtyCovers'
      BY <2>2 DEF vars, vmmVars, requestVars, AccessInv, TypeOK, ModeSound, DirtyCovers,
                  AdmissionMode
    <3>2. ASSUME NEW p \in Participants PROVE ParticipantSound(p)'
      BY <2>2 DEF vars, vmmVars, requestVars, AccessInv, ParticipantSound, CountAgrees, Counted,
                  RequestSound, DrainSound, Drained, Announced, AdmissionMode
    <3> QED
      BY <3>1, <3>2 DEF AccessInv
  <2> QED
    BY <2>1, <2>2
<1> QED
  BY <1>1, InitInv, PTL DEF Spec

\* For any number of queues, heads and pages, no worker owns a descriptor chain
\* while the VMM holds the boundary that freeze returned.
THEOREM FreezeExcludesHolds == Spec => []FreezeExcludes
<1>1. AccessInv => FreezeExcludes
  BY DEF AccessInv, ParticipantSound, DrainSound, Drained, FreezeExcludes
<1> QED
  BY <1>1, AccessInvariant, PTL

\* No page written in a tracked generation with a valid inventory escapes the
\* bitmap and what was harvested from it.
THEOREM DirtyCoversHolds == Spec => []DirtyCovers
<1>1. AccessInv => DirtyCovers
  BY DEF AccessInv
<1> QED
  BY <1>1, AccessInvariant, PTL

\* The mode the capture path sees.
SeenMode == CASE phase = "held" -> Frozen
              [] phase = "draining" -> previous
              [] OTHER -> state.mode

\* Until a freeze has returned it is the mode requests are admitted in.
LEMMA SeenModeFacts ==
    ASSUME AccessInv
    PROVE  /\ phase = "held" => SeenMode = "Frozen"
           /\ phase # "held" => SeenMode = AdmissionMode /\ SeenMode # "Frozen"
           /\ trackingEnabled <=> (AdmissionMode = "Tracking")
  BY DEF AccessInv, TypeOK, ModeSound, SeenMode, AdmissionMode, Frozen, Tracking, Resident

\* A step of the VMM is a freeze, a replacement or a thaw of HostMemory, or
\* leaves what it promises alone.
LEMMA VmmRefines ==
    ASSUME AccessInv, VmmStep PROVE [Host!Next]_(Host!hostVars)
<1> USE DEF vmmVars, requestVars
<1>a. TypeOK /\ ModeSound
  BY DEF AccessInv
<1>1. CASE Freeze \/ DrainTimeout
  <2>1. UNCHANGED <<bitmap, written>>
    BY <1>1 DEF Freeze, DrainTimeout
  <2>2. SeenMode' = SeenMode
    BY <1>a, <1>1 DEF Freeze, DrainTimeout, Reopen, SeenMode, TypeOK
  <2> QED
    BY <2>1, <2>2 DEF Host!hostVars, SeenMode
<1>2. CASE DrainCheck
  <2>1. /\ UNCHANGED <<state, previous, bitmap, written>> /\ phase = "draining"
        /\ phase' \in {"draining", "held"}
    BY <1>2 DEF DrainCheck
  <2>2. CASE phase' = "draining"
    BY <2>1, <2>2 DEF Host!hostVars
  <2>3. CASE phase' = "held"
    BY <1>a, <2>1, <2>3 DEF Host!Next, Host!Freeze, TypeOK, Resident, Tracking, Frozen
  <2> QED
    BY <2>1, <2>2, <2>3
<1>3. CASE ConfigureTracking
  BY <1>3 DEF ConfigureTracking, CleanBitmap, Host!Next, Host!Replace, Frozen
<1>4. CASE BeginTracking
  BY <1>4 DEF BeginTracking, CleanBitmap, Host!Next, Host!ThawTracking, Frozen, Tracking
<1>5. CASE ResumeResident
  BY <1>5 DEF ResumeResident, NoBitmap, Host!Next, Host!ThawResident, Frozen, Resident
<1>6. CASE ResumeMode
  <2>1. /\ phase = "held" /\ phase' = "open" /\ state'.mode = previous
        /\ UNCHANGED <<bitmap, written>>
    BY <1>a, <1>6 DEF ResumeMode, Reopen, TypeOK
  <2>2. Host!ThawMode(previous)
    BY <2>1 DEF Host!ThawMode, Frozen
  <2>3. previous \in {"Resident", "Tracking"}
    BY <1>a DEF TypeOK, Resident, Tracking
  <2> QED
    BY <2>2, <2>3 DEF Host!Next
<1>7. CASE TakeDirtyRanges
  <2>1. /\ phase = "held" /\ UNCHANGED <<state, phase, previous>> /\ written' = {}
        /\ bitmap'.dirty = {} /\ bitmap'.valid = bitmap.valid
    BY <1>a, <1>7 DEF TakeDirtyRanges, TypeOK
  <2> QED
    BY <2>1 DEF Host!Next, Host!Harvest, Frozen
<1> QED
  BY <1>1, <1>2, <1>3, <1>4, <1>5, <1>6, <1>7 DEF VmmStep

\* A participant's step announces, writes, or leaves what HostMemory promises
\* alone.
LEMMA ParticipantRefines ==
    ASSUME AccessInv, NEW p \in Participants, WorkerStep(p) \/ DeviceStep(p)
    PROVE  [Host!Next]_(Host!hostVars)
<1> USE DEF vmmVars, requestVars
<1>a. TypeOK /\ ModeSound /\ ParticipantSound(p)
  BY DEF AccessInv
<1>b. /\ wanted[p].pages \in SUBSET Pages
      /\ bitmap \in [installed : BOOLEAN, dirty : SUBSET Ram, valid : BOOLEAN]
  BY <1>a DEF TypeOK
<1>1. ASSUME UNCHANGED <<state, bitmap, phase, previous, written>>
      PROVE  [Host!Next]_(Host!hostVars)
  BY <1>1 DEF Host!hostVars
<1>2. ASSUME UNCHANGED <<state, phase, previous, written>>, phase # "held",
             bitmap'.dirty \in SUBSET Ram, bitmap.dirty \subseteq bitmap'.dirty,
             bitmap'.valid \in BOOLEAN, bitmap'.valid => bitmap.valid
      PROVE  Host!Announce
  <2>1. SeenMode # "Frozen" /\ SeenMode' = SeenMode
    BY <1>2, SeenModeFacts DEF SeenMode
  <2>2. bitmap'.dirty = bitmap.dirty \cup bitmap'.dirty
    BY <1>2
  <2>3. bitmap'.valid \in {bitmap.valid, FALSE}
    BY <1>a, <1>2 DEF TypeOK
  <2> QED
    BY <1>2, <2>1, <2>2, <2>3 DEF Host!Announce, SeenMode
<1>3. CASE Admit(p)
  <2>1. /\ bitmap' \in [installed : BOOLEAN, dirty : SUBSET Ram, valid : BOOLEAN]
        /\ bitmap.dirty \subseteq bitmap'.dirty
        /\ bitmap'.valid => bitmap.valid
    BY <1>b, <1>3, MarkFacts DEF Admit
  <2>2. phase # "held"
    BY <1>a, <1>3 DEF Admit, ParticipantSound, DrainSound, Drained
  <2>3. UNCHANGED <<state, phase, previous, written>>
    BY <1>3 DEF Admit
  <2>4. bitmap'.dirty \in SUBSET Ram /\ bitmap'.valid \in BOOLEAN
    BY <2>1
  <2>5. Host!Announce
    BY <1>2, <2>1, <2>2, <2>3, <2>4
  <2> QED
    BY <2>5 DEF Host!Next
<1>4. ASSUME NEW h \in Heads, NEW page \in Pages, MarkWrite(p, h, page)
      PROVE  [Host!Next]_(Host!hostVars)
  <2>1. /\ bitmap' \in [installed : BOOLEAN, dirty : SUBSET Ram, valid : BOOLEAN]
        /\ bitmap.dirty \subseteq bitmap'.dirty
        /\ bitmap'.valid => bitmap.valid
    BY <1>b, <1>4, MarkFacts DEF MarkWrite
  <2>2. phase # "held"
    BY <1>a, <1>4 DEF MarkWrite, ParticipantSound, DrainSound, Drained
  <2>3. UNCHANGED <<state, phase, previous, written>>
    BY <1>4 DEF MarkWrite
  <2>4. bitmap'.dirty \in SUBSET Ram /\ bitmap'.valid \in BOOLEAN
    BY <2>1
  <2>5. Host!Announce
    BY <1>2, <2>1, <2>2, <2>3, <2>4
  <2> QED
    BY <2>5 DEF Host!Next
<1>5. ASSUME NEW h \in Heads, WriteMemory(p, h) PROVE [Host!Next]_(Host!hostVars)
  <2>1. PICK page \in exposed[p][h] \cap Ram : written' = written \cup {page}
    BY <1>5 DEF WriteMemory
  <2>2. h \in admitted[p] /\ UNCHANGED <<state, bitmap, phase, previous>>
    BY <1>5 DEF WriteMemory
  <2>3. phase # "held"
    BY <1>a, <2>2 DEF ParticipantSound, DrainSound, Drained
  <2>4. /\ SeenMode # "Frozen" /\ SeenMode' = SeenMode
        /\ SeenMode = "Tracking" => trackingEnabled
    BY <2>2, <2>3, SeenModeFacts DEF SeenMode
  <2>5. SeenMode = "Tracking" /\ bitmap.valid => page \in bitmap.dirty
    BY <1>a, <2>2, <2>4 DEF ParticipantSound, Announced
  <2>6. Host!Write(page)
    BY <2>1, <2>2, <2>4, <2>5 DEF Host!Write, SeenMode
  <2> QED
    BY <2>6 DEF Host!Next
<1> QED
  BY <1>1, <1>3, <1>4, <1>5 DEF WorkerStep, DeviceStep, ReloadState, CountRequest, RecheckState,
      Reject, Notify, Park, EndRequest, LoadState

\* The access domain, with any number of queues, implements what HostMemory
\* promises the capture path.
THEOREM Refinement == Spec => ImplementsHostMemory
<1>1. Init => Host!Init
  BY DEF Init, Host!Init, NoBitmap, Resident
<1>2. AccessInv /\ [Next]_vars => [Host!Next]_(Host!hostVars)
  <2> SUFFICES ASSUME AccessInv, [Next]_vars PROVE [Host!Next]_(Host!hostVars)
    OBVIOUS
  <2>1. CASE Next
    BY <2>1, VmmRefines, ParticipantRefines DEF Next
  <2>2. CASE UNCHANGED vars
    BY <2>2 DEF vars, vmmVars, Host!hostVars
  <2> QED
    BY <2>1, <2>2
<1> QED
  BY <1>1, <1>2, AccessInvariant, PTL DEF Spec, ImplementsHostMemory, Host!Spec

=============================================================================
