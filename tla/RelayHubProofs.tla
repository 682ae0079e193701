--------------------------- MODULE RelayHubProofs ---------------------------
(***************************************************************************)
(* Proofs about RelayHub, for any number of sources, callers, relays and   *)
(* consumer ids and any limits.  What may happen from outside (Events) is  *)
(* restricted only where a theorem says so; with the events it excludes    *)
(* TLC finds a behaviour that breaks the property.                         *)
(***************************************************************************)
EXTENDS RelayHub, TLAPS

-----------------------------------------------------------------------------
(* Types.  A call that has left the lookup has a relay and a consumer id.  *)

InCall(c) == pc[c] \notin {"idle", "lookup"}

CallsHaveRelay == \A c \in Callers : /\ InCall(c) => prel[c] \in Relays
                                     /\ pc[c] # "idle" => cid[c] \in Ids
Types == TypeOK /\ CallsHaveRelay

\* Changing one entry of the consumers maps keeps their type.
LEMMA EntryKept ==
  ASSUME NEW f \in [Relays -> [Ids -> Callers \cup {None}]], NEW r \in Relays, NEW i \in Ids,
         NEW v \in Callers \cup {None}
  PROVE  [f EXCEPT ![r][i] = v] \in [Relays -> [Ids -> Callers \cup {None}]]
BY Zenon

\* A call that returns leaves the types of the calls as they are.
LEMMA ReturnKept ==
  ASSUME NEW c \in Callers, CallTypes, CallsHaveRelay, Return(c)
  PROVE  CallTypes' /\ CallsHaveRelay'
<1>1. CallTypes'
  BY Zenon DEF CallTypes, Return, Places
<1>2. CallsHaveRelay'
  BY Zenon DEF CallsHaveRelay, CallTypes, Return, InCall
<1> QED BY <1>1, <1>2, Zenon

\* So does one that goes on with its relay.
LEMMA GotoKept ==
  ASSUME NEW c \in Callers, NEW where \in Places, CallTypes, CallsHaveRelay, InCall(c),
         Goto(c, where)
  PROVE  CallTypes' /\ CallsHaveRelay'
<1>1. CallTypes'
  BY Zenon DEF CallTypes, Goto
<1>2. CallsHaveRelay'
  BY Zenon DEF CallsHaveRelay, CallTypes, Goto, InCall
<1> QED BY <1>1, <1>2, Zenon

\* Every step of the hub, of a relay, of a consumer and of a caller keeps the types.
LEMMA TypesStep ==
  ASSUME Types, [Next]_vars
  PROVE  Types'
<1>1. CASE HubStart
  BY <1>1, HubAssumption, Zenon DEF HubStart, Types, TypeOK, HubTypes, RelayTypes, CallTypes,
       ConsumerTypes, CallsHaveRelay, InCall, hubVars, relayVars, callerVars
<1>2. CASE HubLaunch
  BY <1>2, HubAssumption, Zenon DEF HubLaunch, Types, TypeOK, HubTypes, RelayTypes, CallTypes,
       ConsumerTypes, CallsHaveRelay, InCall, hubVars, relayVars, callerVars
<1>3. CASE SignalStop
  BY <1>3, HubAssumption, Zenon DEF SignalStop, Types, TypeOK, HubTypes, RelayTypes, CallTypes,
       ConsumerTypes, CallsHaveRelay, InCall, hubVars, relayVars, callerVars
<1>4. CASE SignalCancel
  BY <1>4, HubAssumption, Zenon DEF SignalCancel, Types, TypeOK, HubTypes, RelayTypes, CallTypes,
       ConsumerTypes, CallsHaveRelay, InCall, hubVars, relayVars, callerVars
<1>5. CASE WaitStop
  BY <1>5, HubAssumption, Zenon DEF WaitStop, Types, TypeOK, HubTypes, RelayTypes, CallTypes,
       ConsumerTypes, CallsHaveRelay, InCall, hubVars, relayVars, callerVars
<1>6. CASE ParentCancel
  BY <1>6, HubAssumption, Zenon DEF ParentCancel, Types, TypeOK, HubTypes, RelayTypes, CallTypes,
       ConsumerTypes, CallsHaveRelay, InCall, hubVars, relayVars, callerVars
<1>7. CASE HubTick
  <2>1. HubTypes'
    BY <1>7, HubAssumption, ZenonT(60) DEF HubTick, IdleSource, Types, TypeOK, HubTypes, InCall, hubVars
  <2>2. RelayTypes'
    BY <1>7, Zenon DEF HubTick, Types, TypeOK, RelayTypes, relayVars
  <2>3. CallTypes' /\ CallsHaveRelay'
    BY <1>7, Zenon DEF HubTick, Types, TypeOK, CallTypes, CallsHaveRelay, callerVars, InCall
  <2>4. ConsumerTypes'
    BY <1>7, Zenon DEF HubTick, Types, TypeOK, ConsumerTypes, callerVars
  <2> QED BY <2>1, <2>2, <2>3, <2>4, Zenon DEF Types, TypeOK
<1>8. CASE HubDone
  BY <1>8, HubAssumption, SMTT(40) DEF HubDone, Types, TypeOK, HubTypes, RelayTypes, CallTypes,
       ConsumerTypes, CallsHaveRelay, InCall, hubVars, relayVars, callerVars
<1>9. CASE RelayClosed
  BY <1>9, HubAssumption, Zenon DEF RelayClosed, Types, TypeOK, HubTypes, RelayTypes, CallTypes,
       ConsumerTypes, CallsHaveRelay, InCall, hubVars, relayVars, callerVars
<1>10. CASE HubDelete
  BY <1>10, HubAssumption, Zenon DEF HubDelete, Types, TypeOK, HubTypes, RelayTypes, CallTypes,
       ConsumerTypes, CallsHaveRelay, InCall, hubVars, relayVars, callerVars
<1>11. CASE HubStartRelay
  <2>1. HubTypes'
    BY <1>11, HubAssumption, SMTT(40) DEF HubStartRelay, Types, TypeOK, HubTypes, InCall, hubVars
  <2>2. RelayTypes'
    BY <1>11, HubAssumption, ZenonT(40) DEF HubStartRelay, HubTypes, Types, TypeOK, RelayTypes, InCall,
         relayVars
  <2>3. CallTypes' /\ CallsHaveRelay'
    BY <1>11, Zenon DEF HubStartRelay, Types, TypeOK, CallTypes, CallsHaveRelay, callerVars, InCall
  <2>4. ConsumerTypes'
    BY <1>11, Zenon DEF HubStartRelay, Types, TypeOK, ConsumerTypes, callerVars
  <2> QED BY <2>1, <2>2, <2>3, <2>4, Zenon DEF Types, TypeOK
<1>12. CASE HubStartFailed
  BY <1>12, HubAssumption, Zenon DEF HubStartFailed, Types, TypeOK, HubTypes, RelayTypes, CallTypes,
       ConsumerTypes, CallsHaveRelay, InCall, hubVars, relayVars, callerVars
<1>13. ASSUME NEW r \in Relays, RelayClose(r) PROVE Types'
  <2>1. HubTypes'
    BY <1>13, HubAssumption, Zenon DEF RelayClose, Types, TypeOK, HubTypes, InCall, hubVars
  <2>2. RelayTypes'
    BY <1>13, HubAssumption, ZenonT(40) DEF RelayClose, Types, TypeOK, RelayTypes, InCall, relayVars
  <2>3. CallTypes' /\ CallsHaveRelay'
    BY <1>13, Zenon DEF RelayClose, Types, TypeOK, CallTypes, CallsHaveRelay, callerVars, InCall
  <2>4. ConsumerTypes'
    BY <1>13, Zenon DEF RelayClose, Types, TypeOK, ConsumerTypes, callerVars
  <2> QED BY <2>1, <2>2, <2>3, <2>4, Zenon DEF Types, TypeOK
<1>14. ASSUME NEW r \in Relays, OpenDemuxer(r) PROVE Types'
  <2>1. HubTypes'
    BY <1>14, Zenon DEF OpenDemuxer, Types, TypeOK, HubTypes, hubVars
  <2>2. RelayTypes'
    BY <1>14, HubAssumption, ZenonT(40) DEF OpenDemuxer, Types, TypeOK, RelayTypes, InCall, relayVars
  <2>3. CallTypes' /\ CallsHaveRelay'
    BY <1>14, Zenon DEF OpenDemuxer, Types, TypeOK, CallTypes, CallsHaveRelay, callerVars, InCall
  <2>4. ConsumerTypes'
    BY <1>14, Zenon DEF OpenDemuxer, Types, TypeOK, ConsumerTypes, callerVars
  <2> QED BY <2>1, <2>2, <2>3, <2>4, Zenon DEF Types, TypeOK
<1>15. ASSUME NEW r \in Relays, GetCodecs(r) PROVE Types'
  BY <1>15, HubAssumption, ZenonT(60) DEF GetCodecs, Types, TypeOK, HubTypes, RelayTypes, CallTypes,
       ConsumerTypes, CallsHaveRelay, InCall, hubVars, relayVars, callerVars
<1>16. ASSUME NEW r \in Relays, GetCodecsFails(r) PROVE Types'
  BY <1>16, HubAssumption, SMTT(40) DEF GetCodecsFails, Attached, Types, TypeOK, HubTypes, RelayTypes,
       CallTypes, ConsumerTypes, CallsHaveRelay, InCall, hubVars, relayVars, callerVars
<1>17. ASSUME NEW r \in Relays, Sweep(r) PROVE Types'
  BY <1>17, HubAssumption, SMTT(40) DEF Sweep, Types, TypeOK, HubTypes, RelayTypes, CallTypes,
       ConsumerTypes, CallsHaveRelay, InCall, hubVars, relayVars, callerVars
<1>18. ASSUME NEW r \in Relays, MainDone(r) PROVE Types'
  BY <1>18, HubAssumption, SMTT(40) DEF MainDone, Attached, Types, TypeOK, HubTypes, RelayTypes,
       CallTypes, ConsumerTypes, CallsHaveRelay, InCall, hubVars, relayVars, callerVars
<1>19. ASSUME NEW r \in Relays, SweepClose(r) PROVE Types'
  BY <1>19, HubAssumption, SMTT(40) DEF SweepClose, Types, TypeOK, HubTypes, RelayTypes, CallTypes,
       ConsumerTypes, CallsHaveRelay, InCall, hubVars, relayVars, callerVars
<1>20. ASSUME NEW r \in Relays, SweepClosed(r) PROVE Types'
  BY <1>20, HubAssumption, ZenonT(60) DEF SweepClosed, Types, TypeOK, HubTypes, RelayTypes, CallTypes,
       ConsumerTypes, CallsHaveRelay, InCall, hubVars, relayVars, callerVars
<1>21. ASSUME NEW r \in Relays, SweepDelete(r) PROVE Types'
  BY <1>21, HubAssumption, SMTT(40) DEF SweepDelete, Types, TypeOK, HubTypes, RelayTypes, CallTypes,
       ConsumerTypes, CallsHaveRelay, InCall, hubVars, relayVars, callerVars
<1>22. ASSUME NEW r \in Relays, DemuxerRemove(r) PROVE Types'
  BY <1>22, HubAssumption, ZenonT(60) DEF DemuxerRemove, Types, TypeOK, HubTypes, RelayTypes, CallTypes,
       ConsumerTypes, CallsHaveRelay, InCall, hubVars, relayVars, callerVars
<1>23. ASSUME NEW r \in Relays, DemuxerClose(r) PROVE Types'
  BY <1>23, HubAssumption, ZenonT(60) DEF DemuxerClose, Types, TypeOK, HubTypes, RelayTypes, CallTypes,
       ConsumerTypes, CallsHaveRelay, InCall, hubVars, relayVars, callerVars
<1>24. ASSUME NEW r \in Relays, ReadFails(r) PROVE Types'
  BY <1>24, HubAssumption, ZenonT(60) DEF ReadFails, Types, TypeOK, HubTypes, RelayTypes, CallTypes,
       ConsumerTypes, CallsHaveRelay, InCall, hubVars, relayVars, callerVars
<1>25. ASSUME NEW r \in Relays, ReadDone(r) PROVE Types'
  BY <1>25, HubAssumption, ZenonT(60) DEF ReadDone, Types, TypeOK, HubTypes, RelayTypes, CallTypes,
       ConsumerTypes, CallsHaveRelay, InCall, hubVars, relayVars, callerVars
<1>26. ASSUME NEW c \in Callers, MuxerFails(c) PROVE Types'
  BY <1>26, HubAssumption, ZenonT(60) DEF MuxerFails, Types, TypeOK, HubTypes, RelayTypes, CallTypes,
       ConsumerTypes, CallsHaveRelay, InCall, hubVars, relayVars, callerVars
<1>27. ASSUME NEW c \in Callers, ConsumerDone(c) PROVE Types'
  BY <1>27, HubAssumption, ZenonT(60) DEF ConsumerDone, Types, TypeOK, HubTypes, RelayTypes, CallTypes,
       ConsumerTypes, CallsHaveRelay, InCall, hubVars, relayVars, callerVars
<1>28. ASSUME NEW c \in Callers, ConsumerExit(c) PROVE Types'
  BY <1>28, HubAssumption, ZenonT(60) DEF ConsumerExit, Types, TypeOK, HubTypes, RelayTypes, CallTypes,
       ConsumerTypes, CallsHaveRelay, InCall, hubVars, relayVars, callerVars
<1>29. ASSUME NEW c \in Callers, Consume(c) PROVE Types'
  BY <1>29, HubAssumption, SMTT(40) DEF Consume, Places, Types, TypeOK, HubTypes, RelayTypes, CallTypes,
       ConsumerTypes, CallsHaveRelay, InCall, hubVars, relayVars, callerVars
<1>30. ASSUME NEW c \in Callers, NotStarted(c) PROVE Types'
  <2>1. HubTypes'
    BY <1>30, Zenon DEF NotStarted, Types, TypeOK, HubTypes, hubVars
  <2>2. RelayTypes'
    BY <1>30, Zenon DEF NotStarted, Types, TypeOK, RelayTypes, relayVars
  <2>3. CallTypes' /\ CallsHaveRelay'
    BY <1>30, ReturnKept, GotoKept, Zenon DEF NotStarted, Types, TypeOK, InCall, Places
  <2>4. ConsumerTypes'
    BY <1>30, Zenon DEF NotStarted, Types, TypeOK, ConsumerTypes, callerVars
  <2> QED BY <2>1, <2>2, <2>3, <2>4, Zenon DEF Types, TypeOK
<1>31. ASSUME NEW c \in Callers, FindRelay(c) PROVE Types'
  <2>1. HubTypes'
    BY <1>31, Zenon DEF FindRelay, Types, TypeOK, HubTypes, hubVars
  <2>2. RelayTypes'
    BY <1>31, Zenon DEF FindRelay, Types, TypeOK, RelayTypes, relayVars
  <2>3. CallTypes' /\ CallsHaveRelay'
    BY <1>31, HubAssumption, Zenon DEF FindRelay, HubTypes, Places, Types, TypeOK, CallTypes,
         CallsHaveRelay, InCall, callerVars
  <2>4. ConsumerTypes'
    BY <1>31, Zenon DEF FindRelay, Types, TypeOK, ConsumerTypes, callerVars
  <2> QED BY <2>1, <2>2, <2>3, <2>4, Zenon DEF Types, TypeOK
<1>32. ASSUME NEW c \in Callers, Enqueue(c) PROVE Types'
  <2>1. HubTypes'
    BY <1>32, HubAssumption, SMTT(40) DEF Enqueue, CallsHaveRelay, Types, TypeOK, HubTypes, InCall,
         hubVars
  <2>2. RelayTypes'
    BY <1>32, Zenon DEF Enqueue, Types, TypeOK, RelayTypes, relayVars
  <2>3. CallTypes' /\ CallsHaveRelay'
    BY <1>32, ReturnKept, GotoKept, Zenon DEF Enqueue, Types, TypeOK, InCall, Places
  <2>4. ConsumerTypes'
    BY <1>32, Zenon DEF Enqueue, Types, TypeOK, ConsumerTypes, callerVars
  <2> QED BY <2>1, <2>2, <2>3, <2>4, Zenon DEF Types, TypeOK
<1>33. ASSUME NEW c \in Callers, CheckError(c) PROVE Types'
  <2>1. HubTypes'
    BY <1>33, Zenon DEF CheckError, Types, TypeOK, HubTypes, hubVars
  <2>2. RelayTypes'
    BY <1>33, Zenon DEF CheckError, Types, TypeOK, RelayTypes, relayVars
  <2>3. CallTypes' /\ CallsHaveRelay'
    BY <1>33, ReturnKept, GotoKept, Zenon DEF CheckError, Types, TypeOK, InCall, Places
  <2>4. ConsumerTypes'
    BY <1>33, Zenon DEF CheckError, Types, TypeOK, ConsumerTypes, callerVars
  <2> QED BY <2>1, <2>2, <2>3, <2>4, Zenon DEF Types, TypeOK
<1>34. ASSUME NEW c \in Callers, Admit(c) PROVE Types'
  <2>1. HubTypes'
    BY <1>34, Zenon DEF Admit, Types, TypeOK, HubTypes, hubVars
  <2>2. RelayTypes'
    BY <1>34, Zenon DEF Admit, Types, TypeOK, RelayTypes, relayVars
  <2>3. CallTypes' /\ CallsHaveRelay'
    BY <1>34, ReturnKept, GotoKept, Zenon DEF Admit, Types, TypeOK, InCall, Places
  <2>4. ConsumerTypes'
    BY <1>34, Zenon DEF Admit, Types, TypeOK, ConsumerTypes, callerVars
  <2> QED BY <2>1, <2>2, <2>3, <2>4, Zenon DEF Types, TypeOK
<1>35. ASSUME NEW c \in Callers, Register(c) PROVE Types'
  <2>1. HubTypes'
    BY <1>35, Zenon DEF Register, Types, TypeOK, HubTypes, hubVars
  <2>2. RelayTypes'
    BY <1>35, Zenon DEF Register, Types, TypeOK, RelayTypes, relayVars
  <2>3. CallTypes' /\ CallsHaveRelay'
    BY <1>35, ReturnKept, GotoKept, Zenon DEF Register, Types, TypeOK, InCall, Places
  <2>4. ConsumerTypes'
    BY <1>35, Zenon DEF Register, Types, TypeOK, ConsumerTypes, callerVars
  <2> QED BY <2>1, <2>2, <2>3, <2>4, Zenon DEF Types, TypeOK
<1>36. ASSUME NEW c \in Callers, CodecsFail(c) PROVE Types'
  <2>1. HubTypes'
    BY <1>36, Zenon DEF CodecsFail, Types, TypeOK, HubTypes, hubVars
  <2>2. RelayTypes'
    BY <1>36, Zenon DEF CodecsFail, Types, TypeOK, RelayTypes, relayVars
  <2>3. CallTypes' /\ CallsHaveRelay'
    BY <1>36, ReturnKept, GotoKept, Zenon DEF CodecsFail, Types, TypeOK, InCall, Places
  <2>4. ConsumerTypes'
    BY <1>36, Zenon DEF CodecsFail, Types, TypeOK, ConsumerTypes, callerVars
  <2> QED BY <2>1, <2>2, <2>3, <2>4, Zenon DEF Types, TypeOK
<1>37. ASSUME NEW c \in Callers, StartConsumer(c) PROVE Types'
  <2>1. HubTypes'
    BY <1>37, Zenon DEF StartConsumer, Types, TypeOK, HubTypes, hubVars
  <2>2. RelayTypes'
    BY <1>37, Zenon DEF StartConsumer, Types, TypeOK, RelayTypes, relayVars
  <2>3. CallTypes' /\ CallsHaveRelay'
    BY <1>37, ReturnKept, GotoKept, Zenon DEF StartConsumer, Types, TypeOK, InCall, Places
  <2>4. ConsumerTypes'
    BY <1>37, HubAssumption, Zenon DEF StartConsumer, CallTypes, Types, TypeOK, ConsumerTypes, InCall,
         callerVars
  <2> QED BY <2>1, <2>2, <2>3, <2>4, Zenon DEF Types, TypeOK
<1>38. ASSUME NEW c \in Callers, HeaderFails(c) PROVE Types'
  <2>1. HubTypes'
    BY <1>38, Zenon DEF HeaderFails, Types, TypeOK, HubTypes, hubVars
  <2>2. RelayTypes'
    BY <1>38, Zenon DEF HeaderFails, Types, TypeOK, RelayTypes, relayVars
  <2>3. CallTypes' /\ CallsHaveRelay'
    BY <1>38, ReturnKept, GotoKept, Zenon DEF HeaderFails, Types, TypeOK, InCall, Places
  <2>4. ConsumerTypes'
    BY <1>38, HubAssumption, Zenon DEF HeaderFails, CallTypes, Types, TypeOK, ConsumerTypes, InCall,
         callerVars
  <2> QED BY <2>1, <2>2, <2>3, <2>4, Zenon DEF Types, TypeOK
<1>39. ASSUME NEW c \in Callers, Insert(c) PROVE Types'
  <2>1. HubTypes'
    BY <1>39, Zenon DEF Insert, Types, TypeOK, HubTypes, hubVars
  <2>2. RelayTypes'
    <3>1. prel[c] \in Relays /\ cid[c] \in Ids
      BY <1>39, Zenon DEF Insert, Types, CallsHaveRelay, InCall
    <3>2. consumers' \in [Relays -> [Ids -> Callers \cup {None}]]
      <4>1. CASE Verdict(c) = "attached"
        <5>1. consumers' = [consumers EXCEPT ![prel[c]][cid[c]] = c]
          BY <1>39, <4>1, Zenon DEF Insert
        <5>2. consumers \in [Relays -> [Ids -> Callers \cup {None}]]
          BY Zenon DEF Types, TypeOK, RelayTypes
        <5> QED BY <3>1, <5>1, <5>2, EntryKept, Zenon
      <4>2. CASE Verdict(c) # "attached"
        BY <1>39, <4>2, Zenon DEF Insert, Types, TypeOK, RelayTypes
      <4> QED BY <4>1, <4>2, Zenon
    <3> QED BY <1>39, <3>2, Zenon DEF Insert, Types, TypeOK, RelayTypes
  <2>3. CallTypes' /\ CallsHaveRelay'
    BY <1>39, ReturnKept, GotoKept, Zenon DEF Insert, Verdict, Types, TypeOK, InCall, Places
  <2>4. ConsumerTypes'
    BY <1>39, HubAssumption, ZenonT(40) DEF Insert, Types, TypeOK, ConsumerTypes, InCall, callerVars
  <2> QED BY <2>1, <2>2, <2>3, <2>4, Zenon DEF Types, TypeOK
<1>40. ASSUME NEW c \in Callers, Undone(c) PROVE Types'
  <2>1. HubTypes'
    BY <1>40, Zenon DEF Undone, Types, TypeOK, HubTypes, hubVars
  <2>2. RelayTypes'
    BY <1>40, Zenon DEF Undone, Types, TypeOK, RelayTypes, relayVars
  <2>3. CallTypes' /\ CallsHaveRelay'
    BY <1>40, ReturnKept, GotoKept, Zenon DEF Undone, Types, TypeOK, InCall, Places
  <2>4. ConsumerTypes'
    BY <1>40, Zenon DEF Undone, Types, TypeOK, ConsumerTypes, callerVars
  <2> QED BY <2>1, <2>2, <2>3, <2>4, Zenon DEF Types, TypeOK
<1>41. ASSUME NEW c \in Callers, Retry(c) PROVE Types'
  BY <1>41, HubAssumption, SMTT(40) DEF Retry, Places, Types, TypeOK, HubTypes, RelayTypes, CallTypes,
       ConsumerTypes, CallsHaveRelay, InCall, hubVars, relayVars, callerVars
<1>42. ASSUME NEW c \in Callers, CtxCancelled(c) PROVE Types'
  <2>1. HubTypes'
    BY <1>42, Zenon DEF CtxCancelled, Types, TypeOK, HubTypes, hubVars
  <2>2. RelayTypes'
    BY <1>42, Zenon DEF CtxCancelled, Types, TypeOK, RelayTypes, relayVars
  <2>3. CallTypes' /\ CallsHaveRelay'
    BY <1>42, ReturnKept, GotoKept, Zenon DEF CtxCancelled, Types, TypeOK, InCall, Places
  <2>4. ConsumerTypes'
    BY <1>42, Zenon DEF CtxCancelled, Types, TypeOK, ConsumerTypes, callerVars
  <2> QED BY <2>1, <2>2, <2>3, <2>4, Zenon DEF Types, TypeOK
<1>43. ASSUME NEW c \in Callers, HandleClose(c) PROVE Types'
  <2>1. HubTypes'
    BY <1>43, Zenon DEF HandleClose, Types, TypeOK, HubTypes, hubVars
  <2>2. RelayTypes'
    BY <1>43, Zenon DEF HandleClose, Types, TypeOK, RelayTypes, relayVars
  <2>3. CallTypes' /\ CallsHaveRelay'
    <3>1. CASE relays[SrcOf[c]] = None
      BY <1>43, <3>1, ReturnKept, Zenon DEF HandleClose, Types, TypeOK
    <3>2. CASE relays[SrcOf[c]] # None
      BY <1>43, <3>2, HubAssumption, ZenonT(40) DEF HandleClose, Types, TypeOK, HubTypes, CallTypes,
           CallsHaveRelay, InCall, Places
    <3> QED BY <3>1, <3>2, Zenon
  <2>4. ConsumerTypes'
    BY <1>43, Zenon DEF HandleClose, Types, TypeOK, ConsumerTypes, callerVars
  <2> QED BY <2>1, <2>2, <2>3, <2>4, Zenon DEF Types, TypeOK
<1>44. ASSUME NEW c \in Callers, RemoveConsumer(c) PROVE Types'
  <2>1. HubTypes'
    BY <1>44, Zenon DEF RemoveConsumer, Types, TypeOK, HubTypes, hubVars
  <2>2. RelayTypes'
    <3>1. prel[c] \in Relays /\ cid[c] \in Ids
      BY <1>44, Zenon DEF RemoveConsumer, Types, CallsHaveRelay, InCall
    <3>2. consumers' \in [Relays -> [Ids -> Callers \cup {None}]]
      <4>1. CASE consumers[prel[c]][cid[c]] # None
        <5>1. consumers' = [consumers EXCEPT ![prel[c]][cid[c]] = None]
          BY <1>44, <4>1, Zenon DEF RemoveConsumer
        <5>2. consumers \in [Relays -> [Ids -> Callers \cup {None}]]
          BY Zenon DEF Types, TypeOK, RelayTypes
        <5> QED BY <3>1, <5>1, <5>2, EntryKept, Zenon
      <4>2. CASE consumers[prel[c]][cid[c]] = None
        BY <1>44, <4>2, Zenon DEF RemoveConsumer, Types, TypeOK, RelayTypes
      <4> QED BY <4>1, <4>2, Zenon
    <3> QED BY <1>44, <3>2, Zenon DEF RemoveConsumer, Types, TypeOK, RelayTypes
  <2>3. CallTypes' /\ CallsHaveRelay'
    BY <1>44, ReturnKept, GotoKept, Zenon DEF RemoveConsumer, Types, TypeOK, InCall, Places
  <2>4. ConsumerTypes'
    <3>1. prel[c] \in Relays /\ cid[c] \in Ids
      BY <1>44, Zenon DEF RemoveConsumer, Types, CallsHaveRelay, InCall
    <3>2. consumers[prel[c]][cid[c]] \in Callers \cup {None}
      BY <3>1, SMTT(40) DEF Types, TypeOK, RelayTypes
    <3> QED BY <1>44, <3>2, ZenonT(40) DEF RemoveConsumer, Types, TypeOK, ConsumerTypes
  <2> QED BY <2>1, <2>2, <2>3, <2>4, Zenon DEF Types, TypeOK
<1>45. ASSUME NEW c \in Callers, Removed(c) PROVE Types'
  <2>1. HubTypes'
    BY <1>45, Zenon DEF Removed, Types, TypeOK, HubTypes, hubVars
  <2>2. RelayTypes'
    BY <1>45, Zenon DEF Removed, Types, TypeOK, RelayTypes, relayVars
  <2>3. CallTypes' /\ CallsHaveRelay'
    BY <1>45, ReturnKept, GotoKept, Zenon DEF Removed, Types, TypeOK, InCall, Places
  <2>4. ConsumerTypes'
    BY <1>45, HubAssumption, Zenon DEF Removed, Types, TypeOK, ConsumerTypes, InCall, callerVars
  <2> QED BY <2>1, <2>2, <2>3, <2>4, Zenon DEF Types, TypeOK
<1>46. ASSUME NEW c \in Callers, NEW r \in Relays, NewRelay(c, r) PROVE Types'
  <2>1. HubTypes'
    BY <1>46, HubAssumption, Zenon DEF NewRelay, Types, TypeOK, HubTypes, InCall, hubVars
  <2>2. RelayTypes'
    BY <1>46, HubAssumption, Zenon DEF NewRelay, Types, TypeOK, RelayTypes, InCall, relayVars
  <2>3. CallTypes' /\ CallsHaveRelay'
    BY <1>46, HubAssumption, Zenon DEF NewRelay, Places, Types, TypeOK, CallTypes, CallsHaveRelay,
         InCall, callerVars
  <2>4. ConsumerTypes'
    BY <1>46, Zenon DEF NewRelay, Types, TypeOK, ConsumerTypes, callerVars
  <2> QED BY <2>1, <2>2, <2>3, <2>4, Zenon DEF Types, TypeOK
<1>47. CASE UNCHANGED vars
  BY <1>47, ZenonT(60) DEF vars, Types, TypeOK, HubTypes, RelayTypes, CallTypes, ConsumerTypes,
       CallsHaveRelay, InCall, hubVars, relayVars, callerVars
<1> QED BY <1>1, <1>2, <1>3, <1>4, <1>5, <1>6, <1>7, <1>8, <1>9, <1>10, <1>11, <1>12, <1>13, Zenon,
     <1>14, <1>15, <1>16, <1>17, <1>18, <1>19, <1>20, <1>21, <1>22, <1>23, <1>24, <1>25, <1>26,
     <1>27, <1>28, <1>29, <1>30, <1>31, <1>32, <1>33, <1>34, <1>35, <1>36, <1>37, <1>38, <1>39,
     <1>40, <1>41, <1>42, <1>43, <1>44, <1>45, <1>46, <1>47 DEF Next, Hub, Relay, Caller,
     CallerStep

\* The initial state has them.
LEMMA TypesInit == Init => Types
<1> SUFFICES ASSUME Init PROVE Types
  BY Zenon
<1>1. HubTypes
  <2>1. relays \in [Sources -> Relays \cup {None}]
    BY Zenon DEF Init
  <2>2. startQ \in Seq(Relays)
    BY SMTT(40) DEF Init
  <2> QED BY <2>1, <2>2, Zenon DEF Init, HubTypes
<1>2. RelayTypes
  BY Zenon DEF Init, RelayTypes
<1>3. CallTypes /\ ConsumerTypes
  BY Zenon DEF Init, CallTypes, ConsumerTypes, Places
<1>4. CallsHaveRelay
  BY Zenon DEF Init, CallsHaveRelay, InCall
<1> QED BY <1>1, <1>2, <1>3, <1>4, Zenon DEF Types, TypeOK

\* TypeOK holds in every reachable state.
THEOREM TypeCorrect == SafeSpec => []TypeOK
<1>1. Init => Types
  BY TypesInit, Zenon
<1>2. Types /\ [Next]_vars => Types'
  BY TypesStep, Zenon
<1>3. Types => TypeOK
  BY Zenon DEF Types
<1> QED BY <1>1, <1>2, <1>3, PTL DEF SafeSpec

-----------------------------------------------------------------------------
(* No consumer is displaced.                                               *)

\* The consumers maps change in few steps.
LEMMA EntriesFrame ==
  ASSUME 
         \/ HubStart \/ HubLaunch \/ SignalStop \/ SignalCancel \/ WaitStop \/ ParentCancel
         \/ HubTick \/ HubDone \/ RelayClosed \/ HubDelete \/ HubStartRelay \/ HubStartFailed
         \/ \E r \in Relays : \/ RelayClose(r) \/ OpenDemuxer(r) \/ GetCodecs(r)
                              \/ GetCodecsFails(r) \/ Sweep(r) \/ MainDone(r) \/ SweepClose(r)
                              \/ SweepClosed(r) \/ DemuxerRemove(r) \/ DemuxerClose(r)
                              \/ ReadFails(r) \/ ReadDone(r)
         \/ \E c \in Callers : \/ MuxerFails(c) \/ ConsumerDone(c) \/ ConsumerExit(c)
                               \/ Consume(c) \/ NotStarted(c) \/ FindRelay(c) \/ Enqueue(c)
                               \/ CheckError(c) \/ Admit(c) \/ Register(c) \/ CodecsFail(c)
                               \/ StartConsumer(c) \/ HeaderFails(c) \/ Undone(c) \/ Retry(c)
                               \/ CtxCancelled(c) \/ HandleClose(c) \/ Removed(c)
  PROVE  UNCHANGED consumers
<1>1. CASE HubStart \/ HubLaunch \/ SignalStop \/ SignalCancel \/ WaitStop \/ ParentCancel
  BY <1>1, Zenon DEF relayVars, callerVars, HubStart, HubLaunch, SignalStop, SignalCancel,
       WaitStop, ParentCancel
<1>2. CASE HubTick \/ HubDone \/ RelayClosed \/ HubDelete \/ HubStartRelay \/ HubStartFailed
  BY <1>2, Zenon DEF relayVars, callerVars, HubTick, HubDone, RelayClosed, HubDelete,
       HubStartRelay, HubStartFailed
<1>3. ASSUME NEW r \in Relays,
             RelayClose(r) \/ OpenDemuxer(r) \/ GetCodecs(r) \/ GetCodecsFails(r) \/ Sweep(r) \/
               MainDone(r)
      PROVE  UNCHANGED consumers
  BY <1>3, Zenon DEF hubVars, relayVars, callerVars, RelayClose, OpenDemuxer, GetCodecs,
       GetCodecsFails, Sweep, MainDone
<1>4. ASSUME NEW r \in Relays,
             SweepClose(r) \/ SweepClosed(r) \/ DemuxerRemove(r) \/ DemuxerClose(r) \/
               ReadFails(r) \/ ReadDone(r)
      PROVE  UNCHANGED consumers
  BY <1>4, Zenon DEF hubVars, relayVars, callerVars, SweepClose, SweepClosed, DemuxerRemove,
       DemuxerClose, ReadFails, ReadDone
<1>5. ASSUME NEW c \in Callers,
             MuxerFails(c) \/ ConsumerDone(c) \/ ConsumerExit(c) \/ Consume(c) \/ NotStarted(c)
               \/ FindRelay(c)
      PROVE  UNCHANGED consumers
  BY <1>5, Zenon DEF hubVars, relayVars, Return, MuxerFails, ConsumerDone, ConsumerExit,
       Consume, NotStarted, FindRelay
<1>6. ASSUME NEW c \in Callers,
             Enqueue(c) \/ CheckError(c) \/ Admit(c) \/ Register(c) \/ CodecsFail(c) \/
               StartConsumer(c)
      PROVE  UNCHANGED consumers
  BY <1>6, Zenon DEF hubVars, relayVars, Goto, Return, Enqueue, CheckError, Admit, Register,
       CodecsFail, StartConsumer
<1>7. ASSUME NEW c \in Callers,
             HeaderFails(c) \/ Undone(c) \/ Retry(c) \/ CtxCancelled(c) \/ HandleClose(c) \/
               Removed(c)
      PROVE  UNCHANGED consumers
  BY <1>7, Zenon DEF hubVars, relayVars, Goto, Return, HeaderFails, Undone, Retry, CtxCancelled,
       HandleClose, Removed
<1> QED BY <1>1, <1>2, <1>3, <1>4, <1>5, <1>6, <1>7, Zenon

\* An entry keeps its consumer or is deleted.
Stays == \A r \in Relays, i \in Ids :
           consumers[r][i] # None => consumers'[r][i] \in {consumers[r][i], None}

\* Every step but the making of a relay is of that kind.
LEMMA EntriesStep ==
  ASSUME Types, [Next]_vars, \A s \in Sources : relays'[s] = relays[s]
  PROVE  Stays
<1>1. CASE UNCHANGED consumers
  BY <1>1, Zenon DEF Stays
<1>2. ASSUME NEW r \in Relays, SweepDelete(r) PROVE Stays
  BY <1>2, Zenon DEF SweepDelete, Stays, Types, TypeOK, RelayTypes
<1>3. ASSUME NEW c \in Callers, Insert(c) PROVE Stays
  <2>1. CASE Verdict(c) = "attached"
    <3>1. consumers' = [consumers EXCEPT ![prel[c]][cid[c]] = c]
      BY <1>3, <2>1, Zenon DEF Insert
    <3>2. consumers[prel[c]][cid[c]] = None
      BY <2>1, Zenon DEF Verdict
    <3> QED BY <3>1, <3>2, SMTT(40) DEF Stays, Types, TypeOK, RelayTypes
  <2>2. CASE Verdict(c) # "attached"
    BY <1>1, <1>3, <2>2, Zenon DEF Insert
  <2> QED BY <2>1, <2>2, Zenon
<1>4. ASSUME NEW c \in Callers, RemoveConsumer(c) PROVE Stays
  <2>1. CASE consumers[prel[c]][cid[c]] = None
    BY <1>1, <1>4, <2>1, Zenon DEF RemoveConsumer
  <2>2. CASE consumers[prel[c]][cid[c]] # None
    <3>1. consumers' = [consumers EXCEPT ![prel[c]][cid[c]] = None]
      BY <1>4, <2>2, Zenon DEF RemoveConsumer
    <3> QED BY <3>1, ZenonT(60) DEF Stays, Types, TypeOK, RelayTypes
  <2> QED BY <2>1, <2>2, Zenon
<1>5. ASSUME NEW c \in Callers, NEW r \in Relays PROVE ~NewRelay(c, r)
  <2> SUFFICES ASSUME NewRelay(c, r) PROVE FALSE
    BY Zenon
  <2>1. SrcOf[c] \in Sources /\ r # None
    BY HubAssumption, Zenon
  <2>2. relays[SrcOf[c]] = None /\ relays'[SrcOf[c]] = r
    BY <2>1, Zenon DEF NewRelay, Types, TypeOK, HubTypes
  <2> QED BY <2>1, <2>2, Zenon
<1>6. CASE UNCHANGED vars
  BY <1>1, <1>6, Zenon DEF vars, relayVars
<1> QED
  BY <1>1, <1>2, <1>3, <1>4, <1>5, <1>6, EntriesFrame, Zenon DEF Next, Hub, Relay, Caller, CallerStep

\* A consumer is never displaced by another one with the same id (relay.go:399-404, 462-468).
THEOREM NothingDisplaced == SafeSpec => NoDisplacement
<1>1. Init => Types
  BY TypesInit, Zenon
<1>2. Types /\ [Next]_vars => Types'
  BY TypesStep, Zenon
<1>3. Types /\ [Next]_vars =>
        [\A r \in Relays, i \in Ids :
            consumers[r][i] # None /\ (\A s \in Sources : relays'[s] = relays[s])
              => consumers'[r][i] \in {consumers[r][i], None}]_vars
  BY EntriesStep, Zenon DEF Stays
<1> QED BY <1>1, <1>2, <1>3, PTL DEF SafeSpec, NoDisplacement
-----------------------------------------------------------------------------
(* Closing a relay ends it.  The hub alone starts and closes relays, and a *)
(* relay whose main goroutine does not run holds no open demuxer.          *)

DemuxerHeld == \A r \in Relays : main[r] \in {"none", "open", "exit"} => dmx[r] # "open"

NotYetRun == \A r \in Relays : ~started[r] => main[r] = "none"

Reclaim == NotYetRun /\ DemuxerHeld /\ ReclaimIsComplete

\* What Reclaim looks at.
reclaimVars == <<hpc, hcur, started, closing, main, rw, dmx>>

\* Stop, the closing of consumers and what callers do leave that alone.
LEMMA ReclaimFrame ==
  ASSUME 
         \/ SignalStop \/ SignalCancel \/ WaitStop \/ ParentCancel
         \/ \E r \in Relays : \/ SweepClose(r) \/ SweepClosed(r)
         \/ \E c \in Callers : \/ MuxerFails(c) \/ ConsumerDone(c) \/ ConsumerExit(c)
                               \/ Consume(c) \/ NotStarted(c) \/ FindRelay(c) \/ Enqueue(c)
                               \/ CheckError(c) \/ Admit(c) \/ Register(c) \/ CodecsFail(c)
                               \/ StartConsumer(c) \/ HeaderFails(c) \/ Insert(c) \/ Undone(c)
                               \/ Retry(c) \/ CtxCancelled(c) \/ HandleClose(c)
                               \/ RemoveConsumer(c) \/ Removed(c)
  PROVE  UNCHANGED reclaimVars
<1>1. CASE SignalStop \/ SignalCancel \/ WaitStop \/ ParentCancel
  BY <1>1, Zenon DEF reclaimVars, hubVars, relayVars, callerVars, SignalStop, SignalCancel,
       WaitStop, ParentCancel
<1>2. ASSUME NEW r \in Relays,
             SweepClose(r) \/ SweepClosed(r)
      PROVE  UNCHANGED reclaimVars
  BY <1>2, Zenon DEF reclaimVars, hubVars, hubVars, relayVars, callerVars, SweepClose,
       SweepClosed
<1>3. ASSUME NEW c \in Callers,
             MuxerFails(c) \/ ConsumerDone(c) \/ ConsumerExit(c) \/ Consume(c) \/ NotStarted(c)
      PROVE  UNCHANGED reclaimVars
  BY <1>3, Zenon DEF reclaimVars, hubVars, hubVars, relayVars, Return, MuxerFails, ConsumerDone,
       ConsumerExit, Consume, NotStarted
<1>4. ASSUME NEW c \in Callers,
             FindRelay(c) \/ Enqueue(c) \/ CheckError(c) \/ Admit(c) \/ Register(c)
      PROVE  UNCHANGED reclaimVars
  BY <1>4, Zenon DEF reclaimVars, hubVars, hubVars, relayVars, Goto, Return, FindRelay, Enqueue,
       CheckError, Admit, Register
<1>5. ASSUME NEW c \in Callers,
             CodecsFail(c) \/ StartConsumer(c) \/ HeaderFails(c) \/ Insert(c) \/ Undone(c)
      PROVE  UNCHANGED reclaimVars
  BY <1>5, Zenon DEF reclaimVars, hubVars, hubVars, relayVars, Goto, Return, CodecsFail,
       StartConsumer, HeaderFails, Insert, Undone
<1>6. ASSUME NEW c \in Callers,
             Retry(c) \/ CtxCancelled(c) \/ HandleClose(c) \/ RemoveConsumer(c) \/ Removed(c)
      PROVE  UNCHANGED reclaimVars
  BY <1>6, Zenon DEF reclaimVars, hubVars, hubVars, relayVars, Goto, Return, Retry,
       CtxCancelled, HandleClose, RemoveConsumer, Removed
<1> QED BY <1>1, <1>2, <1>3, <1>4, <1>5, <1>6, Zenon

\* Every step keeps Reclaim.
LEMMA ReclaimStep ==
  ASSUME Types, Reclaim, [Next]_vars
  PROVE  Reclaim'
<1>1. CASE UNCHANGED reclaimVars
  BY <1>1, Zenon DEF reclaimVars, Reclaim, NotYetRun, DemuxerHeld, ReclaimIsComplete, RelayStopped
<1>2. CASE HubStart
  BY <1>2, HubAssumption, Zenon DEF HubStart, Reclaim, NotYetRun, DemuxerHeld, ReclaimIsComplete,
       RelayStopped, Types, TypeOK, relayVars
<1>3. CASE HubLaunch
  BY <1>3, HubAssumption, Zenon DEF HubLaunch, Reclaim, NotYetRun, DemuxerHeld, ReclaimIsComplete,
       RelayStopped, Types, TypeOK, relayVars
<1>4. CASE HubTick
  BY <1>4, HubAssumption, Zenon DEF HubTick, Reclaim, NotYetRun, DemuxerHeld, ReclaimIsComplete,
       RelayStopped, Types, TypeOK, relayVars
<1>5. CASE HubDone
  BY <1>5, HubAssumption, Zenon DEF HubDone, Reclaim, NotYetRun, DemuxerHeld, ReclaimIsComplete,
       RelayStopped, Types, TypeOK, relayVars
<1>6. CASE RelayClosed
  BY <1>6, HubAssumption, Zenon DEF RelayClosed, Reclaim, NotYetRun, DemuxerHeld, ReclaimIsComplete,
       RelayStopped, Types, TypeOK, HubTypes, relayVars
<1>7. CASE HubDelete
  BY <1>7, HubAssumption, Zenon DEF HubDelete, Reclaim, NotYetRun, DemuxerHeld, ReclaimIsComplete,
       RelayStopped, Types, TypeOK, relayVars
<1>8. CASE HubStartRelay
  <2> USE <1>8
  <2> DEFINE r == Head(startQ)
  <2>1. r \in Relays /\ hpc = "select" /\ started' = [started EXCEPT ![r] = TRUE]
    BY SMTT(40) DEF HubStartRelay, Types, TypeOK, HubTypes
  <2>2. UNCHANGED <<closing, rw, dmx>>
    BY Zenon DEF HubStartRelay
  <2>3. CASE MayStart(r)
    <3>1. main' = [main EXCEPT ![r] = "open"] /\ UNCHANGED <<hpc, hcur>>
      BY <2>3, Zenon DEF HubStartRelay
    <3>2. main[r] = "none" /\ ~closing[r]
      BY <2>1, <2>3, Zenon DEF MayStart, Reclaim, NotYetRun
    <3> HIDE DEF r
    <3>3. NotYetRun' /\ DemuxerHeld'
      BY <2>1, <2>2, <3>1, <3>2, ZenonT(60) DEF Reclaim, NotYetRun, DemuxerHeld, Types, TypeOK, RelayTypes
    <3>4. ReclaimIsComplete'
      BY <2>1, <2>2, <3>1, <3>2, ZenonT(60) DEF Reclaim, ReclaimIsComplete, RelayStopped, Types, TypeOK,
           RelayTypes
    <3> QED BY <3>3, <3>4, Zenon DEF Reclaim
  <2>4. CASE ~MayStart(r)
    <3>1. UNCHANGED main
      BY <2>4, Zenon DEF HubStartRelay
    <3> HIDE DEF r
    <3> QED
      BY <2>1, <2>2, <3>1, ZenonT(60) DEF Reclaim, NotYetRun, DemuxerHeld, ReclaimIsComplete, RelayStopped,
           Types, TypeOK, RelayTypes
  <2> QED BY <2>3, <2>4, Zenon
<1>9. CASE HubStartFailed
  BY <1>9, HubAssumption, Zenon DEF HubStartFailed, Reclaim, NotYetRun, DemuxerHeld, ReclaimIsComplete,
       RelayStopped, Types, TypeOK, relayVars
<1>10. ASSUME NEW r \in Relays, RelayClose(r) PROVE Reclaim'
  BY <1>10, HubAssumption, SMTT(40) DEF RelayClose, Reclaim, NotYetRun, DemuxerHeld, ReclaimIsComplete,
       RelayStopped, Types, TypeOK, RelayTypes, hubVars
<1>11. ASSUME NEW r \in Relays, OpenDemuxer(r) PROVE Reclaim'
  <2> USE <1>11
  <2>1. /\ main[r] = "open" /\ main'[r] \in {"codecs", "exit"}
        /\ main' = [main EXCEPT ![r] = main'[r]]
    BY ZenonT(60) DEF OpenDemuxer, Types, TypeOK, RelayTypes
  <2>2. \A q \in Relays : dmx'[q] = dmx[q] \/ (q = r /\ main'[r] = "codecs")
    <3>1. CASE dmx' = dmx
      BY <3>1, Zenon
    <3>2. CASE dmx' = [dmx EXCEPT ![r] = "open"] /\ main' = [main EXCEPT ![r] = "codecs"]
      BY <3>2, Zenon DEF Types, TypeOK, RelayTypes
    <3> QED BY <3>1, <3>2, Zenon DEF OpenDemuxer
  <2>3. UNCHANGED <<hpc, hcur, started, closing, rw>>
    BY Zenon DEF OpenDemuxer, hubVars
  <2>4. DemuxerHeld'
    BY <2>1, <2>2, Zenon DEF Reclaim, DemuxerHeld, Types, TypeOK, RelayTypes
  <2>5. ReclaimIsComplete'
    BY <2>1, <2>2, <2>3, ZenonT(60) DEF Reclaim, ReclaimIsComplete, RelayStopped, Types, TypeOK, RelayTypes
  <2>6. NotYetRun'
    BY <2>1, <2>3, ZenonT(60) DEF Reclaim, NotYetRun, Types, TypeOK, RelayTypes
  <2> QED BY <2>4, <2>5, <2>6, Zenon DEF Reclaim
<1>12. ASSUME NEW r \in Relays, GetCodecs(r) PROVE Reclaim'
  BY <1>12, HubAssumption, SMTT(40) DEF GetCodecs, Reclaim, NotYetRun, DemuxerHeld, ReclaimIsComplete,
       RelayStopped, Types, TypeOK, RelayTypes, hubVars
<1>13. ASSUME NEW r \in Relays, GetCodecsFails(r) PROVE Reclaim'
  BY <1>13, HubAssumption, SMTT(40) DEF GetCodecsFails, Reclaim, NotYetRun, DemuxerHeld,
       ReclaimIsComplete, RelayStopped, Types, TypeOK, RelayTypes, hubVars
<1>14. ASSUME NEW r \in Relays, Sweep(r) PROVE Reclaim'
  BY <1>14, HubAssumption, SMTT(40) DEF Sweep, Reclaim, NotYetRun, DemuxerHeld, ReclaimIsComplete,
       RelayStopped, Types, TypeOK, RelayTypes, hubVars
<1>15. ASSUME NEW r \in Relays, MainDone(r) PROVE Reclaim'
  BY <1>15, HubAssumption, SMTT(40) DEF MainDone, Reclaim, NotYetRun, DemuxerHeld, ReclaimIsComplete,
       RelayStopped, Types, TypeOK, RelayTypes, hubVars
<1>16. ASSUME NEW r \in Relays, SweepDelete(r) PROVE Reclaim'
  BY <1>16, HubAssumption, SMTT(40) DEF SweepDelete, Reclaim, NotYetRun, DemuxerHeld, ReclaimIsComplete,
       RelayStopped, Types, TypeOK, RelayTypes, hubVars
<1>17. ASSUME NEW r \in Relays, DemuxerRemove(r) PROVE Reclaim'
  BY <1>17, HubAssumption, SMTT(40) DEF DemuxerRemove, Reclaim, NotYetRun, DemuxerHeld, ReclaimIsComplete,
       RelayStopped, Types, TypeOK, RelayTypes, hubVars
<1>18. ASSUME NEW r \in Relays, DemuxerClose(r) PROVE Reclaim'
  BY <1>18, HubAssumption, SMTT(40) DEF DemuxerClose, Reclaim, NotYetRun, DemuxerHeld, ReclaimIsComplete,
       RelayStopped, Types, TypeOK, RelayTypes, hubVars
<1>19. ASSUME NEW r \in Relays, ReadFails(r) PROVE Reclaim'
  BY <1>19, HubAssumption, SMTT(40) DEF ReadFails, Reclaim, NotYetRun, DemuxerHeld, ReclaimIsComplete,
       RelayStopped, Types, TypeOK, RelayTypes, hubVars
<1>20. ASSUME NEW r \in Relays, ReadDone(r) PROVE Reclaim'
  BY <1>20, HubAssumption, ZenonT(60) DEF ReadDone, Reclaim, NotYetRun, DemuxerHeld, ReclaimIsComplete,
       RelayStopped, Types, TypeOK, RelayTypes, hubVars
<1>21. ASSUME NEW c \in Callers, NEW r \in Relays, NewRelay(c, r) PROVE Reclaim'
  BY <1>21, SMTT(40) DEF NewRelay, FreeRelay, Reclaim, NotYetRun, DemuxerHeld, ReclaimIsComplete,
       RelayStopped, Types, TypeOK, RelayTypes
<1>22. CASE UNCHANGED vars
  BY <1>1, <1>22, Zenon DEF vars, reclaimVars, hubVars, relayVars
<1> QED BY <1>1, <1>2, <1>3, <1>4, <1>5, <1>6, <1>7, <1>8, <1>9, <1>10, <1>11, <1>12, <1>13, Zenon,
     <1>14, <1>15, <1>16, <1>17, <1>18, <1>19, <1>20, <1>21, <1>22, ReclaimFrame DEF Next, Hub,
     Relay, Caller, CallerStep

\* A relay that is marked as closing has ended or is waited for, whatever fails and
\* whenever Close comes (relay.go:93-100, 229-249).
THEOREM ReclaimComplete == SafeSpec => []ReclaimIsComplete
<1>1. Init => Types /\ Reclaim
  <2>1. Init => Reclaim
    BY ZenonT(60) DEF Init, Reclaim, NotYetRun, DemuxerHeld, ReclaimIsComplete
  <2> QED BY <2>1, TypesInit, Zenon
<1>2. (Types /\ Reclaim) /\ [Next]_vars => (Types /\ Reclaim)'
  BY TypesStep, ReclaimStep, Zenon
<1>3. Types /\ Reclaim => ReclaimIsComplete
  BY Zenon DEF Reclaim
<1> QED BY <1>1, <1>2, <1>3, PTL DEF SafeSpec

-----------------------------------------------------------------------------
(* A closed relay is empty.  As long as a relay that got its headers ends  *)
(* only because it is closed, nobody is inserted behind its clean-up: an   *)
(* insertion finds closing set.  A relay that fails before it has headers  *)
(* never has a consumer.                                                   *)

Empty(r) == \A i \in Ids : consumers[r][i] = None

RelayCalm(r) ==
  /\ main[r] \in {"none", "open", "codecs"} => hdr[r] = "wait"
  /\ hdr[r] # "ok" => Empty(r)
  /\ rctx[r] = "done" => closing[r] \/ main[r] = "exit"
  /\ main[r] \in {"clean", "remove", "closeDemuxer", "exit"} => closing[r] \/ hdr[r] = "err"
  /\ closing[r] /\ main[r] \in {"none", "remove", "closeDemuxer", "exit"} => Empty(r)

\* A consumer about to be inserted was given the headers of its relay.
InsertHasHeaders == \A c \in Callers : pc[c] = "insert" => hdr[prel[c]] = "ok"

Calm == /\ hubCtx # "done" /\ stopper = "no"
        /\ \A r \in Relays : RelayCalm(r)
        /\ InsertHasHeaders

\* ReadPacket does not fail and the hub is not stopped; the factory, GetCodecs, muxers
\* and callers' contexts may.
EndsOnlyByClose == Events \cap {"read", "stop", "parent"} = {}

\* What Calm looks at.
calmVars == <<hubCtx, stopper, closing, rctx, hdr, main, consumers>>
NoNewInsert == \A c \in Callers : pc'[c] = "insert" => pc[c] = "insert" /\ prel'[c] = prel[c]

\* The steps that leave it alone.
LEMMA CalmFrame ==
  ASSUME Types,
         \/ HubStart \/ HubTick \/ HubDone \/ RelayClosed \/ HubDelete \/ HubStartFailed
         \/ \E r \in Relays : \/ SweepClose(r) \/ SweepClosed(r) \/ ReadDone(r)
         \/ \E c \in Callers : \/ MuxerFails(c) \/ ConsumerDone(c) \/ ConsumerExit(c)
                               \/ Consume(c) \/ NotStarted(c) \/ FindRelay(c) \/ Enqueue(c)
                               \/ CheckError(c) \/ Admit(c) \/ Register(c) \/ CodecsFail(c)
                               \/ HeaderFails(c) \/ Undone(c) \/ Retry(c) \/ CtxCancelled(c)
                               \/ HandleClose(c) \/ Removed(c)
  PROVE  UNCHANGED calmVars /\ NoNewInsert
<1>1. CASE HubStart \/ HubTick \/ HubDone \/ RelayClosed \/ HubDelete \/ HubStartFailed
  BY <1>1, Zenon DEF calmVars, NoNewInsert, relayVars, callerVars, HubStart, HubTick, HubDone,
       RelayClosed, HubDelete, HubStartFailed
<1>2. ASSUME NEW r \in Relays,
             SweepClose(r) \/ SweepClosed(r) \/ ReadDone(r)
      PROVE  UNCHANGED calmVars /\ NoNewInsert
  BY <1>2, Zenon DEF calmVars, NoNewInsert, hubVars, relayVars, callerVars, SweepClose,
       SweepClosed, ReadDone
<1>3. ASSUME NEW c \in Callers,
             MuxerFails(c) \/ ConsumerDone(c) \/ ConsumerExit(c) \/ Consume(c)
      PROVE  UNCHANGED calmVars /\ NoNewInsert
  BY <1>3, Zenon DEF calmVars, NoNewInsert, hubVars, relayVars, Types, TypeOK, CallTypes,
       MuxerFails, ConsumerDone, ConsumerExit, Consume
<1>4. ASSUME NEW c \in Callers,
             NotStarted(c) \/ FindRelay(c) \/ Enqueue(c) \/ CheckError(c)
      PROVE  UNCHANGED calmVars /\ NoNewInsert
  BY <1>4, Zenon DEF calmVars, NoNewInsert, hubVars, relayVars, Goto, Return, Types, TypeOK,
       CallTypes, NotStarted, FindRelay, Enqueue, CheckError
<1>5. ASSUME NEW c \in Callers,
             Admit(c) \/ Register(c) \/ CodecsFail(c) \/ HeaderFails(c)
      PROVE  UNCHANGED calmVars /\ NoNewInsert
  BY <1>5, Zenon DEF calmVars, NoNewInsert, hubVars, relayVars, Goto, Return, Types, TypeOK,
       CallTypes, Admit, Register, CodecsFail, HeaderFails
<1>6. ASSUME NEW c \in Callers,
             Undone(c) \/ Retry(c) \/ CtxCancelled(c) \/ HandleClose(c)
      PROVE  UNCHANGED calmVars /\ NoNewInsert
  BY <1>6, ZenonT(60) DEF calmVars, NoNewInsert, hubVars, relayVars, Goto, Return, Types, TypeOK,
       CallTypes, Undone, Retry, CtxCancelled, HandleClose
<1>7. ASSUME NEW c \in Callers,
             Removed(c)
      PROVE  UNCHANGED calmVars /\ NoNewInsert
  BY <1>7, Zenon DEF calmVars, NoNewInsert, hubVars, relayVars, Return, Types, TypeOK,
       CallTypes, Removed
<1> QED BY <1>1, <1>2, <1>3, <1>4, <1>5, <1>6, <1>7, Zenon

\* They keep Calm.
LEMMA CalmKept ==
  ASSUME Calm, UNCHANGED calmVars, NoNewInsert
  PROVE  Calm'
BY ZenonT(60) DEF Calm, calmVars, NoNewInsert, RelayCalm, Empty, InsertHasHeaders

\* So does every other step.
LEMMA CalmStep ==
  ASSUME EndsOnlyByClose, Types, Reclaim, Calm, [Next]_vars
  PROVE  Calm'
<1> USE DEF EndsOnlyByClose
<1>1. CASE HubLaunch
  <2> USE <1>1
  <2>1. hubCtx' # "done" /\ stopper' = "no"
    BY Zenon DEF HubLaunch, Calm, hubVars
  <2>2. ASSUME NEW q \in Relays PROVE RelayCalm(q)'
    BY HubAssumption, Zenon DEF HubLaunch, Calm, RelayCalm, Empty, relayVars, Types, TypeOK,
         RelayTypes
  <2>3. InsertHasHeaders'
    BY Zenon DEF HubLaunch, Calm, RelayCalm, InsertHasHeaders, Types, TypeOK, CallTypes,
         RelayTypes, CallsHaveRelay, InCall, callerVars, relayVars
  <2> QED BY <2>1, <2>2, <2>3, Zenon DEF Calm
<1>2. CASE HubStartRelay
  <2> USE <1>2
  <2>1. hubCtx' # "done" /\ stopper' = "no"
    BY Zenon DEF HubStartRelay, Calm, hubVars
  <2>2. ASSUME NEW q \in Relays PROVE RelayCalm(q)'
    <3>1. Head(startQ) \in Relays
      BY SMTT(40) DEF HubStartRelay, Types, TypeOK, HubTypes
    <3>2. RelayCalm(q)
      BY Zenon DEF Calm
    <3>3. CASE MayStart(Head(startQ))
      BY <3>1, <3>2, <3>3, SMTT(40) DEF HubStartRelay, MayStart, Reclaim, NotYetRun, RelayCalm,
           Empty, Types, TypeOK, RelayTypes
    <3>4. CASE ~MayStart(Head(startQ))
      BY <3>2, <3>1, <3>4, Zenon DEF HubStartRelay, RelayCalm, Empty, Types, TypeOK, RelayTypes
    <3> QED BY <3>3, <3>4, Zenon
  <2>3. InsertHasHeaders'
    BY Zenon DEF HubStartRelay, Calm, RelayCalm, InsertHasHeaders, Types, TypeOK, CallTypes,
         RelayTypes, CallsHaveRelay, InCall, callerVars, relayVars
  <2> QED BY <2>1, <2>2, <2>3, Zenon DEF Calm
<1>3. ASSUME NEW r \in Relays, RelayClose(r) PROVE Calm'
  <2> USE <1>3
  <2>1. hubCtx' # "done" /\ stopper' = "no"
    BY Zenon DEF RelayClose, Calm, hubVars
  <2>2. ASSUME NEW q \in Relays PROVE RelayCalm(q)'
    BY HubAssumption, SMTT(40) DEF RelayClose, Calm, RelayCalm, Empty, RelayDone, Types, TypeOK,
         RelayTypes
  <2>3. InsertHasHeaders'
    BY Zenon DEF RelayClose, Calm, RelayCalm, InsertHasHeaders, Types, TypeOK, CallTypes,
         RelayTypes, CallsHaveRelay, InCall, callerVars, relayVars
  <2> QED BY <2>1, <2>2, <2>3, Zenon DEF Calm
<1>4. ASSUME NEW r \in Relays, OpenDemuxer(r) PROVE Calm'
  <2> USE <1>4
  <2>1. hubCtx' # "done" /\ stopper' = "no"
    BY Zenon DEF OpenDemuxer, Calm, hubVars
  <2>2. ASSUME NEW q \in Relays PROVE RelayCalm(q)'
    BY HubAssumption, SMTT(40) DEF OpenDemuxer, Calm, RelayCalm, Empty, RelayDone, Types, TypeOK,
         RelayTypes
  <2>3. InsertHasHeaders'
    <3>1. ASSUME NEW c \in Callers, pc[c] = "insert" PROVE prel[c] # r
      BY <3>1, Zenon DEF OpenDemuxer, Calm, RelayCalm, InsertHasHeaders
    <3>2. UNCHANGED <<pc, prel>> /\ \A q \in Relays : q # r => hdr'[q] = hdr[q]
      BY ZenonT(60) DEF OpenDemuxer, callerVars, Types, TypeOK, RelayTypes
    <3> QED
      BY <3>1, <3>2, Zenon DEF Calm, InsertHasHeaders, Types, CallsHaveRelay, InCall
  <2> QED BY <2>1, <2>2, <2>3, Zenon DEF Calm
<1>5. ASSUME NEW r \in Relays, GetCodecs(r) PROVE Calm'
  <2> USE <1>5
  <2>1. hubCtx' # "done" /\ stopper' = "no"
    BY Zenon DEF GetCodecs, Calm, hubVars
  <2>2. ASSUME NEW q \in Relays PROVE RelayCalm(q)'
    BY HubAssumption, SMTT(40) DEF GetCodecs, Calm, RelayCalm, Empty, RelayDone, Types, TypeOK,
         RelayTypes
  <2>3. InsertHasHeaders'
    BY SMTT(40) DEF GetCodecs, Calm, RelayCalm, InsertHasHeaders, Types, TypeOK, CallTypes,
         RelayTypes, CallsHaveRelay, InCall, callerVars, relayVars
  <2> QED BY <2>1, <2>2, <2>3, Zenon DEF Calm
<1>6. ASSUME NEW r \in Relays, GetCodecsFails(r) PROVE Calm'
  <2> USE <1>6
  <2>1. hubCtx' # "done" /\ stopper' = "no"
    BY Zenon DEF GetCodecsFails, Calm, hubVars
  <2>2. ASSUME NEW q \in Relays PROVE RelayCalm(q)'
    BY HubAssumption, ZenonT(60) DEF GetCodecsFails, Calm, RelayCalm, Empty, RelayDone, Types, TypeOK,
         RelayTypes
  <2>3. InsertHasHeaders'
    BY SMTT(40) DEF GetCodecsFails, Calm, RelayCalm, InsertHasHeaders, Types, TypeOK, CallTypes,
         RelayTypes, CallsHaveRelay, InCall, callerVars, relayVars
  <2> QED BY <2>1, <2>2, <2>3, Zenon DEF Calm
<1>7. ASSUME NEW r \in Relays, Sweep(r) PROVE Calm'
  <2> USE <1>7
  <2>1. hubCtx' # "done" /\ stopper' = "no"
    BY Zenon DEF Sweep, Calm, hubVars
  <2>2. ASSUME NEW q \in Relays PROVE RelayCalm(q)'
    BY HubAssumption, ZenonT(60) DEF Sweep, Calm, RelayCalm, Empty, RelayDone, Types, TypeOK,
         RelayTypes
  <2>3. InsertHasHeaders'
    BY Zenon DEF Sweep, Calm, RelayCalm, InsertHasHeaders, Types, TypeOK, CallTypes, RelayTypes,
         CallsHaveRelay, InCall, callerVars, relayVars
  <2> QED BY <2>1, <2>2, <2>3, Zenon DEF Calm
<1>8. ASSUME NEW r \in Relays, MainDone(r) PROVE Calm'
  <2> USE <1>8
  <2>1. hubCtx' # "done" /\ stopper' = "no"
    BY Zenon DEF MainDone, Calm, hubVars
  <2>2. ASSUME NEW q \in Relays PROVE RelayCalm(q)'
    BY HubAssumption, ZenonT(60) DEF MainDone, Calm, RelayCalm, Empty, RelayDone, Types, TypeOK,
         RelayTypes
  <2>3. InsertHasHeaders'
    BY Zenon DEF MainDone, Calm, RelayCalm, InsertHasHeaders, Types, TypeOK, CallTypes,
         RelayTypes, CallsHaveRelay, InCall, callerVars, relayVars
  <2> QED BY <2>1, <2>2, <2>3, Zenon DEF Calm
<1>9. ASSUME NEW r \in Relays, SweepDelete(r) PROVE Calm'
  <2> USE <1>9
  <2>1. hubCtx' # "done" /\ stopper' = "no"
    BY Zenon DEF SweepDelete, Calm, hubVars
  <2>2. ASSUME NEW q \in Relays PROVE RelayCalm(q)'
    BY HubAssumption, SMTT(40) DEF SweepDelete, Calm, RelayCalm, Empty, RelayDone, Types, TypeOK,
         RelayTypes
  <2>3. InsertHasHeaders'
    BY Zenon DEF SweepDelete, Calm, RelayCalm, InsertHasHeaders, Types, TypeOK, CallTypes,
         RelayTypes, CallsHaveRelay, InCall, callerVars, relayVars
  <2> QED BY <2>1, <2>2, <2>3, Zenon DEF Calm
<1>10. ASSUME NEW r \in Relays, DemuxerRemove(r) PROVE Calm'
  <2> USE <1>10
  <2>1. hubCtx' # "done" /\ stopper' = "no"
    BY Zenon DEF DemuxerRemove, Calm, hubVars
  <2>2. ASSUME NEW q \in Relays PROVE RelayCalm(q)'
    BY HubAssumption, ZenonT(60) DEF DemuxerRemove, Calm, RelayCalm, Empty, RelayDone, Types, TypeOK,
         RelayTypes
  <2>3. InsertHasHeaders'
    BY Zenon DEF DemuxerRemove, Calm, RelayCalm, InsertHasHeaders, Types, TypeOK, CallTypes,
         RelayTypes, CallsHaveRelay, InCall, callerVars, relayVars
  <2> QED BY <2>1, <2>2, <2>3, Zenon DEF Calm
<1>11. ASSUME NEW r \in Relays, DemuxerClose(r) PROVE Calm'
  <2> USE <1>11
  <2>1. hubCtx' # "done" /\ stopper' = "no"
    BY Zenon DEF DemuxerClose, Calm, hubVars
  <2>2. ASSUME NEW q \in Relays PROVE RelayCalm(q)'
    BY HubAssumption, ZenonT(60) DEF DemuxerClose, Calm, RelayCalm, Empty, RelayDone, Types, TypeOK,
         RelayTypes
  <2>3. InsertHasHeaders'
    BY Zenon DEF DemuxerClose, Calm, RelayCalm, InsertHasHeaders, Types, TypeOK, CallTypes,
         RelayTypes, CallsHaveRelay, InCall, callerVars, relayVars
  <2> QED BY <2>1, <2>2, <2>3, Zenon DEF Calm
<1>12. ASSUME NEW c \in Callers, StartConsumer(c) PROVE Calm'
  <2> USE <1>12
  <2>1. hubCtx' # "done" /\ stopper' = "no"
    BY Zenon DEF StartConsumer, Goto, Calm, hubVars
  <2>2. ASSUME NEW q \in Relays PROVE RelayCalm(q)'
    BY HubAssumption, ZenonT(60) DEF StartConsumer, Goto, Calm, RelayCalm, Empty, relayVars, Types,
         TypeOK, RelayTypes
  <2>3. InsertHasHeaders'
    <3>1. hdr[prel[c]] = "ok" /\ UNCHANGED <<hdr, prel>>
      BY Zenon DEF StartConsumer, Goto, relayVars
    <3>2. \A d \in Callers : d # c => pc'[d] = pc[d]
      BY Zenon DEF StartConsumer, Goto, Types, TypeOK, CallTypes
    <3> QED BY <3>1, <3>2, Zenon DEF Calm, InsertHasHeaders
  <2> QED BY <2>1, <2>2, <2>3, Zenon DEF Calm
<1>13. ASSUME NEW c \in Callers, Insert(c) PROVE Calm'
  <2> USE <1>13
  <2>1. hubCtx' # "done" /\ stopper' = "no"
    BY Zenon DEF Insert, Goto, Calm, hubVars
  <2>2. ASSUME NEW q \in Relays PROVE RelayCalm(q)'
    BY HubAssumption, SMTT(40) DEF Insert, Goto, Calm, RelayCalm, Empty, relayVars, Verdict,
         CallTypes, CallsHaveRelay, InCall, InsertHasHeaders, Types, TypeOK, RelayTypes
  <2>3. InsertHasHeaders'
    BY SMTT(40) DEF Insert, Goto, Calm, RelayCalm, InsertHasHeaders, Types, TypeOK, CallTypes,
         RelayTypes, CallsHaveRelay, InCall, callerVars, relayVars
  <2> QED BY <2>1, <2>2, <2>3, Zenon DEF Calm
<1>14. ASSUME NEW c \in Callers, RemoveConsumer(c) PROVE Calm'
  <2> USE <1>14
  <2>1. hubCtx' # "done" /\ stopper' = "no"
    BY Zenon DEF RemoveConsumer, Calm, hubVars
  <2>2. ASSUME NEW q \in Relays PROVE RelayCalm(q)'
    <3>1. \A i \in Ids : consumers'[q][i] \in {consumers[q][i], None}
      <4>1. CASE consumers[prel[c]][cid[c]] = None
        BY <4>1, Zenon DEF RemoveConsumer
      <4>2. CASE consumers[prel[c]][cid[c]] # None
        <5>1. consumers' = [consumers EXCEPT ![prel[c]][cid[c]] = None]
          BY <4>2, Zenon DEF RemoveConsumer
        <5> QED BY <5>1, SMTT(40) DEF Types, TypeOK, RelayTypes
      <4> QED BY <4>1, <4>2, Zenon
    <3> QED BY <3>1, Zenon DEF RemoveConsumer, Calm, RelayCalm, Empty
  <2>3. InsertHasHeaders'
    <3>1. UNCHANGED hdr
      BY Zenon DEF RemoveConsumer
    <3>2. NoNewInsert
      <4>1. CASE Return(c)
        BY <4>1, Zenon DEF NoNewInsert, Return, Types, TypeOK, CallTypes
      <4>2. CASE Goto(c, "closing")
        BY <4>2, Zenon DEF NoNewInsert, Goto, Types, TypeOK, CallTypes
      <4> QED BY <4>1, <4>2, Zenon DEF RemoveConsumer
    <3> QED BY <3>1, <3>2, Zenon DEF Calm, InsertHasHeaders, NoNewInsert
  <2> QED BY <2>1, <2>2, <2>3, Zenon DEF Calm
<1>15. ASSUME NEW c \in Callers, NEW r \in Relays, NewRelay(c, r) PROVE Calm'
  <2> USE <1>15
  <2>1. hubCtx' # "done" /\ stopper' = "no"
    BY Zenon DEF NewRelay, FreeRelay, Calm, hubVars
  <2>2. ASSUME NEW q \in Relays PROVE RelayCalm(q)'
    BY HubAssumption, SMTT(40) DEF NewRelay, FreeRelay, Calm, RelayCalm, Empty, Types, TypeOK,
         RelayTypes
  <2>3. InsertHasHeaders'
    <3>1. \A d \in Callers : pc'[d] = "insert" => pc[d] = "insert" /\ prel'[d] = prel[d]
      BY Zenon DEF NewRelay, Types, TypeOK, CallTypes
    <3>2. \A d \in Callers : prel[d] # r
      BY Zenon DEF NewRelay, FreeRelay
    <3>3. \A q \in Relays : q # r => hdr'[q] = hdr[q]
      BY Zenon DEF NewRelay, Types, TypeOK, RelayTypes
    <3> QED
      BY <3>1, <3>2, <3>3, SMTT(40) DEF Calm, InsertHasHeaders, Types, CallsHaveRelay, InCall
  <2> QED BY <2>1, <2>2, <2>3, Zenon DEF Calm
<1>16. ~SignalStop /\ ~SignalCancel /\ ~WaitStop /\ ~ParentCancel /\ \A r \in Relays :
     ~ReadFails(r)
  BY Zenon DEF SignalStop, SignalCancel, WaitStop, ParentCancel, ReadFails, Calm
<1>17. CASE UNCHANGED vars
  BY <1>17, CalmKept, Zenon DEF vars, calmVars, NoNewInsert, hubVars, relayVars, callerVars
<1> QED BY <1>1, <1>2, <1>3, <1>4, <1>5, <1>6, <1>7, <1>8, <1>9, <1>10, <1>11, <1>12, <1>13, Zenon,
     <1>14, <1>15, <1>16, <1>17, CalmFrame, CalmKept DEF Next, Hub, Relay, Caller, CallerStep

\* A relay that was closed holds no consumer, as long as it did not fail while it ran
\* and the hub is not stopped (relay.go:146-163, 452-471).
THEOREM ClosedEmpty ==
  ASSUME EndsOnlyByClose
  PROVE  SafeSpec => []ClosedRelayIsEmpty
<1>1. Init => Types /\ Reclaim /\ Calm
  <2>1. Init => Reclaim
    BY ZenonT(60) DEF Init, Reclaim, NotYetRun, DemuxerHeld, ReclaimIsComplete
  <2>2. Init => Calm
    BY SMTT(40) DEF Init, Calm, RelayCalm, Empty, InsertHasHeaders
  <2> QED BY <2>1, <2>2, TypesInit, Zenon
<1>2. (Types /\ Reclaim /\ Calm) /\ [Next]_vars => (Types /\ Reclaim /\ Calm)'
  BY TypesStep, ReclaimStep, CalmStep, Zenon
<1>3. Types /\ Reclaim /\ Calm => ClosedRelayIsEmpty
  <2> SUFFICES ASSUME Types, Reclaim, Calm, NEW r \in Relays, closing[r], hcur # r
               PROVE  Attached(r) = {}
    BY Zenon DEF ClosedRelayIsEmpty
  <2>1. main[r] \in {"none", "exit"}
    BY Zenon DEF Reclaim, ReclaimIsComplete, RelayStopped
  <2>2. Empty(r)
    BY <2>1, Zenon DEF Calm, RelayCalm
  <2> QED BY <2>2, Zenon DEF Empty, Attached
<1> QED BY <1>1, <1>2, <1>3, PTL DEF SafeSpec

-----------------------------------------------------------------------------
(* No relay is left behind unstarted.                                      *)

\* The relay is queued, or its creator is about to queue it.
Pending(r) == InQueue(r) \/ \E c \in Callers : pc[c] = "enqueue" /\ prel[c] = r

UnstartedIsPending ==
  \A s \in Sources : relays[s] # None /\ ~started[relays[s]] => Pending(relays[s])

\* Nothing about that changes.
EnqueuersStay == \A c \in Callers : pc[c] = "enqueue" => pc'[c] = "enqueue" /\ prel'[c] =
  prel[c]
Waits == EnqueuersStay /\ UNCHANGED <<relays, started, startQ>>

\* Most steps are of that kind.
LEMMA PendingFrame ==
  ASSUME Types,
         \/ HubStart \/ HubLaunch \/ SignalStop \/ SignalCancel \/ WaitStop \/ ParentCancel
         \/ HubTick \/ HubDone \/ RelayClosed
         \/ \E r \in Relays : \/ RelayClose(r) \/ OpenDemuxer(r) \/ GetCodecs(r)
                              \/ GetCodecsFails(r) \/ Sweep(r) \/ MainDone(r) \/ SweepClose(r)
                              \/ SweepClosed(r) \/ SweepDelete(r) \/ DemuxerRemove(r)
                              \/ DemuxerClose(r) \/ ReadFails(r) \/ ReadDone(r)
         \/ \E c \in Callers : \/ MuxerFails(c) \/ ConsumerDone(c) \/ ConsumerExit(c)
                               \/ Consume(c) \/ NotStarted(c) \/ FindRelay(c) \/ CheckError(c)
                               \/ Admit(c) \/ Register(c) \/ CodecsFail(c) \/ StartConsumer(c)
                               \/ HeaderFails(c) \/ Insert(c) \/ Undone(c) \/ Retry(c)
                               \/ HandleClose(c) \/ RemoveConsumer(c) \/ Removed(c)
  PROVE  Waits
<1>1. CASE HubStart \/ HubLaunch \/ SignalStop \/ SignalCancel \/ WaitStop
  BY <1>1, Zenon DEF Waits, EnqueuersStay, relayVars, callerVars, HubStart, HubLaunch,
       SignalStop, SignalCancel, WaitStop
<1>2. CASE ParentCancel \/ HubTick \/ HubDone \/ RelayClosed
  BY <1>2, Zenon DEF Waits, EnqueuersStay, relayVars, callerVars, ParentCancel, HubTick,
       HubDone, RelayClosed
<1>3. ASSUME NEW r \in Relays,
             RelayClose(r) \/ OpenDemuxer(r) \/ GetCodecs(r) \/ GetCodecsFails(r)
      PROVE  Waits
  BY <1>3, Zenon DEF Waits, EnqueuersStay, hubVars, relayVars, callerVars, RelayClose,
       OpenDemuxer, GetCodecs, GetCodecsFails
<1>4. ASSUME NEW r \in Relays,
             Sweep(r) \/ MainDone(r) \/ SweepClose(r) \/ SweepClosed(r)
      PROVE  Waits
  BY <1>4, Zenon DEF Waits, EnqueuersStay, hubVars, relayVars, callerVars, Sweep, MainDone,
       SweepClose, SweepClosed
<1>5. ASSUME NEW r \in Relays,
             SweepDelete(r) \/ DemuxerRemove(r) \/ DemuxerClose(r) \/ ReadFails(r)
      PROVE  Waits
  BY <1>5, Zenon DEF Waits, EnqueuersStay, hubVars, relayVars, callerVars, SweepDelete,
       DemuxerRemove, DemuxerClose, ReadFails
<1>6. ASSUME NEW r \in Relays,
             ReadDone(r)
      PROVE  Waits
  BY <1>6, Zenon DEF Waits, EnqueuersStay, hubVars, relayVars, callerVars, ReadDone
<1>7. ASSUME NEW c \in Callers,
             MuxerFails(c) \/ ConsumerDone(c) \/ ConsumerExit(c) \/ Consume(c)
      PROVE  Waits
  BY <1>7, Zenon DEF Waits, EnqueuersStay, hubVars, relayVars, Types, TypeOK, CallTypes,
       MuxerFails, ConsumerDone, ConsumerExit, Consume
<1>8. ASSUME NEW c \in Callers,
             NotStarted(c) \/ FindRelay(c) \/ CheckError(c) \/ Admit(c)
      PROVE  Waits
  BY <1>8, Zenon DEF Waits, EnqueuersStay, hubVars, relayVars, Goto, Return, Types, TypeOK,
       CallTypes, NotStarted, FindRelay, CheckError, Admit
<1>9. ASSUME NEW c \in Callers,
             Register(c) \/ CodecsFail(c) \/ StartConsumer(c) \/ HeaderFails(c)
      PROVE  Waits
  BY <1>9, Zenon DEF Waits, EnqueuersStay, hubVars, relayVars, Goto, Return, Types, TypeOK,
       CallTypes, Register, CodecsFail, StartConsumer, HeaderFails
<1>10. ASSUME NEW c \in Callers,
             Insert(c) \/ Undone(c) \/ Retry(c) \/ HandleClose(c)
      PROVE  Waits
  BY <1>10, Zenon DEF Waits, EnqueuersStay, hubVars, relayVars, Goto, Return, Types, TypeOK,
       CallTypes, Insert, Undone, Retry, HandleClose
<1>11. ASSUME NEW c \in Callers,
             RemoveConsumer(c) \/ Removed(c)
      PROVE  Waits
  BY <1>11, ZenonT(60) DEF Waits, EnqueuersStay, hubVars, relayVars, Goto, Return, Types, TypeOK,
       CallTypes, RemoveConsumer, Removed
<1> QED BY <1>1, <1>2, <1>3, <1>4, <1>5, <1>6, <1>7, <1>8, <1>9, <1>10, <1>11, Zenon

\* The others keep the relay pending, unless the creator gives up.
LEMMA PendingStep ==
  ASSUME "ctx" \notin Events, Types, UnstartedIsPending, [Next]_vars
  PROVE  UnstartedIsPending'
<1>1. CASE Waits
  BY <1>1, Zenon DEF Waits, EnqueuersStay, UnstartedIsPending, Pending, InQueue
<1>2. CASE HubDelete
  BY <1>2, Zenon DEF HubDelete, UnstartedIsPending, Pending, InQueue, relayVars, callerVars
<1>3. CASE HubStartFailed
  BY <1>3, Zenon DEF HubStartFailed, UnstartedIsPending, Pending, InQueue, relayVars, callerVars,
       Types, TypeOK, HubTypes
<1>4. CASE HubStartRelay
  <2> USE <1>4
  <2> DEFINE r == Head(startQ)
  <2>1. r \in Relays /\ startQ \in Seq(Relays) /\ startQ # <<>> /\ startQ' = Tail(startQ)
    BY SMTT(40) DEF HubStartRelay, Types, TypeOK, HubTypes
  <2>2. started' = [started EXCEPT ![r] = TRUE] /\ UNCHANGED <<relays, pc, prel>>
    BY Zenon DEF HubStartRelay, callerVars
  <2> HIDE DEF r
  <2>3. ASSUME NEW q \in Relays, q # r, InQueue(q) PROVE InQueue(q)'
    <3>1. PICK i \in 1 .. Len(startQ) : startQ[i] = q
      BY <2>3, Zenon DEF InQueue
    <3>2. i # 1
      BY <2>1, <2>3, <3>1, SMTT(40) DEF r
    <3>3. i - 1 \in 1 .. Len(Tail(startQ)) /\ Tail(startQ)[i - 1] = q
      BY <2>1, <3>1, <3>2, SMTT(40)
    <3> QED BY <2>1, <3>3, ZenonT(40) DEF InQueue
  <2> QED
    BY <2>1, <2>2, <2>3, HubAssumption, SMTT(40) DEF UnstartedIsPending, Pending, Types, TypeOK, HubTypes,
         RelayTypes
<1>5. ASSUME NEW c \in Callers, Enqueue(c) PROVE UnstartedIsPending'
  <2> USE <1>5
  <2>1. prel[c] \in Relays /\ startQ \in Seq(Relays) /\ startQ' = Append(startQ, prel[c])
    BY Zenon DEF Enqueue, Types, TypeOK, HubTypes, CallsHaveRelay, InCall
  <2>2. \A q \in Relays : InQueue(q) \/ q = prel[c] => InQueue(q)'
    BY <2>1, SMTT(40) DEF InQueue
  <2>3. \A d \in Callers : d # c => pc'[d] = pc[d] /\ prel'[d] = prel[d]
    BY Zenon DEF Enqueue, Goto, Types, TypeOK, CallTypes
  <2>4. UNCHANGED <<relays, started>>
    BY Zenon DEF Enqueue, relayVars
  <2> QED
    BY <2>2, <2>3, <2>4, HubAssumption, SMTT(40) DEF UnstartedIsPending, Pending, Types, TypeOK, HubTypes
<1>6. ASSUME NEW c \in Callers, NEW r \in Relays, NewRelay(c, r) PROVE UnstartedIsPending'
  <2> USE <1>6
  <2>1. /\ relays' = [relays EXCEPT ![SrcOf[c]] = r] /\ startQ' = startQ
        /\ started' = [started EXCEPT ![r] = FALSE]
        /\ \A s \in Sources : relays[s] # r
    BY Zenon DEF NewRelay, FreeRelay
  <2>2. pc'[c] = "enqueue" /\ prel'[c] = r /\ pc[c] = "lookup"
    BY Zenon DEF NewRelay, Types, TypeOK, CallTypes
  <2>3. \A d \in Callers : d # c => pc'[d] = pc[d] /\ prel'[d] = prel[d]
    BY Zenon DEF NewRelay, Types, TypeOK, CallTypes
  <2>4. Pending(r)'
    BY <2>2, Zenon DEF Pending
  <2>5. ASSUME NEW q \in Relays, Pending(q) PROVE Pending(q)'
    BY <2>1, <2>2, <2>3, <2>5, Zenon DEF Pending, InQueue
  <2>6. ASSUME NEW s \in Sources, s # SrcOf[c], relays'[s] # None, ~started'[relays'[s]]
        PROVE  Pending(relays[s])'
    <3>1. relays'[s] = relays[s] /\ relays[s] \in Relays /\ relays[s] # r
      BY <2>1, <2>6, Zenon DEF Types, TypeOK, HubTypes
    <3>2. started'[relays[s]] = started[relays[s]]
      BY <2>1, <3>1, Zenon DEF Types, TypeOK, RelayTypes
    <3>3. Pending(relays[s])
      BY <2>6, <3>1, <3>2, Zenon DEF UnstartedIsPending
    <3> QED BY <2>5, <3>1, <3>3, Zenon DEF Pending, InQueue
  <2>7. relays'[SrcOf[c]] = r
    BY <2>1, HubAssumption, Zenon DEF Types, TypeOK, HubTypes
  <2> QED BY <2>4, <2>6, <2>7, Zenon DEF UnstartedIsPending, Pending, InQueue
<1>7. \A c \in Callers : ~CtxCancelled(c)
  BY Zenon DEF CtxCancelled
<1>8. CASE UNCHANGED vars
  BY <1>8, <1>1, Zenon DEF vars, hubVars, relayVars, callerVars, Waits, EnqueuersStay
<1> QED
  BY <1>1, <1>2, <1>3, <1>4, <1>5, <1>6, <1>7, <1>8, PendingFrame, Zenon DEF Next, Hub, Relay, Caller,
       CallerStep

\* A relay in the map that was not started will be, as long as no caller's context is
\* cancelled while it waits to queue the relay (relayhub.go:129-149, 313-345).
THEOREM NothingStranded ==
  ASSUME "ctx" \notin Events
  PROVE  SafeSpec => []NoStrandedRelay
<1>1. Init => Types /\ UnstartedIsPending
  <2>1. Init => UnstartedIsPending
    BY SMTT(40) DEF Init, UnstartedIsPending
  <2> QED BY <2>1, TypesInit, Zenon
<1>2. (Types /\ UnstartedIsPending) /\ [Next]_vars => (Types /\ UnstartedIsPending)'
  BY TypesStep, PendingStep, Zenon
<1>3. UnstartedIsPending => NoStrandedRelay
  BY Zenon DEF UnstartedIsPending, Pending, NoStrandedRelay
<1> QED BY <1>1, <1>2, <1>3, PTL DEF SafeSpec

=============================================================================
