--------------------------- MODULE LanguagesProofs ---------------------------
(***************************************************************************)
(* Proofs about the language packs, for any number of languages and any    *)
(* maximum of chosen ones.                                                 *)
(***************************************************************************)
EXTENDS Languages, FiniteSetTheorems, TLAPS

\* The chosen languages are finitely many, so that counting them means something.
FewChosen == IsFiniteSet(isSelected)

\* The property downloadTask stands for one language at most, and no task runs
\* that it does not stand for: why looking at the last task is enough.
LastTaskOnly ==
    /\ downloads \subseteq downloadTask
    /\ \A l, m \in downloadTask : l = m

\* From the moment the directory is made, English is being copied, is there, or
\* was cut off; and nothing counts on English before the directory is made.
EngPlaced ==
    /\ phase \in {"copying", "committing", "up"} => tessdata
    /\ listed => tessdata
    /\ tessdata /\ phase # "copying" => trainedData[Eng] # "absent" \/ cut

\* English is downloaded, and so can be spoilt, only after it was cut off.
EngSpoiltOnlyIfCut ==
    trainedData[Eng] = "bad" \/ Eng \in downloads => cut

OnlyUpRecognizes == recognizing => phase = "up"

\* The inductive invariant.
IInv ==
    /\ TypeOK /\ FewChosen
    /\ LastTaskOnly
    /\ EngPlaced /\ EngSpoiltOnlyIfCut /\ OnlyUpRecognizes
    /\ ChosenOnDisk

LEMMA InitIInv == Init => IInv
  <1> SUFFICES ASSUME Init PROVE IInv
    OBVIOUS
  <1>1. IsFiniteSet({}) /\ Cardinality({}) = 0
    BY FS_EmptySet
  <1>2. Cardinality(isSelected) <= kMaxSelectLanguageCount /\ FewChosen
    BY <1>1, MaxAssumption DEF Init, FewChosen
  <1>3. TypeOK
    BY <1>2 DEF Init, TypeOK, Outcomes
  <1>4. EngSpoiltOnlyIfCut
    BY EngAssumption DEF Init, EngSpoiltOnlyIfCut
  <1>5. LastTaskOnly /\ EngPlaced /\ OnlyUpRecognizes /\ ChosenOnDisk
    BY DEF Init, LastTaskOnly, EngPlaced, OnlyUpRecognizes, ChosenOnDisk
  <1>6. QED
    BY <1>2, <1>3, <1>4, <1>5 DEF IInv

LEMMA StepIInv == IInv /\ [Next]_vars => IInv'
  <1> SUFFICES ASSUME IInv, [Next]_vars
               PROVE  IInv'
    OBVIOUS
  <1> USE EngAssumption, MaxAssumption
      DEF IInv, TypeOK, FewChosen, LastTaskOnly, EngPlaced, EngSpoiltOnlyIfCut,
          OnlyUpRecognizes, ChosenOnDisk, Outcomes
  <1>1. CASE Kill
    BY <1>1 DEF Kill, Dies
  <1>2. CASE Launch
    BY <1>2 DEF Launch, stored, memory
  <1>3. CASE AlreadyListed
    BY <1>3 DEF AlreadyListed, stored, memory
  <1>4. CASE initializeDefaultTrainedData
    BY <1>4 DEF initializeDefaultTrainedData, memory
  <1>5. ASSUME NEW ok \in BOOLEAN, CopyItem(ok)
        PROVE  IInv'
    BY <1>5 DEF CopyItem, memory
  <1>6. CASE CommitList
    <2>1. IsFiniteSet({Eng}) /\ Cardinality({Eng}) = 1
      BY FS_Singleton
    <2>2. QED
      BY <1>6, <2>1 DEF CommitList, memory
  <1>7. ASSUME NEW l \in Langs, didSelectRow(l)
        PROVE  IInv'
    <2>1. IsFiniteSet(isSelected') /\ Cardinality(isSelected') <= kMaxSelectLanguageCount
      <3>1. CASE l \in isSelected
        <4>1. isSelected' = isSelected \ {l}
          BY <1>7, <3>1 DEF didSelectRow
        <4>2. /\ IsFiniteSet(isSelected \ {l})
              /\ Cardinality(isSelected \ {l}) = Cardinality(isSelected) - 1
          BY <3>1, FS_RemoveElement
        <4>3. Cardinality(isSelected) \in Nat
          BY FS_CardinalityType
        <4>4. QED
          BY <4>1, <4>2, <4>3
      <3>2. CASE l \notin isSelected
        <4>1. isSelected' = isSelected \cup {l} /\ ~full
          BY <1>7, <3>2 DEF didSelectRow
        <4>2. /\ IsFiniteSet(isSelected \cup {l})
              /\ Cardinality(isSelected \cup {l}) = Cardinality(isSelected) + 1
          BY <3>2, FS_AddElement
        <4>3. Cardinality(isSelected) \in Nat
          BY FS_CardinalityType
        <4>4. QED
          BY <4>1, <4>2, <4>3 DEF full
      <3>3. QED
        BY <3>1, <3>2
    <2>2. isSelected' \subseteq Langs /\ ChosenOnDisk'
      BY <1>7 DEF didSelectRow, isDownloaded
    <2>3. QED
      BY <1>7, <2>1, <2>2 DEF didSelectRow, memory
  <1>8. ASSUME NEW l \in Langs, downloadTraindData(l)
        PROVE  IInv'
    <2>1. downloads = {}
      BY <1>8 DEF downloadTraindData, detectTrainedDataIsDownloading
    <2>2. downloads' = {l} /\ downloadTask' = {l}
      BY <1>8, <2>1 DEF downloadTraindData
    <2>3. l = Eng => cut
      BY <1>8 DEF downloadTraindData, isDownloaded
    <2>4. QED
      BY <1>8, <2>2, <2>3 DEF downloadTraindData
  <1>9. ASSUME NEW l \in Langs, NEW o \in Outcomes, DownloadEnds(l, o)
        PROVE  IInv'
    <2>1. /\ trainedData' \in [Langs -> Outcomes]
          /\ \A m \in Langs : trainedData[m] # "absent" => trainedData'[m] = trainedData[m]
          /\ l # Eng => trainedData'[Eng] = trainedData[Eng]
      BY <1>9 DEF DownloadEnds
    <2>2. ChosenOnDisk'
      BY <1>9, <2>1 DEF DownloadEnds
    <2>3. LastTaskOnly' /\ EngPlaced' /\ EngSpoiltOnlyIfCut' /\ OnlyUpRecognizes'
      BY <1>9, <2>1 DEF DownloadEnds
    <2>4. QED
      BY <1>9, <2>1, <2>2, <2>3 DEF DownloadEnds
  <1>10. CASE PerformOCR
    BY <1>10 DEF PerformOCR, stored
  <1>11. CASE OCRDone
    BY <1>11 DEF OCRDone, stored
  <1>12. CASE OCRFatal
    BY <1>12 DEF OCRFatal, Dies, stored
  <1>13. CASE UNCHANGED vars
    BY <1>13 DEF vars, stored, memory
  <1>14. QED
    BY <1>1, <1>2, <1>3, <1>4, <1>5, <1>6, <1>7, <1>8, <1>9, <1>10, <1>11,
       <1>12, <1>13 DEF Next

LEMMA SpecIInv == Spec => []IInv
  BY InitIInv, StepIInv, PTL DEF Spec

-----------------------------------------------------------------------------
\* Type correctness; in particular the drawer never lets more than
\* kMaxSelectLanguageCount languages be chosen.
THEOREM LanguagesTypeCorrect == Spec => []TypeOK
  <1>1. IInv => TypeOK
    BY DEF IInv
  <1>2. QED
    BY <1>1, SpecIInv, PTL

\* At most one pack is being downloaded, although the downloader asks only about
\* the last task.
THEOREM AlwaysOneDownload == Spec => []OneDownload
  <1>1. ASSUME IInv
        PROVE  OneDownload
    <2>1. CASE downloads = {}
      BY <2>1, FS_EmptySet DEF OneDownload
    <2>2. CASE downloads # {}
      <3>1. PICK l \in downloads : TRUE
        BY <2>2
      <3>2. downloads = {l}
        BY <1>1, <3>1 DEF IInv, LastTaskOnly
      <3>3. Cardinality({l}) = 1
        BY FS_Singleton
      <3>4. QED
        BY <3>2, <3>3 DEF OneDownload
    <2>3. QED
      BY <2>1, <2>2
  <1>2. IInv => OneDownload
    BY <1>1
  <1>3. QED
    BY <1>2, SpecIInv, PTL

\* Every chosen language has a file, but English after a copy cut short.
THEOREM ChosenAlwaysOnDisk == Spec => []ChosenOnDisk
  <1>1. IInv => ChosenOnDisk
    BY DEF IInv
  <1>2. QED
    BY <1>1, SpecIInv, PTL

\* The fatal error in Tesseract's initializer has one of the two known causes.
THEOREM FatalAlwaysExplained == Spec => []FatalExplained
  <1>1. ASSUME IInv, recognizing, ~TesseractInit, ~cut
        PROVE  \E l \in isSelected : trainedData[l] = "bad"
    <2>1. trainedData[Eng] = "good"
      BY <1>1, EngAssumption
      DEF IInv, TypeOK, Outcomes, EngPlaced, EngSpoiltOnlyIfCut, OnlyUpRecognizes
    <2>2. isSelected # {}
      BY <1>1, <2>1 DEF TesseractInit, languages
    <2>3. PICK l \in isSelected : trainedData[l] # "good"
      BY <1>1, <2>2 DEF TesseractInit, languages
    <2>4. trainedData[l] # "absent"
      BY <1>1, <2>3 DEF IInv, ChosenOnDisk
    <2>5. trainedData[l] \in Outcomes
      BY <1>1, <2>3 DEF IInv, TypeOK
    <2>6. QED
      BY <2>3, <2>4, <2>5 DEF Outcomes
  <1>2. IInv => FatalExplained
    BY <1>1 DEF FatalExplained
  <1>3. QED
    BY <1>2, SpecIInv, PTL
=============================================================================
