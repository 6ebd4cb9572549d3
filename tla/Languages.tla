------------------------------ MODULE Languages ------------------------------
(***************************************************************************)
(* The OCR language packs: the list of languages in the database, the      *)
(* traineddata files in Documents/tessdata, the launch that sets both up   *)
(* (AppDelegate), the downloader, the drawer in which languages are        *)
(* chosen, and the recognition that needs the chosen packs (PSTesseract).  *)
(*                                                                         *)
(* The process may be killed between any two steps; the database and the   *)
(* files survive, a download does not.  AFNetworking moves the body of     *)
(* every HTTP response into place, also that of an error response.         *)
(***************************************************************************)
EXTENDS Naturals, FiniteSets

CONSTANTS Langs,                   \* the languages of languages.plist
          Eng,                     \* the one that ships with the app
          kMaxSelectLanguageCount  \* 3 in the code

ASSUME EngAssumption == Eng \in Langs
ASSUME MaxAssumption == kMaxSelectLanguageCount \in Nat \ {0}

VARIABLES listed,       \* persisted: the PSLanguageModel objects exist
          isSelected,   \* persisted: languages chosen for recognition
          tessdata,     \* persisted: the directory exists
          trainedData,  \* persisted: each pack is absent, good or bad
          phase,        \* launching, up, or dead
          downloads,    \* download tasks that are running
          downloadTask, \* the languages the property downloadTask stands for
          recognizing,  \* an OCR job has been dispatched
          cut           \* history: the pack that ships was not copied, because
                        \* the launch was cut short or the copy failed

stored == <<listed, isSelected, tessdata, trainedData, cut>>
memory == <<downloads, downloadTask, recognizing>>
vars == <<stored, memory, phase>>

-----------------------------------------------------------------------------
Init ==
    /\ listed = FALSE /\ isSelected = {}
    /\ tessdata = FALSE /\ trainedData = [l \in Langs |-> "absent"]
    /\ phase = "starting"
    /\ downloads = {} /\ downloadTask = {} /\ recognizing = FALSE
    /\ cut = FALSE

\* The process dies, with everything that was only in memory, and starts again.
Dies ==
    /\ downloads' = {} /\ downloadTask' = {} /\ recognizing' = FALSE

Kill ==
    /\ phase # "dead"
    /\ phase' = "dead"
    /\ Dies
    /\ cut' = (cut \/ phase = "copying")
    /\ UNCHANGED <<listed, isSelected, tessdata, trainedData>>

Launch ==
    /\ phase = "dead"
    /\ phase' = "starting"
    /\ UNCHANGED <<stored, memory>>

-----------------------------------------------------------------------------
(* _initializeLanguageList, within one transaction: the directory, the pack  *)
(* that ships, then the commit.                                              *)

AlreadyListed ==
    /\ phase = "starting" /\ listed
    /\ phase' = "up"
    /\ UNCHANGED <<stored, memory>>

\* _initializeDefaultTrainedData copies only if it has made the directory.
initializeDefaultTrainedData ==
    /\ phase = "starting" /\ ~listed
    /\ tessdata' = TRUE
    /\ phase' = IF tessdata THEN "committing" ELSE "copying"
    /\ UNCHANGED <<listed, isSelected, trainedData, cut, memory>>

\* The error of the copy is ignored.
CopyItem(ok) ==
    /\ phase = "copying"
    /\ phase' = "committing"
    /\ trainedData' = [trainedData EXCEPT ![Eng] = IF ok THEN "good" ELSE @]
    /\ cut' = (cut \/ ~ok)
    /\ UNCHANGED <<listed, isSelected, tessdata, memory>>

CommitList ==
    /\ phase = "committing"
    /\ phase' = "up"
    /\ listed' = TRUE
    /\ isSelected' = {Eng}
    /\ UNCHANGED <<tessdata, trainedData, cut, memory>>

-----------------------------------------------------------------------------
isDownloadedAlways(l) == TRUE

\* trainedDataDownloadedForLanguage: there is a file, whatever it holds.
isDownloaded(l) == trainedData[l] # "absent"

fullOffByOne == Cardinality(isSelected) > kMaxSelectLanguageCount

full == Cardinality(isSelected) >= kMaxSelectLanguageCount

\* A tap on a language that is there chooses it or not.
didSelectRow(l) ==
    /\ phase = "up"
    /\ isDownloaded(l)
    /\ l \in isSelected \/ ~full
    /\ isSelected' = IF l \in isSelected THEN isSelected \ {l}
                     ELSE isSelected \cup {l}
    /\ UNCHANGED <<listed, tessdata, trainedData, cut, memory, phase>>

detectNever == FALSE

\* Whether the last task is still running.
detectTrainedDataIsDownloading == downloadTask \cap downloads # {}

\* A tap on any other language downloads it.  A task that runs past the death of
\* its drawer goes on.
downloadTraindData(l) ==
    /\ phase = "up"
    /\ ~isDownloaded(l)
    /\ ~detectTrainedDataIsDownloading
    /\ tessdata' = TRUE
    /\ downloads' = downloads \cup {l}
    /\ downloadTask' = {l}
    /\ UNCHANGED <<listed, isSelected, trainedData, cut, recognizing, phase>>

\* The task ends: with a pack, with the body of an error response, or with no
\* response at all.  A file that is already there is not replaced.
DownloadEnds(l, outcome) ==
    /\ l \in downloads
    /\ downloads' = downloads \ {l}
    /\ trainedData' = [trainedData EXCEPT ![l] = IF @ = "absent" THEN outcome ELSE @]
    /\ UNCHANGED <<listed, isSelected, tessdata, cut, downloadTask, recognizing,
                   phase>>

-----------------------------------------------------------------------------
(* Recognition: the button is off while a job is under way.                  *)

PerformOCR ==
    /\ phase = "up" /\ ~recognizing
    /\ recognizing' = TRUE
    /\ UNCHANGED <<stored, downloads, downloadTask, phase>>

languagesNoDefault == isSelected

\* English if the user has chosen none.
languages == IF isSelected = {} THEN {Eng} ELSE isSelected

\* Tesseract's initializer dies unless it can read every pack, and one at least.
TesseractInit == languages # {} /\ \A l \in languages : trainedData[l] = "good"

OCRDone ==
    /\ recognizing /\ TesseractInit
    /\ recognizing' = FALSE
    /\ UNCHANGED <<stored, downloads, downloadTask, phase>>

OCRFatal ==
    /\ recognizing /\ ~TesseractInit
    /\ phase' = "dead"
    /\ Dies
    /\ UNCHANGED stored

-----------------------------------------------------------------------------
Outcomes == {"good", "bad", "absent"}

Next ==
    \/ Kill \/ Launch \/ AlreadyListed \/ initializeDefaultTrainedData
    \/ \E ok \in BOOLEAN : CopyItem(ok)
    \/ CommitList
    \/ \E l \in Langs : didSelectRow(l) \/ downloadTraindData(l)
    \/ \E l \in Langs, o \in Outcomes : DownloadEnds(l, o)
    \/ PerformOCR \/ OCRDone \/ OCRFatal

Spec == Init /\ [][Next]_vars

-----------------------------------------------------------------------------
(* Properties.                                                               *)

\* Every variable has its type, and never more languages are chosen than the
\* drawer allows.
TypeOK ==
    /\ listed \in BOOLEAN /\ tessdata \in BOOLEAN /\ cut \in BOOLEAN
    /\ isSelected \subseteq Langs
    /\ Cardinality(isSelected) <= kMaxSelectLanguageCount
    /\ trainedData \in [Langs -> Outcomes]
    /\ phase \in {"starting", "copying", "committing", "up", "dead"}
    /\ downloads \subseteq Langs /\ downloadTask \subseteq Langs
    /\ recognizing \in BOOLEAN

\* "Only one pack can be downloaded at a time" (the comment of the downloader):
\* the guard looks at the last task only, yet no earlier one can be running.
OneDownload == Cardinality(downloads) <= 1

\* A chosen language has a file, in every order of downloads, choices and
\* deaths of the app; English excepted, if its copy was cut short.
ChosenOnDisk ==
    \A l \in isSelected : trainedData[l] # "absent" \/ (cut /\ l = Eng)

\* Recognition brings the app down only because a pack is not what it seems: an
\* error response was stored as a pack, or the launch failed to copy English.
\* In particular not because the user has chosen no language.
FatalExplained ==
    recognizing /\ ~TesseractInit => cut \/ \E l \in isSelected : trainedData[l] = "bad"
=============================================================================
