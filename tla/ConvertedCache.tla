--------------------------- MODULE ConvertedCache ---------------------------
(* ConverterService.render (converter.py) beside the refresher.  A render    *)
(* asks the converter process for /sub, the converter fetches /raw/{token}   *)
(* back from this service, and the answer is written to the converted file.  *)
(* Between those moments anything can happen on the loop: a refresh, the     *)
(* clearing of the converted files, another render.                          *)
(*                                                                           *)
(* Every (share, format, parameters) has a file of its own and all files are *)
(* cleared together, so one file, the variable `template`, stands for any of *)
(* them.  What matters of a template is which contents it was built from.    *)
EXTENDS Refresher

CONSTANTS Renderers     \* requests that may be rendering the same file

VARIABLES
    late,       \* history: it was written after its contents were superseded,
                \* or a commit ended before the clearing: the process died, or
                \* the database failed
    render      \* what each request is doing

cvars == <<vars, late, render>>

Quiet == [pc |-> "idle", input |-> None]

CTypeOK ==
    /\ TypeOK
    /\ late \in BOOLEAN
    /\ render \in [Renderers -> [pc : {"idle", "requested", "converting"},
                                 input : Contents \cup {None}]]

CInit ==
    /\ Init
    /\ late = FALSE
    /\ render = [r \in Renderers |-> Quiet]

\* A file younger than cache_ttl is served as it is, unless it cannot be read or is
\* for Loon and no valid text; otherwise the converter is asked.  Which of them it
\* is, is left open.
Request(r) ==
    /\ loop = None
    /\ render[r].pc = "idle"
    /\ render' = [render EXCEPT ![r].pc = "requested"]
    /\ UNCHANGED <<vars, late>>

\* The converter process downloads /raw/{token}: what is served at that moment.
ConverterReads(r) ==
    /\ loop = None
    /\ render[r].pc = "requested"
    /\ Served # None
    /\ render' = [render EXCEPT ![r] = [pc |-> "converting", input |-> Served]]
    /\ UNCHANGED <<vars, late>>

\* Deviation: the file is written by a worker thread.
WriteTemplateOnThread(r) ==
    /\ render[r].pc = "converting"
    /\ template' = render[r].input
    /\ UNCHANGED <<db, raw, creds, backup, threshold, volatile>>
    /\ late' = (render[r].input # Served)
    /\ render' = [render EXCEPT ![r] = Quiet]

\* Its answer is validated and written.
WriteTemplate(r) ==
    /\ loop = None
    /\ render[r].pc = "converting"
    /\ ConverterWrites(render[r].input)
    /\ late' = (render[r].input # Served)
    /\ render' = [render EXCEPT ![r] = Quiet]

\* No answer, or not a usable one: the request is answered from the text of an
\* expired file or with 503, and the file stays as it is.
RenderFailed(r) ==
    /\ loop = None
    /\ render[r].pc # "idle"
    /\ render' = [render EXCEPT ![r] = Quiet]
    /\ UNCHANGED <<vars, late>>

\* A refresh changed whether the backup nodes are in use and cannot find out.
Unsettled(t) == pc[t] = "settle" /\ work[t].was # IsActive /\ DatabaseError(t)

\* A step of the refresher; requests do not survive a restart.
RefresherStep ==
    /\ Step
    /\ late' = ((late \/ \E t \in Tasks : Unsettled(t)) /\ template' # None)
    /\ UNCHANGED render

RestartsRenders ==
    /\ Crash
    /\ late' = (template # None /\ (late \/ loop # None))
    /\ render' = [r \in Renderers |-> Quiet]

CNext ==
    \/ \E r \in Renderers :
        Request(r) \/ ConverterReads(r) \/ WriteTemplate(r) \/ RenderFailed(r)
    \/ RefresherStep
    \/ RestartsRenders

CSpec == CInit /\ [][CNext]_cvars

-----------------------------------------------------------------------------
\* The renders are the environment that Refresher assumes.
ImplementsRefresher == Spec

\* A template on disk was built from what is served now, unless its render was
\* overtaken, or the process died or the database failed before a refresh was
\* through with its clearing: whatever else changes what is served (a new digest,
\* the backup nodes taking over or handing back) clears the converted files before
\* anybody can read one.  For refresh() and refresh_if_stale(): editing the backup
\* nodes while they do not take over changes what is merged and, as
\* test_save_clears_converted_only_when_activation_changes has it, clears nothing.
\* The first exception is real: test_refresh_prunes_old_digests_and_invalidates_-
\* converted_templates has a refresh to another digest invalidate the templates,
\* and an overtaken render writes one of the previous payload all the same.
StaleOnlyIfOvertaken ==
    loop = None /\ template # None => template = Served \/ late

\* test_success_clears_converted_when_leaving_backup: no template built from
\* backup nodes outlives their use (renders that were overtaken aside).
LeavingBackupInvalidates ==
    loop = None /\ template = BackupContent /\ ~late => IsActive
=============================================================================
