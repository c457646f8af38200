-------------------------------- MODULE Updates --------------------------------
(***************************************************************************)
(* Fetching and installing a signed release: update_service, the update    *)
(* dialog, the handlers of the main window and of the view-model.          *)
(*                                                                         *)
(* A release is a number of blocks.  The worker threads of two downloads   *)
(* share one .part file and one cancel event; a file is "right" when its   *)
(* bytes are the first ones of the release.  Signatures and digests are    *)
(* taken to be what they promise: a digest tells right bytes from others.  *)
(***************************************************************************)
EXTENDS Naturals, FiniteSets

CONSTANTS Releases,   \* versions that a manifest may offer
          Threads,    \* bound: downloads at work at the same time
          Blocks,     \* size of a release, of one block at least
          NoFile, None

VARIABLES part,     \* [release -> the .part file]
          final,    \* [release -> the Setup.exe]
          thread,   \* the worker threads of download_update
          cancel,   \* _update_download_cancel
          dialog,   \* UpdateDialog._phase, "closed" without a dialog
          manifest, \* _pending_update_manifest
          path,     \* _pending_update_path
          results,  \* update_download_ready, not yet handled
          gaming,   \* _optimizing_game
          verified, \* the installer whose digest was checked, about to be started
          twice     \* history: two downloads of one release overlapped

updatesVars == <<part, final, thread, cancel, dialog, manifest, path, results,
                 gaming, verified, twice>>

Bytes == [size : 0..Blocks + 1, right : BOOLEAN]
File == Bytes \cup {NoFile}
Idle == [pc |-> "none", of |-> None, total |-> 0, sound |-> TRUE]
Phases == {"closed", "available", "downloading", "paused", "error", "ready"}
Outcomes == {"ok", "cancelled", "error"}

UpdatesTypeOK ==
    /\ part \in [Releases -> File] /\ final \in [Releases -> File]
    /\ thread \in [Threads -> [pc : {"none", "begin", "connect", "read"},
                               of : Releases \cup {None}, total : 0..Blocks,
                               sound : BOOLEAN]]
    /\ cancel \in BOOLEAN /\ gaming \in BOOLEAN /\ twice \in BOOLEAN
    /\ dialog \in Phases
    /\ manifest \in Releases \cup {None} /\ path \in Releases \cup {None}
    /\ results \in SUBSET (Threads \X Outcomes \X Releases)
    /\ verified \in Releases \cup {None}

UpdatesInit ==
    /\ part = [r \in Releases |-> NoFile] /\ final = [r \in Releases |-> NoFile]
    /\ thread = [t \in Threads |-> Idle]
    /\ cancel = FALSE /\ gaming = FALSE /\ twice = FALSE
    /\ dialog = "closed" /\ manifest = None /\ path = None
    /\ results = {} /\ verified = None

Files == <<part, final>>
Window == <<dialog, manifest, path>>
Exact(f) == f # NoFile /\ f.right /\ f.size = Blocks

\* What another program, or the disk, leaves of an installer
Spoilt == [size |-> 0, right |-> FALSE]

-------------------------------------------------------------------------------
(***************************************************************************)
(* The GUI thread, which is also the one that waits for Authenticode       *)
(***************************************************************************)
Free == verified = None

\* _on_update_check_ready, and _on_repair_manifest_ready (which forgets the path)
Offered(r) ==
    /\ Free /\ manifest # r
    /\ manifest' = r /\ path' = None
    /\ UNCHANGED <<Files, thread, cancel, dialog, results, gaming, verified, twice>>

\* _download_pending_update: a dialog that is open is closed first.
OpenDialog ==
    /\ Free /\ manifest # None
    /\ cancel' = (cancel \/ dialog = "downloading")
    /\ dialog' = IF path # None /\ final[path] # NoFile THEN "ready" ELSE "available"
    /\ UNCHANGED <<Files, thread, manifest, path, results, gaming, verified, twice>>

\* _primary_clicked, _begin_update_download and download_update
Download(t) ==
    /\ Free /\ dialog \in {"available", "error", "paused"}
    /\ IF gaming
       THEN dialog' = "error" /\ UNCHANGED <<cancel, thread, twice>>
       ELSE /\ thread[t].pc = "none" /\ ~\E q \in results : q[1] = t
            /\ dialog' = "downloading"
            /\ cancel' = FALSE
            /\ thread' = [thread EXCEPT ![t] = [Idle EXCEPT !.pc = "begin", !.of = manifest]]
            /\ twice' = (twice \/ \E s \in Threads : thread[s].of = manifest)
    /\ UNCHANGED <<Files, manifest, path, results, gaming, verified>>

\* _secondary_clicked while downloading
Pause ==
    /\ Free /\ dialog = "downloading"
    /\ dialog' = "paused" /\ cancel' = TRUE
    /\ UNCHANGED <<Files, thread, manifest, path, results, gaming, verified, twice>>

\* The close button cancels; reject(), by the button or the Escape key, does not.
CloseDialog ==
    /\ Free /\ dialog # "closed"
    /\ dialog' = "closed"
    /\ cancel' \in {cancel, cancel \/ dialog = "downloading"}
    /\ UNCHANGED <<Files, thread, manifest, path, results, gaming, verified, twice>>

\* _on_update_download_ready: whichever download it was, the dialog shows it.
OnReady(q) ==
    /\ Free /\ q \in results
    /\ results' = results \ {q}
    /\ path' = IF q[2] = "ok" THEN q[3] ELSE path
    /\ dialog' = IF dialog = "closed" THEN "closed"
                 ELSE IF q[2] = "ok" THEN "ready"
                 ELSE IF q[2] = "cancelled" THEN "paused" ELSE "error"
    /\ UNCHANGED <<Files, thread, cancel, manifest, gaming, verified, twice>>

\* Mutant: the file is not checked again before it is started
InstallUnchecked ==
    /\ Free /\ dialog = "ready" /\ path # None /\ manifest # None
    /\ ~gaming
    /\ verified' = IF path = manifest THEN path ELSE None
    /\ UNCHANGED <<Files, thread, cancel, Window, results, gaming, twice>>

\* _install_pending_update up to verify_downloaded_installer, against the
\* manifest that is pending now
Install ==
    /\ Free /\ dialog = "ready" /\ path # None /\ manifest # None
    /\ ~gaming
    /\ verified' = IF path = manifest /\ Exact(final[path]) THEN path ELSE None
    /\ UNCHANGED <<Files, thread, cancel, Window, results, gaming, twice>>

\* has_valid_authenticode, then Popen (which ends the program) or a refusal
Launch ==
    /\ verified # None /\ final[verified] # NoFile
    /\ verified' = None
    /\ dialog' = "closed" /\ manifest' = None /\ path' = None
    /\ thread' = [t \in Threads |-> Idle] /\ results' = {} /\ cancel' = FALSE
    /\ gaming' = FALSE /\ twice' = FALSE
    /\ UNCHANGED Files

Refuse ==
    /\ verified # None
    /\ verified' = None
    /\ UNCHANGED <<Files, thread, cancel, Window, results, gaming, twice>>

Gaming == /\ Free /\ gaming' = ~gaming
          /\ UNCHANGED <<Files, thread, cancel, Window, results, verified, twice>>

-------------------------------------------------------------------------------
(***************************************************************************)
(* download_verified_installer, in a worker thread                         *)
(***************************************************************************)
End(t, outcome) ==
    /\ thread' = [thread EXCEPT ![t] = Idle]
    /\ results' = results \cup {<<t, outcome, thread[t].of>>}

OpenByOther(t) == \E s \in Threads \ {t} : thread[s].pc = "read" /\ thread[s].of = thread[t].of

Delete(files, r) == [files EXCEPT ![r] = NoFile]

\* A verified installer is used as it is; of a partial one the rest is fetched.  A
\* part that is too long is deleted (or not: Windows refuses while it is open).
Begin(t) ==
    LET r == thread[t].of
        kept == part[r] # NoFile /\ part[r].size <= Blocks
    IN
    /\ thread[t].pc = "begin"
    /\ IF Exact(final[r])
       THEN End(t, "ok") /\ UNCHANGED Files
       ELSE /\ final' = IF final[r] # NoFile /\ final[r].size = Blocks
                        THEN Delete(final, r) ELSE final
            /\ IF part[r] # NoFile /\ ~kept /\ OpenByOther(t)
               THEN End(t, "error") /\ UNCHANGED part
               ELSE /\ part' = IF kept THEN part ELSE Delete(part, r)
                    /\ thread' = [thread EXCEPT ![t].pc = "connect",
                                     ![t].total = IF kept THEN part[r].size ELSE 0,
                                     ![t].sound = IF kept THEN part[r].right ELSE TRUE]
                    /\ UNCHANGED results
    /\ UNCHANGED <<cancel, Window, gaming, verified, twice>>

\* A partial file stays when the network fails, and everything else that goes
\* wrong deletes it (unless another thread has it open: Windows refuses).
Unlinked(t) == IF OpenByOther(t) THEN part ELSE Delete(part, thread[t].of)

NetworkFails(t) ==
    /\ thread[t].pc \in {"connect", "read"}
    /\ End(t, "error")
    /\ UNCHANGED <<Files, cancel, Window, gaming, verified, twice>>

\* The server continues after what is there (206), or sends everything (200);
\* after the last block there is nothing to continue (416, an URLError).
Connect(t) ==
    LET r == thread[t].of
        append == thread' = [thread EXCEPT ![t].pc = "read"]
        fresh == [thread EXCEPT ![t].pc = "read", ![t].total = 0, ![t].sound = TRUE]
        truncated == [part EXCEPT ![r] = [size |-> 0, right |-> TRUE]]
    IN
    /\ thread[t].pc = "connect"
    /\ \/ /\ thread[t].total \in 1..Blocks - 1
          /\ append
          /\ part' = IF part[r] = NoFile THEN truncated ELSE part
          /\ UNCHANGED results
       \/ /\ thread[t].total # Blocks
          /\ thread' = fresh /\ part' = truncated
          /\ UNCHANGED results
       \/ /\ thread[t].total > 0     \* a 206 of another position
          /\ End(t, "error") /\ part' = Unlinked(t)
    /\ UNCHANGED <<final, cancel, Window, gaming, verified, twice>>

\* One block, of the release or (a broken server) not
Read(t) ==
    LET r == thread[t].of
        total == thread[t].total
    IN
    /\ thread[t].pc = "read" /\ ~cancel
    /\ IF total = Blocks
       THEN End(t, "error") /\ part' = Unlinked(t)    \* more than the manifest says
       ELSE \E right \in BOOLEAN :
              /\ thread' = [thread EXCEPT ![t].total = total + 1,
                                          ![t].sound = @ /\ right]
              /\ part' = [part EXCEPT ![r] =
                    [size |-> IF @.size > Blocks THEN @.size ELSE @.size + 1,
                     right |-> @.right /\ right /\ @.size = total /\ ~OpenByOther(t)]]
              /\ UNCHANGED results
    /\ UNCHANGED <<final, cancel, Window, gaming, verified, twice>>

Cancelled(t) ==
    /\ thread[t].pc = "read" /\ cancel
    /\ End(t, "cancelled")
    /\ UNCHANGED <<Files, cancel, Window, gaming, verified, twice>>

\* The end of the stream.  The digest is that of the thread's own stream.
Complete(t) ==
    LET r == thread[t].of IN
    /\ thread[t].pc = "read" /\ ~cancel
    /\ IF thread[t].total = Blocks /\ thread[t].sound
       THEN IF OpenByOther(t)
            THEN End(t, "error") /\ UNCHANGED Files
            ELSE /\ End(t, "ok")
                 /\ final' = [final EXCEPT ![r] = part[r]]
                 /\ part' = Delete(part, r)
       ELSE End(t, "error") /\ part' = Unlinked(t) /\ UNCHANGED final
    /\ UNCHANGED <<cancel, Window, gaming, verified, twice>>

\* It happens to the installer that is offered (the others are not started), but
\* not after its digest was checked.
Spoil ==
    /\ Free /\ path # None /\ final[path] # NoFile
    /\ final' = [final EXCEPT ![path] = Spoilt]
    /\ UNCHANGED <<part, thread, cancel, Window, results, gaming, verified, twice>>

\* The program ends, or is killed, at any point; the files stay.
Restart ==
    /\ thread' = [t \in Threads |-> Idle] /\ results' = {}
    /\ cancel' = FALSE /\ gaming' = FALSE /\ verified' = None /\ twice' = FALSE
    /\ dialog' = "closed" /\ manifest' = None /\ path' = None
    /\ UNCHANGED Files

-------------------------------------------------------------------------------
UpdatesNext ==
    \/ \E r \in Releases : Offered(r)
    \/ Spoil \/ OpenDialog \/ Pause \/ CloseDialog \/ Install \/ Launch \/ Refuse \/ Gaming
    \/ \E q \in results : OnReady(q)
    \/ \E t \in Threads :
         \/ Download(t) \/ Begin(t) \/ Connect(t) \/ NetworkFails(t)
         \/ Read(t) \/ Cancelled(t) \/ Complete(t)
    \/ Restart

UpdatesSpec == UpdatesInit /\ [][UpdatesNext]_updatesVars

-------------------------------------------------------------------------------
Serial == ~twice

\* While the dialog shows a download, a thread is at work on one or its result is
\* about to be handled: the progress bar does not stand for nothing
\* (main_viewmodel.py:1248-1330, update_dialog.py:190-260).
DownloadingIsAlive ==
    dialog = "downloading" => results # {} \/ \E t \in Threads : thread[t].pc # "none"

\* What the dialog offers to install is a release to the last block, whatever was
\* cancelled, resumed or offered meanwhile (update_service.py:160-260), unless the
\* file was spoilt.
ReadyIsRight ==
    dialog = "ready" /\ ~twice /\ path # None /\ final[path] # Spoilt => Exact(final[path])

\* What is started is a release to the last block: what was spoilt before the check
\* of the digest is refused, and between the check and the start nothing of the
\* program writes to the file (update_service.py:262-321).
LaunchesRight == verified # None /\ Launch /\ ~twice => Exact(final[verified])
LaunchedIsRight == [][LaunchesRight]_updatesVars

\* A part that the dialog says is "kept safe, and continued next time"
\* (update_dialog.py:224) can be continued: a request for what follows it can be
\* answered (update_service.py:205).
KeptCanResume ==
    /\ dialog = "paused" /\ manifest # None /\ part[manifest] # NoFile
    /\ ~twice /\ \A t \in Threads : thread[t].pc = "none"
    => part[manifest].size < Blocks

\* LaunchesRight and ReadyIsRight, made inductive.  A download has a release and a
\* file: the dialog is open for a manifest, and no file that is open is deleted.
WorkHasFile ==
    /\ dialog # "closed" => manifest # None
    /\ \A t \in Threads : /\ thread[t].of = None <=> thread[t].pc = "none"
                          /\ thread[t].pc = "read" => part[thread[t].of] # NoFile

\* One download at a time works on the file of a release, and knows how much of it
\* is there and whether it is right.
Matches(t) ==
    LET file == part[thread[t].of]
    IN  file # NoFile /\ file.size = thread[t].total /\ file.right = thread[t].sound

OneDownloads ==
    /\ \A s, t \in Threads : thread[t].pc # "none" /\ thread[s].of = thread[t].of => s = t
    /\ \A t \in Threads :
          thread[t].pc = "read" \/ (thread[t].pc = "connect" /\ thread[t].total > 0)
             => Matches(t)

\* What a finished download left, or was checked, is right, unless it was spoilt.
Fetched == {q[3] : q \in {p \in results : p[2] = "ok"}}
FetchedIsRight ==
    /\ verified # None => Exact(final[verified])
    /\ \A r \in (Fetched \cup {path}) \ {None} : final[r] = Spoilt \/ Exact(final[r])

UpdatesInv ==
    /\ UpdatesTypeOK /\ WorkHasFile /\ DownloadingIsAlive
    /\ ~twice => OneDownloads /\ FetchedIsRight
===============================================================================
