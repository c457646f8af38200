-------------------------------- MODULE Journal --------------------------------
(***************************************************************************)
(* The recovery journal (recovery_service) and the operations that write   *)
(* it: the DNS service, the temporary QoS policies (game_qos_service) and  *)
(* the emergency reset of the elevated helper.                             *)
(*                                                                         *)
(* What is still to be undone is derived from the rows that the file       *)
(* holds.  Workers of the program and the helper load the rows, write them *)
(* with one more to the same temporary file and rename it, without a lock. *)
(***************************************************************************)
EXTENDS Naturals, Sequences, FiniteSets, SequencesExt

CONSTANTS Writers,    \* bound: operations at work at the same time
          Processes,  \* games with a QoS policy
          Keep        \* rows that the journal keeps, 50 in the code

VARIABLES dns,      \* the program's servers are in effect
          backup,   \* the user's are in the backup file
          qos,      \* processes whose policy is active
          rows,     \* the journal
          tmp,      \* recovery-journal.tmp, <<>> when there is none
          writer,   \* the operations at work
          missed    \* history: why the rows need not tell the truth any more

journalVars == <<dns, backup, qos, rows, tmp, writer, missed>>

Row(action, outcome) == [action |-> action, outcome |-> outcome]
Rows == [action : {"dns-change", "dns-restore", "qos-change", "qos-restore",
                   "emergency-reset", "warp"},
         outcome : {"success", "failed", "partial"}]

\* The rows still to record, the next step of an emergency reset, whether all
\* of it went well so far, and the rows that were loaded.
Idle == [pc |-> "none", row |-> Row("dns-change", "failed"), reset |-> "no",
         fine |-> TRUE, rows |-> <<>>]

\* overlap  two writers between loading and renaming, or a change during a reset
\* failed   a call that reported a failure had changed something
\* several  one policy was removed while others remain
\* dropped  the row of a change that is still in effect had to make room
\* lost     the row was not written: a death or an error in between
Reasons == {"overlap", "failed", "several", "dropped", "lost"}
Note(reasons) == missed' = IF missed = {} THEN reasons ELSE missed
If(condition, reason) == IF condition THEN {reason} ELSE {}

JournalTypeOK ==
    /\ dns \in BOOLEAN /\ backup \in BOOLEAN /\ qos \subseteq Processes
    /\ rows \in Seq(Rows) /\ Len(rows) <= Keep
    /\ tmp \in Seq(Rows) /\ Len(tmp) <= Keep
    /\ writer \in [Writers -> [pc : {"none", "next", "load", "write", "replace"},
                               row : Rows, reset : {"no", "dns", "qos", "mark"},
                               fine : BOOLEAN, rows : Seq(Rows)]]
    /\ missed \subseteq Reasons

JournalInit ==
    /\ dns = FALSE /\ backup = FALSE /\ qos = {}
    /\ rows = <<>> /\ tmp = <<>>
    /\ writer = [w \in Writers |-> Idle]
    /\ missed = {}

-------------------------------------------------------------------------------
(***************************************************************************)
(* The changes, each followed by its row                                   *)
(***************************************************************************)
\* Writer w has a row to record; a reset goes on after it, unless it is done.
Records(w, row) ==
    writer' = [writer EXCEPT ![w].pc = "load", ![w].row = row,
                             ![w].fine = @ /\ row.outcome = "success"]

Free(w) == writer[w].pc = "none"
Resetting == \E v \in Writers : writer[v].reset # "no"

\* _set_dns_direct: the backup comes first; a failure may come after the change.
ChangeDns(w) ==
    /\ Free(w)
    /\ \/ /\ dns' = TRUE /\ backup' = TRUE
          /\ Records(w, Row("dns-change", "success"))
          /\ Note(If(Resetting, "overlap"))
       \/ /\ backup' \in {backup, TRUE}
          /\ dns' \in {dns, backup'}
          /\ Records(w, Row("dns-change", "failed"))
          /\ Note(If(dns' # dns, "failed"))
    /\ UNCHANGED <<qos, rows, tmp>>

\* _restore_original_dns_direct with a backup; without one it records nothing.
RestoreDns(w) ==
    /\ backup
    /\ \/ /\ dns' = FALSE /\ backup' = FALSE
          /\ Records(w, Row("dns-restore", "success"))
          /\ UNCHANGED missed
       \/ /\ dns' \in {dns, FALSE} /\ backup' \in {backup, dns'}
          /\ Records(w, Row("dns-restore", "failed"))
          /\ Note(If(dns' # dns, "failed"))
    /\ UNCHANGED <<qos, rows, tmp>>

Disconnect(w) == Free(w) /\ RestoreDns(w)

\* apply removes the process's policy before it sets it again.
ApplyQos(w, p) ==
    /\ Free(w)
    /\ \/ /\ qos' = qos \cup {p}
          /\ Records(w, Row("qos-change", "success"))
          /\ Note(If(Resetting, "overlap"))
       \/ /\ qos' \in {qos, qos \ {p}, qos \cup {p}}
          /\ Records(w, Row("qos-change", "failed"))
          /\ Note(If(qos' # qos, "failed"))
    /\ UNCHANGED <<dns, backup, rows, tmp>>

\* remove and remove_all
RemovePolicies(w, which) ==
    /\ \/ /\ qos' = qos \ which
          /\ Records(w, Row("qos-restore", "success"))
          /\ Note(If(qos' # {}, "several"))
       \/ /\ qos' \in {qos, qos \ which}
          /\ Records(w, Row("qos-restore", "failed"))
          /\ Note(If(qos' # qos, "failed"))
    /\ UNCHANGED <<dns, backup, rows, tmp>>

RemoveQos(w, p) == Free(w) /\ RemovePolicies(w, {p})

\* run_helper, emergency_reset: the DNS, the policies, and a row for both
EmergencyReset(w) ==
    /\ Free(w)
    /\ writer' = [writer EXCEPT ![w].pc = "next", ![w].reset = "dns"]
    /\ UNCHANGED <<dns, backup, qos, rows, tmp, missed>>

ResetDns(w) ==
    /\ writer[w].pc = "next" /\ writer[w].reset = "dns"
    /\ \/ RestoreDns(w)
       \/ /\ ~backup
          /\ writer' = [writer EXCEPT ![w].reset = "qos"]
          /\ UNCHANGED <<dns, backup, qos, rows, tmp, missed>>

ResetQos(w) ==
    /\ writer[w].pc = "next" /\ writer[w].reset = "qos"
    /\ RemovePolicies(w, Processes)

Mark(w) ==
    /\ writer[w].pc = "next" /\ writer[w].reset = "mark"
    /\ Records(w, Row("emergency-reset",
                      IF writer[w].fine THEN "success" ELSE "partial"))
    /\ UNCHANGED <<dns, backup, qos, rows, tmp, missed>>

-------------------------------------------------------------------------------
(***************************************************************************)
(* record, in three steps                                                  *)
(***************************************************************************)
\* Removes the row; a step of a reset is followed by the next one.
Recorded(w) ==
    LET t == writer[w]
        after(step) == [Idle EXCEPT !.pc = "next", !.reset = step, !.fine = t.fine]
    IN  [writer EXCEPT ![w] = CASE t.reset = "dns" -> after("qos")
                                [] t.reset = "qos" -> after("mark")
                                [] OTHER -> Idle]

Overlaps(w) == \E v \in Writers \ {w} : writer[v].pc \notin {"none", "next"}

\* Mutant: the journal is never shortened
NewestAll(list) == list

\* All rows, or as many as leave room for one.
Newest(list) == SubSeq(list, IF Len(list) < Keep THEN 1 ELSE Len(list) - Keep + 2, Len(list))

Load(w) ==
    /\ writer[w].pc = "load"
    /\ writer' = [writer EXCEPT ![w].pc = "write",
                     ![w].rows = Append(Newest(rows), writer[w].row)]
    /\ Note(If(Overlaps(w), "overlap"))
    /\ UNCHANGED <<dns, backup, qos, rows, tmp>>

Write(w) ==
    /\ writer[w].pc = "write"
    /\ tmp' = writer[w].rows
    /\ writer' = [writer EXCEPT ![w].pc = "replace"]
    /\ UNCHANGED <<dns, backup, qos, rows, missed>>

\* Mutant: a restoration that failed counts, too
ClearsAnyway(row, change) ==
    row.action \in {"emergency-reset",
                    IF change = "dns-change" THEN "dns-restore" ELSE "qos-restore"}

Clears(row, change) ==
    /\ row.outcome = "success"
    /\ row.action \in {"emergency-reset",
                       IF change = "dns-change" THEN "dns-restore" ELSE "qos-restore"}

\* receipt: the last row of a change or of its undoing decides.
Pending(list, change) ==
    \E i \in DOMAIN list :
       /\ list[i] = Row(change, "success")
       /\ \A j \in i + 1..Len(list) : ~Clears(list[j], change)

Replace(w) ==
    /\ writer[w].pc = "replace"
    /\ IF tmp = <<>>
       THEN UNCHANGED <<rows, tmp>> /\ Note({"lost"})   \* another one renamed it
       ELSE /\ rows' = tmp /\ tmp' = <<>>
            /\ Note(If(\E c \in {"dns-change", "qos-change"} :
                          /\ Pending(rows, c) /\ ~Pending(rows', c)
                          /\ ~Clears(Last(rows'), c), "dropped"))
    /\ writer' = Recorded(w)
    /\ UNCHANGED <<dns, backup, qos>>

\* safe_record swallows the errors of the disk.
NotWritten(w) ==
    /\ writer[w].pc \in {"load", "write", "replace"}
    /\ writer' = Recorded(w)
    /\ Note({"lost"})
    /\ UNCHANGED <<dns, backup, qos, rows, tmp>>

\* The program or the helper is killed.
Die(w) ==
    /\ ~Free(w)
    /\ writer' = [writer EXCEPT ![w] = Idle]
    /\ Note(If(writer[w].pc # "next", "lost"))
    /\ UNCHANGED <<dns, backup, qos, rows, tmp>>

-------------------------------------------------------------------------------
JournalNext ==
    \E w \in Writers :
       \/ ChangeDns(w) \/ Disconnect(w)
       \/ \E p \in Processes : ApplyQos(w, p) \/ RemoveQos(w, p)
       \/ EmergencyReset(w) \/ ResetDns(w) \/ ResetQos(w) \/ Mark(w)
       \/ Load(w) \/ Write(w) \/ Replace(w) \/ NotWritten(w) \/ Die(w)

JournalSpec == JournalInit /\ [][JournalNext]_journalVars

-------------------------------------------------------------------------------
JournalClean == missed = {}

\* Between two operations the receipt says exactly what has to be undone
\* (recovery_service.py:66-83, shown at views/main_window.py:1887 and at the
\* next start, main_viewmodel.py:1446): no change is in effect that it does not
\* list, and none is listed that is not.
ReceiptIsRight ==
    (\A w \in Writers : Free(w)) /\ missed = {}
       => /\ Pending(rows, "dns-change") <=> dns
          /\ Pending(rows, "qos-change") <=> qos # {}

-------------------------------------------------------------------------------
(***************************************************************************)
(* The invariant behind it, for every number of writers and rows           *)
(***************************************************************************)
Changes == {"dns-change", "qos-change"}
InEffect(c) == IF c = "dns-change" THEN dns ELSE qos # {}

\* A row that alone says whether a change is to be undone
Decides(row, c) == row = Row(c, "success") \/ Clears(row, c)

Loading == {w \in Writers : writer[w].pc = "load"}
Writing == {w \in Writers : writer[w].pc \in {"write", "replace"}}

\* An operation that is over has left nothing of it, and what is restored was
\* saved.
Tidy ==
    /\ \A w \in Writers :
          /\ Free(w) => writer[w] = Idle
          /\ writer[w].pc = "next" => writer[w].reset # "no"
          /\ w \in Writing => Len(writer[w].rows) \in 1..Keep
    /\ dns => backup

\* A reset that went well so far has undone what it says.
ResetFits ==
    \A w \in Writers : LET t == writer[w] IN
       t.fine =>
          /\ (t.reset = "dns" /\ t.pc # "next") \/ t.reset \in {"qos", "mark"} => ~dns
          /\ (t.reset = "qos" /\ t.pc # "next") \/ t.reset = "mark" => qos = {}

\* The writer between loading and renaming works on the rows of the file.
WriterFits ==
    /\ \A v, w \in Writing : v = w
    /\ \A w \in Writing :
          /\ writer[w].rows = Append(Newest(rows), writer[w].row)
          /\ writer[w].pc = "replace" => tmp = writer[w].rows

\* What is in effect is told by the row that is to be loaded, or by the one that
\* is being written, or by the file.
Told ==
    \A c \in Changes :
       /\ \A v \in Loading : Decides(writer[v].row, c) =>
             (InEffect(c) <=> writer[v].row = Row(c, "success"))
       /\ (\A v \in Loading : ~Decides(writer[v].row, c)) =>
             /\ \A w \in Writing : Decides(writer[w].row, c) =>
                   (InEffect(c) <=> writer[w].row = Row(c, "success"))
             /\ (\A w \in Writing : ~Decides(writer[w].row, c)) =>
                   (InEffect(c) <=> Pending(rows, c))

\* Two changes that wait for the journal at once: whoever loads first notes it.
Crossing == \E v, w \in Loading : v # w

JournalInv ==
    /\ JournalTypeOK
    /\ Tidy
    /\ missed = {} => ResetFits /\ WriterFits /\ (Crossing \/ Told)
===============================================================================
