--------------------------------- MODULE Consent ---------------------------------
(***************************************************************************)
(* The settings file (settings_service), the terms at the first start      *)
(* (TermsDialog, main), and the switch of an optional lookup at a third    *)
(* party (TrafficInsightWidget; the operator's automatic detection is the  *)
(* same).  A change reads the file, and replaces it by a rename; a lock    *)
(* holds off other threads of the process, not another instance.           *)
(***************************************************************************)
EXTENDS FiniteSets

CONSTANTS Instances,  \* of the program that the user has started
          NoFile, Garbled

VARIABLES file,      \* settings.json
          instance,  \* what each instance is at
          agreed,    \* history: the user wants the lookup, knowing the notice
          strained   \* history: why the file may not say so

consentVars == <<file, instance, agreed, strained>>

\* Which privacy notice was acknowledged, the lookup, and all else
Settings == [notice : {"none", "old", "current"}, lookup : BOOLEAN, other : BOOLEAN]
Defaults == [notice |-> "none", lookup |-> FALSE, other |-> FALSE]

\* shown is the switch on the page of an open window; draft the settings that
\* a change is about to write.
State == [pc : {"off", "terms", "open", "accept", "save"},
          shown : BOOLEAN, draft : Settings]
Off == [pc |-> "off", shown |-> FALSE, draft |-> Defaults]

ConsentTypeOK ==
    /\ file \in Settings \cup {NoFile, Garbled}
    /\ instance \in [Instances -> State]
    /\ \A i \in Instances :
          instance[i].pc \in {"off", "terms", "accept"} => ~instance[i].shown
    /\ agreed \in BOOLEAN /\ strained \subseteq {"overlap", "cut"}

ConsentInit ==
    /\ file \in Settings \cup {NoFile}
    /\ file # NoFile /\ file.lookup => file.notice # "current"
    /\ instance = [i \in Instances |-> Off]
    /\ agreed = FALSE /\ strained = {}

ConsentClean == strained = {}

\* Mutant: a lookup is on whichever notice was acknowledged
LoadedAsSaved == IF file \in {NoFile, Garbled} THEN Defaults ELSE file

\* load_settings.  A file that cannot be read counts as the defaults; a lookup
\* that was switched on under an older notice counts as off.
Loaded ==
    IF file \in {NoFile, Garbled} THEN Defaults
    ELSE [file EXCEPT !.lookup = @ /\ file.notice = "current"]

Running == {i \in Instances : instance[i].pc # "off"}
Writing(i) == instance[i].pc \in {"accept", "save"}

\* main: the settings are created when there are none, and without the current
\* acceptance nothing but the terms is shown.
Launch(i) ==
    /\ instance[i].pc = "off"
    /\ file' = IF file = NoFile THEN Defaults ELSE file
    /\ instance' = [instance EXCEPT ![i] =
          IF Loaded.notice = "current"
          THEN [Off EXCEPT !.pc = "open", !.shown = Loaded.lookup]
          ELSE [Off EXCEPT !.pc = "terms"]]
    /\ strained' = IF Running = {} THEN strained ELSE strained \cup {"overlap"}
    /\ UNCHANGED agreed

\* The read of a change
Change(i, pc, shown, draft) ==
    /\ instance' = [instance EXCEPT ![i] = [pc |-> pc, shown |-> shown, draft |-> draft]]
    /\ UNCHANGED <<file, strained>>

\* _accept_terms
Accept(i) ==
    /\ instance[i].pc = "terms"
    /\ Change(i, "accept", FALSE, [Loaded EXCEPT !.notice = "current"])
    /\ agreed' = FALSE

\* _linkirani_toggled: switching on is asked about once more.
Toggle(i, on, confirmed) ==
    LET allowed == on /\ confirmed
    IN
    /\ instance[i].pc = "open" /\ on # instance[i].shown
    /\ Change(i, "save", allowed, [Loaded EXCEPT !.lookup = allowed])
    /\ agreed' = allowed

\* set_value of any other setting, _save of the first-run dialog
SetOther(i, value) ==
    /\ instance[i].pc = "open"
    /\ Change(i, "save", instance[i].shown, [Loaded EXCEPT !.other = value])
    /\ UNCHANGED agreed

\* save_settings; after the terms the window opens with the settings read again.
Save(i) ==
    /\ Writing(i)
    /\ file' = instance[i].draft
    /\ instance' = [instance EXCEPT ![i].pc = "open",
                       ![i].shown = IF instance[i].pc = "accept"
                                    THEN instance[i].draft.lookup ELSE @]
    /\ UNCHANGED <<agreed, strained>>

\* The window is closed, the terms are declined, or the program is killed; a
\* change that has not been written is lost.
Exit(i) ==
    /\ instance[i].pc # "off"
    /\ instance' = [instance EXCEPT ![i] = Off]
    /\ strained' = IF Writing(i) THEN strained \cup {"cut"} ELSE strained
    /\ UNCHANGED <<file, agreed>>

\* A version with another notice is installed, or the file is damaged.
Upgrade ==
    /\ Running = {} /\ file \notin {NoFile, Garbled} /\ file.notice = "current"
    /\ file' = [file EXCEPT !.notice = "old"]
    /\ agreed' = FALSE
    /\ UNCHANGED <<instance, strained>>
Damage(to) ==
    /\ Running = {}
    /\ file' = to
    /\ UNCHANGED <<instance, agreed, strained>>

ConsentNext ==
    \/ \E i \in Instances :
         \/ Launch(i) \/ Accept(i) \/ Save(i) \/ Exit(i)
         \/ \E on, confirmed \in BOOLEAN : Toggle(i, on, confirmed)
         \/ \E value \in BOOLEAN : SetOther(i, value)
    \/ Upgrade \/ \E to \in {NoFile, Garbled} : Damage(to)

ConsentSpec == ConsentInit /\ [][ConsentNext]_consentVars

-------------------------------------------------------------------------------
\* "A value saved by a development build must never turn either lookup on before
\* the user has seen the current notice" (settings_service.py:88-93): the switch
\* that a check obeys, and the file that the next start reads, say yes only when
\* the user said so after acknowledging the current notice, and has not taken it
\* back - also across restarts, upgrades and damage to the file, while one
\* instance runs and is not killed while it saves.
ConsentIsFresh ==
    strained = {} =>
       /\ \A i \in Instances : instance[i].shown => agreed
       /\ Loaded.lookup /\ (\A i \in Instances : ~Writing(i)) => agreed

\* ConsentIsFresh, made inductive: one instance runs, and what it is about to write
\* says of the lookup what the user said last.
OneInstance ==
    strained = {} =>
       /\ \A i, j \in Running : i = j
       /\ \A i \in Instances :
             /\ Writing(i) => /\ instance[i].draft.notice = "current"
                              /\ instance[i].draft.lookup => agreed
             /\ instance[i].pc = "terms" => ~Loaded.lookup
             /\ instance[i].pc = "accept" => ~instance[i].draft.lookup
             /\ instance[i].pc \in {"open", "save"} => Loaded.notice = "current"

ConsentInv == ConsentTypeOK /\ OneInstance /\ ConsentIsFresh
===============================================================================
