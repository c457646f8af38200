---------------------------------- MODULE Files ----------------------------------
(***************************************************************************)
(* The files that hold what the user made - the games (games_service), the *)
(* connection profiles (tunnel_storage_service) and the DNS backup - and   *)
(* their migration from the folder of the product's former name            *)
(* (app_paths).  The games are written in place by the window and by the   *)
(* workers that learn routes; the profiles are replaced by a rename.       *)
(***************************************************************************)
EXTENDS FiniteSets

CONSTANTS Items,     \* games, profiles
          Initial,   \* DEFAULT_GAMES
          Threads,   \* bound: threads that save the games
          NoFile, Torn

VARIABLES disk,    \* the files
          former,  \* those in the folder of the former name
          memory,  \* vm.games, vm.tunnel_configs
          up,      \* the program runs
          saver,   \* who writes what
          chosen,  \* history: what the user made last
          lapses,  \* history: why the files need not hold it
          removed  \* history: the backup was deleted, and none saved since

fileVars == <<disk, former, memory, up, saver, chosen, lapses, removed>>

Kinds == {"games", "profiles"}
Names == Kinds \cup {"backup"}
Savers == Threads \cup {"profiles"}
Idle == [pc |-> "none", content |-> {}]

FilesTypeOK ==
    /\ disk \in [Names -> (SUBSET Items) \cup {NoFile, Torn}]
    /\ disk["backup"] # Torn
    /\ former \in [Names -> (SUBSET Items) \cup {NoFile}]
    /\ memory \in [Kinds -> SUBSET Items] /\ chosen \in [Kinds -> SUBSET Items]
    /\ saver \in [Savers -> [pc : {"none", "write"}, content : SUBSET Items]]
    /\ (\E s \in Savers : saver[s].pc # "none") => up
    /\ lapses \subseteq {"together", "cut"} /\ removed \in BOOLEAN

\* migrated_file, which every access to a file goes through
Migrated(name) == disk[name] = NoFile /\ former[name] # NoFile
Present(name) == IF Migrated(name) THEN former[name] ELSE disk[name]

\* load_games and load_configs: what cannot be read counts as not there.
LoadedGames == IF Present("games") \in {NoFile, Torn} THEN Initial ELSE Present("games")
LoadedProfiles == IF Present("profiles") = NoFile THEN {} ELSE Present("profiles")
Loaded == [k \in Kinds |-> IF k = "games" THEN LoadedGames ELSE LoadedProfiles]

FilesInit ==
    /\ disk = [n \in Names |-> NoFile]
    /\ former \in [Names -> (SUBSET Items) \cup {NoFile}]
    /\ memory = [k \in Kinds |-> {}] /\ chosen = Loaded
    /\ up = FALSE /\ saver = [s \in Savers |-> Idle]
    /\ lapses = {} /\ removed = FALSE

FilesClean == lapses = {}

\* The games are stored when there were none.
StartUp ==
    /\ ~up
    /\ up' = TRUE
    /\ memory' = Loaded
    /\ disk' = [n \in Names |-> IF n = "games" /\ Present(n) = NoFile THEN Initial
                                ELSE Present(n)]
    /\ UNCHANGED <<former, saver, chosen, lapses, removed>>

\* save_games opens the file, which empties it, and writes.
Open(t, content) ==
    /\ saver[t].pc = "none"
    /\ disk' = [disk EXCEPT !["games"] = Torn]
    /\ saver' = [saver EXCEPT ![t] = [pc |-> "write", content |-> content]]
    /\ lapses' = lapses \cup
          (IF \E s \in Threads : saver[s].pc # "none" THEN {"together"} ELSE {})

\* Mutant: the list is saved before it is changed
EditGamesLate(t, games) ==
    /\ up
    /\ memory' = [memory EXCEPT !["games"] = games]
    /\ chosen' = [chosen EXCEPT !["games"] = games]
    /\ Open(t, memory["games"])
    /\ UNCHANGED <<former, up, removed>>

\* add_game, remove_game and the settings of a game; a worker that learned a route
EditGames(t, games) ==
    /\ up
    /\ memory' = [memory EXCEPT !["games"] = games]
    /\ chosen' = [chosen EXCEPT !["games"] = games]
    /\ Open(t, games)
    /\ UNCHANGED <<former, up, removed>>
LearnedRoute(t) ==
    /\ up
    /\ Open(t, memory["games"])
    /\ UNCHANGED <<former, memory, up, chosen, removed>>

WriteGames(t) ==
    /\ saver[t].pc = "write"
    /\ disk' = [disk EXCEPT !["games"] = saver[t].content]
    /\ saver' = [saver EXCEPT ![t] = Idle]
    /\ UNCHANGED <<former, memory, up, chosen, lapses, removed>>

\* add_config, remove_config: a draft, and the rename
EditProfiles(profiles) ==
    /\ up /\ saver["profiles"].pc = "none"
    /\ memory' = [memory EXCEPT !["profiles"] = profiles]
    /\ saver' = [saver EXCEPT !["profiles"] = [pc |-> "write", content |-> profiles]]
    /\ UNCHANGED <<disk, former, up, chosen, lapses, removed>>
ReplaceProfiles ==
    /\ saver["profiles"].pc = "write"
    /\ disk' = [disk EXCEPT !["profiles"] = saver["profiles"].content]
    /\ chosen' = [chosen EXCEPT !["profiles"] = saver["profiles"].content]
    /\ saver' = [saver EXCEPT !["profiles"] = Idle]
    /\ UNCHANGED <<former, memory, up, lapses, removed>>

\* _save_original_dns and restore_original_dns, as far as the file goes: a backup
\* that exists is not replaced, and the restoration deletes it.
SaveBackup(content) ==
    /\ up
    /\ disk' = [disk EXCEPT !["backup"] =
                   IF Present("backup") = NoFile THEN content ELSE Present("backup")]
    /\ removed' = FALSE
    /\ UNCHANGED <<former, memory, up, saver, chosen, lapses>>
RemoveBackup ==
    /\ up
    /\ disk' = [disk EXCEPT !["backup"] = NoFile]
    /\ removed' = TRUE
    /\ UNCHANGED <<former, memory, up, saver, chosen, lapses>>

\* The program ends, or is killed; its threads with it.
End ==
    /\ up
    /\ up' = FALSE
    /\ saver' = [s \in Savers |-> Idle]
    /\ lapses' = IF \E t \in Threads : saver[t].pc # "none"
                 THEN lapses \cup {"cut"} ELSE lapses
    /\ UNCHANGED <<disk, former, memory, chosen, removed>>

FilesNext ==
    \/ StartUp \/ End \/ ReplaceProfiles \/ RemoveBackup
    \/ \E t \in Threads :
         \/ LearnedRoute(t) \/ WriteGames(t)
         \/ \E games \in SUBSET Items : EditGames(t, games)
    \/ \E content \in SUBSET Items : EditProfiles(content) \/ SaveBackup(content)

FilesSpec == FilesInit /\ [][FilesNext]_fileVars

-------------------------------------------------------------------------------
\* What the user made is what the program works with after the next start: the
\* profiles whenever it is killed, as they were before or after the last change;
\* the games as long as one thread at a time writes them and none is killed while
\* it does (games_service.py:57, tunnel_storage_service.py:72-74).  A backup that a
\* restoration deleted does not come back, unless the former folder holds one: it
\* is copied again at the next access (app_paths.py:29-39).
ChoicesKept ==
    /\ up /\ lapses = {} =>
          /\ memory["games"] = chosen["games"]
          /\ saver["profiles"].pc = "none" => memory["profiles"] = chosen["profiles"]
          /\ (\A t \in Threads : saver[t].pc = "none") => disk["games"] = chosen["games"]
    /\ removed /\ former["backup"] = NoFile => Present("backup") = NoFile

\* ChoicesKept, made inductive: the next start would load what the user chose, and
\* what is being written is that.
SavedAsChosen ==
    /\ LoadedProfiles = chosen["profiles"]
    /\ up /\ saver["profiles"].pc = "none" => memory["profiles"] = chosen["profiles"]
    /\ saver["profiles"].pc = "write" =>
          saver["profiles"].content = memory["profiles"]
    /\ removed /\ former["backup"] = NoFile => disk["backup"] = NoFile

GamesAsChosen ==
    lapses = {} =>
       /\ \A s, t \in Threads : saver[s].pc # "none" /\ saver[t].pc # "none" => s = t
       /\ \A t \in Threads : saver[t].pc # "none" => saver[t].content = chosen["games"]
       /\ up => memory["games"] = chosen["games"]
       /\ (\A t \in Threads : saver[t].pc = "none") =>
             IF up THEN disk["games"] = chosen["games"]
             ELSE Present("games") # Torn /\ LoadedGames = chosen["games"]

FilesInv == FilesTypeOK /\ SavedAsChosen /\ GamesAsChosen
===============================================================================
