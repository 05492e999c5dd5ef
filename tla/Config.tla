------------------------------- MODULE Config -------------------------------
(***************************************************************************)
(* The configuration file and the object that keeps it (config.cpp): the   *)
(* settings in memory, the file, its backups, and another file the user    *)
(* exports to and imports from.  A save writes a temporary file and        *)
(* renames it; the process may die, and the disk may refuse, before either *)
(* of the two.  Every operation but the export holds m_mutex, and one      *)
(* thread calls the export and all that change something, so an operation  *)
(* is a few steps, `phase`, that nothing else of the program comes         *)
(* between.                                                                *)
(*                                                                         *)
(* A file holds a document, bytes that are not one (Damaged), or is not    *)
(* there (NoFile).                                                         *)
(***************************************************************************)
EXTENDS Settings

VARIABLES
    file,           \* config.json
    backups,        \* the contents of config.json.corrupt-* and .backup-*
    other,          \* the file chosen for export and import
    temp,           \* QSaveFile's temporary file
    m_data, m_firstRun, m_saveBlocked,
    phase,          \* the step the operation at hand has reached
    known,          \* contents of file that this process has read or written
    disk            \* what may go wrong: a subset of {"read", "backup", "write"}

fileVars == <<file, backups, other>>
dataVars == <<m_data, m_firstRun, m_saveBlocked>>
configVars == <<fileVars, dataVars, temp, phase, known, disk>>

Contents(documents) == documents \cup Damaged \cup {NoFile}

Fails(what) == what \in disk

Phases == {"stopped", "idle", "saving", "importing", "exporting"}

ConfigInit(documents) ==
    /\ file \in documents /\ other = NoFile /\ backups = {}
    /\ m_data = DefaultJson /\ m_firstRun = FALSE /\ m_saveBlocked = FALSE
    /\ temp = NoFile /\ phase = "stopped" /\ known = {}

-----------------------------------------------------------------------------
(* Config::load, from the constructor.                                     *)

\* lstat, open or read fails: the defaults are used and the file is left alone.
LoadBlocked ==
    /\ phase = "stopped" /\ Fails("read")
    /\ m_saveBlocked' = TRUE
    /\ phase' = "idle"
    /\ UNCHANGED <<fileVars, m_data, m_firstRun, temp, known, disk>>

LoadDocument ==
    /\ phase = "stopped" /\ IsDocument(file)
    /\ m_data' = Loaded(file)
    /\ known' = {file}
    /\ phase' = IF ApplyLoadedJson(file).save THEN "saving" ELSE "idle"
    /\ UNCHANGED <<fileVars, m_firstRun, m_saveBlocked, temp, disk>>

\* Not a document: its bytes are kept before the defaults are saved over it.
LoadDamaged ==
    /\ phase = "stopped" /\ file \in Damaged
    /\ \/ backups' = backups \cup {file}
          /\ m_firstRun' = TRUE /\ phase' = "saving"
          /\ UNCHANGED m_saveBlocked
       \/ Fails("backup")
          /\ m_saveBlocked' = TRUE /\ phase' = "idle"
          /\ UNCHANGED <<backups, m_firstRun>>
    /\ UNCHANGED <<file, other, m_data, temp, known, disk>>

LoadAbsent ==
    /\ phase = "stopped" /\ file = NoFile
    /\ m_firstRun' = TRUE /\ phase' = "saving"
    /\ UNCHANGED <<fileVars, m_data, m_saveBlocked, temp, known, disk>>

Load == LoadBlocked \/ LoadDocument \/ LoadDamaged \/ LoadAbsent

-----------------------------------------------------------------------------
(* Config::saveUnlocked.                                                   *)

\* The temporary file.
Write ==
    /\ phase = "saving" /\ temp = NoFile /\ ~m_saveBlocked
    /\ temp' = m_data
    /\ UNCHANGED <<fileVars, dataVars, phase, known, disk>>

\* Nothing is written: saves are blocked, or the disk refuses.
SaveNothing ==
    /\ phase = "saving"
    /\ m_saveBlocked \/ Fails("write")
    /\ phase' = "idle" /\ temp' = NoFile
    /\ UNCHANGED <<fileVars, dataVars, known, disk>>

Commit ==
    /\ phase = "saving" /\ temp # NoFile
    /\ file' = temp /\ known' = known \cup {temp}
    /\ temp' = NoFile /\ phase' = "idle"
    /\ UNCHANGED <<backups, other, dataVars, disk>>

Save == Write \/ SaveNothing \/ Commit

\* A setter: the settings change in memory, then they are saved.
Sets(data) ==
    /\ phase = "idle"
    /\ m_data' = data /\ phase' = "saving"
    /\ UNCHANGED <<fileVars, m_firstRun, m_saveBlocked, temp, known, disk>>

-----------------------------------------------------------------------------
(* Config::exportToFile and importFromFile.                                *)

ExportToFile ==
    /\ phase = "idle" /\ file # NoFile
    /\ temp' = file /\ phase' = "exporting"
    /\ UNCHANGED <<fileVars, dataVars, known, disk>>

FinishExport ==
    /\ phase = "exporting"
    /\ \/ other' = temp
       \/ Fails("write") /\ UNCHANGED other
    /\ temp' = NoFile /\ phase' = "idle"
    /\ UNCHANGED <<file, backups, dataVars, known, disk>>

\* Mutant: no backup of what is replaced.
ImportWithoutBackup ==
    /\ phase = "idle" /\ IsDocument(other)
    /\ temp' = other /\ phase' = "importing"
    /\ UNCHANGED <<fileVars, dataVars, known, disk>>

\* A document is chosen.  What it will replace, if there is a config.json, is
\* copied first; when that fails the import ends as if it had not begun.
ImportFromFile ==
    /\ phase = "idle" /\ IsDocument(other)
    /\ backups' = backups \cup ({file} \ {NoFile})
    /\ temp' = other /\ phase' = "importing"
    /\ UNCHANGED <<file, other, dataVars, known, disk>>

FinishImport ==
    /\ phase = "importing"
    /\ file' = temp /\ known' = known \cup {temp}
    /\ m_data' = Loaded(temp)
    /\ m_saveBlocked' = FALSE /\ m_firstRun' = FALSE
    /\ phase' = IF ApplyLoadedJson(temp).save THEN "saving" ELSE "idle"
    /\ temp' = NoFile
    /\ UNCHANGED <<backups, other, disk>>

ImportRefused ==
    /\ phase = "importing" /\ Fails("write")
    /\ phase' = "idle" /\ temp' = NoFile
    /\ UNCHANGED <<fileVars, dataVars, known, disk>>

-----------------------------------------------------------------------------
(* Around the program.                                                     *)

\* The process ends, wherever it is; what is on the disk stays.
Ends ==
    /\ phase # "stopped"
    /\ phase' = "stopped" /\ temp' = NoFile
    /\ m_data' = DefaultJson /\ m_firstRun' = FALSE /\ m_saveBlocked' = FALSE
    /\ known' = {}
    /\ UNCHANGED <<fileVars, disk>>

\* The user writes the file by hand while the program is not running.
EditFile(c) ==
    /\ phase = "stopped" /\ c # file
    /\ file' = c
    /\ UNCHANGED <<backups, other, dataVars, temp, phase, known, disk>>

\* The user gets a file to import.
GetOther(c) ==
    /\ phase = "idle" /\ c # other
    /\ other' = c
    /\ UNCHANGED <<file, backups, dataVars, temp, phase, known, disk>>

\* The steps an operation goes on with by itself.
Proceeds == Save \/ FinishExport \/ FinishImport

-----------------------------------------------------------------------------
(* The promise.                                                            *)

Store == INSTANCE DurableSettings WITH
            running <- phase # "stopped", working <- m_data,
            stored <- file, sealed <- m_saveBlocked
=============================================================================
