------------------------------ MODULE KeyFiles ------------------------------
(* The files of a multispam installation: multispam.yaml and the key file of
   each sender, as the init command writes them (cmd_init.go, config.go).
   Files outlive the process, which may be stopped between any two writes,
   and the user may edit what lies on disk at any time.

   The command either creates an installation or adds senders to one.  Both
   write the keys first, one file at a time, and the configuration that names
   them last.  An invocation that is refused before its first write changes
   nothing and is not a step.                                               *)
EXTENDS Integers, Sequences

CONSTANTS
  Dirs,        \* values of --keys-dir
  MaxSenders,  \* bound: senders in a configuration
  MaxStops,    \* bound: times a command is stopped
  MaxEdits     \* bound: edits by the user

ASSUME KeyFilesAssumption ==
  {MaxSenders, MaxStops, MaxEdits} \subseteq Nat

VARIABLES
  files,    \* path -> what the key file at that path holds
  config,   \* multispam.yaml: whether it is there, and its senders
  ipc,      \* the init command: "idle", "keys" or "save"
  base,     \* the senders it loaded, if it adds to a configuration
  fresh,    \* the senders it was asked to make
  made,     \* how many of them have their key
  lastKey,  \* keys are numbered as they are generated
  stops,    \* times a command was stopped
  edits     \* edits by the user

initVars == <<ipc, base, fresh, made>>
keyVars == <<files, config, initVars, lastKey, stops, edits>>

Paths == Dirs \X (Nat \ {0})
Entries == [name : Nat \ {0}, file : Paths]
KeyFile == [key : Nat, form : {"plain", "encrypted", "broken"}]

\* "sender<i>", with its key in "<dir>/sender<i>.key".
Entry(dir, i) == [name |-> i, file |-> <<dir, i>>]
NewSenders(dir, first, n) == [i \in 1 .. n |-> Entry(dir, first + i - 1)]

NoConfig == [present |-> FALSE, senders |-> <<>>]
ConfigOf(senders) == [present |-> TRUE, senders |-> senders]

\* LoadConfig: the file is there and passes validate, which wants two senders.
Loadable == config.present /\ Len(config.senders) >= 2

\* What SenderAddress and LoadSenderKey need of a key file.
HasAddress(path) == path \in DOMAIN files /\ files[path].form # "broken"
HasKey(path) == path \in DOMAIN files /\ files[path].form = "plain"

Stored(path, content) ==
  [p \in DOMAIN files \cup {path} |-> IF p = path THEN content ELSE files[p]]

-----------------------------------------------------------------------------
(* The init command. *)

\* Slip: the count of the invocation before is kept.
BeginAgain(senders, new) ==
  /\ base' = senders /\ fresh' = new /\ made' = made
  /\ ipc' = "keys"
  /\ UNCHANGED <<files, config, lastKey, stops, edits>>

Begin(senders, new) ==
  /\ base' = senders /\ fresh' = new /\ made' = 0
  /\ ipc' = "keys"
  /\ UNCHANGED <<files, config, lastKey, stops, edits>>

\* init: not over an existing configuration, and not for a single sender.
CreateNew(n, dir) ==
  /\ ipc = "idle"
  /\ ~config.present
  /\ n >= 2
  /\ Begin(<<>>, NewSenders(dir, 1, n))

\* init --add: the numbers go on where the configuration ends.
AddSenders(n, dir) ==
  /\ ipc = "idle"
  /\ Loadable
  /\ n >= 1 /\ Len(config.senders) + n <= MaxSenders
  /\ Begin(config.senders, NewSenders(dir, Len(config.senders) + 1, n))

Generating == ipc = "keys" /\ made < Len(fresh)
NextPath == fresh[made + 1].file

\* Slip: the file is written whether or not there is one.
MayWriteAny(path) == TRUE
MayWrite(path) == path \notin DOMAIN files

\* A key is generated and saved.
WriteKey ==
  /\ Generating
  /\ MayWrite(NextPath)
  /\ files' = Stored(NextPath, [key |-> lastKey + 1, form |-> "plain"])
  /\ lastKey' = lastKey + 1
  /\ made' = made + 1
  /\ UNCHANGED <<config, ipc, base, fresh, stops, edits>>

\* The key file exists already: the command ends, and leaves the keys it has
\* written to no configuration.
KeyFileExists ==
  /\ Generating
  /\ ~MayWrite(NextPath)
  /\ ipc' = "idle"
  /\ UNCHANGED <<files, config, base, fresh, made, lastKey, stops, edits>>

\* Slip: the configuration is saved before the keys.
SavesFirst == ipc = "keys" /\ made = 0
SavesNow == ipc = "keys" /\ made = Len(fresh)

\* SaveConfig opens the file, which empties it ...
EmptyConfig ==
  /\ SavesNow
  /\ config' = ConfigOf(<<>>)
  /\ ipc' = "save"
  /\ UNCHANGED <<files, base, fresh, made, lastKey, stops, edits>>

\* ... and then writes it.
WriteConfig ==
  /\ ipc = "save"
  /\ config' = ConfigOf(base \o fresh)
  /\ ipc' = "idle"
  /\ UNCHANGED <<files, base, fresh, made, lastKey, stops, edits>>

\* The process is stopped, perhaps while it writes a key file.
Stop ==
  /\ ipc # "idle"
  /\ stops < MaxStops
  /\ stops' = stops + 1
  /\ ipc' = "idle"
  /\ \/ UNCHANGED files
     \/ /\ Generating /\ MayWrite(NextPath)
        /\ files' = Stored(NextPath, [key |-> 0, form |-> "broken"])
  /\ UNCHANGED <<config, base, fresh, made, lastKey, edits>>

-----------------------------------------------------------------------------
(* The user. *)

Edit ==
  /\ edits < MaxEdits
  /\ edits' = edits + 1
  /\ UNCHANGED <<initVars, lastKey, stops>>

\* "remove the file to re-initialize".
RemoveConfig ==
  /\ config.present
  /\ config' = NoConfig
  /\ UNCHANGED files
  /\ Edit

WithoutIndex(s, i) ==
  [j \in 1 .. (Len(s) - 1) |-> IF j < i THEN s[j] ELSE s[j + 1]]

\* "Review and edit": a sender is taken out of the configuration.
DropSender(i) ==
  /\ i \in DOMAIN config.senders
  /\ config' = ConfigOf(WithoutIndex(config.senders, i))
  /\ UNCHANGED files
  /\ Edit

\* A key file is encrypted, as the keystore format allows.
EncryptKey(path) ==
  /\ HasKey(path)
  /\ files' = Stored(path, [files[path] EXCEPT !.form = "encrypted"])
  /\ UNCHANGED config
  /\ Edit

-----------------------------------------------------------------------------
KeyInit ==
  /\ files = [p \in {} |-> [key |-> 0, form |-> "broken"]]
  /\ config = NoConfig
  /\ ipc = "idle" /\ base = <<>> /\ fresh = <<>> /\ made = 0
  /\ lastKey = 0 /\ stops = 0 /\ edits = 0

StartInit ==
  \E n \in 1 .. MaxSenders, dir \in Dirs : CreateNew(n, dir) \/ AddSenders(n, dir)

InitStep == WriteKey \/ KeyFileExists \/ EmptyConfig \/ WriteConfig \/ Stop

User ==
  \/ RemoveConfig
  \/ \E i \in 1 .. MaxSenders : DropSender(i)
  \/ \E path \in DOMAIN files : EncryptKey(path)

KeyNext == StartInit \/ InitStep \/ User

KeySpec == KeyInit /\ [][KeyNext]_keyVars

-----------------------------------------------------------------------------
\* Type invariant of the installation.
KeyTypeOK ==
  /\ DOMAIN files \subseteq Paths
  /\ \A p \in DOMAIN files : files[p] \in KeyFile
  /\ config \in [present : BOOLEAN, senders : Seq(Entries)]
  /\ ipc \in {"idle", "keys", "save"}
  /\ base \in Seq(Entries) /\ fresh \in Seq(Entries)
  /\ made \in 0 .. Len(fresh)
  /\ lastKey \in Nat
  /\ stops \in 0 .. MaxStops /\ edits \in 0 .. MaxEdits

\* Wherever the process was stopped and whatever was edited: a sender the
\* configuration names has its key (generateKeys before SaveConfig), so no
\* command pays to, or spends from, an account nobody holds.
ConfigNamesKeys ==
  \A i \in DOMAIN config.senders : HasAddress(config.senders[i].file)

\* No two senders of a configuration share an account, although dropping a
\* sender makes init --add hand out a number a second time (runAddSenders
\* counts the senders; generateKeys refuses a file that exists).
AccountsDistinct ==
  \A i, j \in DOMAIN config.senders :
    i # j => files[config.senders[i].file].key # files[config.senders[j].file].key

\* A key that was saved is never overwritten: the tokens of its account would
\* be gone (generateKeys).
KeysNeverLost ==
  [][\A p \in DOMAIN files :
       HasAddress(p) => HasAddress(p)' /\ files'[p].key = files[p].key]_keyVars
=============================================================================
