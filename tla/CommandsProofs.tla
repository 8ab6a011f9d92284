--------------------------- MODULE CommandsProofs ---------------------------
(* Proofs about a session at the command line: it keeps what the init command
   keeps, no token is ever paid to an account nobody holds, no two
   transactions of one run compete for an output, and fund pays each of the
   first senders once and the others not at all.

   First, an installation alone: the init command never names a sender
   without its key, never lets two senders share an account and never
   overwrites a key.  The invariant says what the command knows of the files
   it has seen and written: those of the senders it loaded exist, so the
   check before each write keeps the new files apart from them; and keys are
   numbered as they are made, so files that differ hold keys that differ.

   A session is an installation to which nothing is done but what the init
   command and the user do, so the theorems about installations hold in it.
   An account stays reachable once it is, as no step loses a key; fund only
   pays accounts it read from key files, and a sweep only pays the wallet.

   The rest relies on two facts the commands never look at.  A transaction
   that is included has taken its inputs out of the ledger for good, as no
   output is ever produced twice; and two senders of a configuration are two
   accounts, also when --senders picks them by name.                        *)
EXTENDS Commands, FiniteSetTheorems, TLAPS

Holds(senders) ==
  /\ \A i \in DOMAIN senders : HasAddress(senders[i].file)
  /\ \A i, j \in DOMAIN senders : i # j => senders[i].file # senders[j].file

KeysNumbered == \A p \in DOMAIN files : files[p].key <= lastKey

KeysOwn ==
  \A p, q \in DOMAIN files :
    p # q /\ HasAddress(p) /\ HasAddress(q) => files[p].key # files[q].key

FreshHeld ==
  /\ \A k \in 1 .. made : HasAddress(fresh[k].file)
  /\ \A j, k \in DOMAIN fresh : j # k => fresh[j].file # fresh[k].file
  /\ \A i \in DOMAIN base, k \in 1 .. made : base[i].file # fresh[k].file

KeyInv ==
  /\ KeyTypeOK
  /\ KeysNumbered
  /\ KeysOwn
  /\ Holds(config.senders)
  /\ ipc # "idle" => Holds(base) /\ FreshHeld
  /\ ipc = "save" => made = Len(fresh)

-----------------------------------------------------------------------------
(* What a write does to the other files. *)

LEMMA StoredType ==
  ASSUME KeyTypeOK, NEW path \in Paths, NEW content \in KeyFile
  PROVE  LET f == Stored(path, content) IN
         DOMAIN f \subseteq Paths /\ \A p \in DOMAIN f : f[p] \in KeyFile
BY DEF Stored, KeyTypeOK

LEMMA NewSendersDistinct ==
  ASSUME NEW dir \in Dirs, NEW first \in Nat \ {0}, NEW n \in Nat
  PROVE  LET s == NewSenders(dir, first, n) IN
         /\ s \in Seq(Entries) /\ Len(s) = n
         /\ \A j, k \in DOMAIN s : j # k => s[j].file # s[k].file
<1> DEFINE s == NewSenders(dir, first, n)
<1>1. \A i \in 1 .. n : s[i] \in Entries /\ s[i].file = <<dir, first + i - 1>>
  BY DEF NewSenders, Entry, Entries, Paths
<1>2. s \in Seq(Entries) /\ Len(s) = n
  <2>1. s = [i \in 1 .. n |-> s[i]]
    BY DEF NewSenders
  <2>2. s \in [1 .. n -> Entries]
    BY <1>1, <2>1
  <2> QED BY <2>2
<1>3. \A j, k \in DOMAIN s : j # k => s[j].file # s[k].file
  BY <1>1, <1>2
<1> QED BY <1>2, <1>3

-----------------------------------------------------------------------------
LEMMA InitKeyInv == KeyInit => KeyInv
BY KeyFilesAssumption DEF KeyInit, KeyInv, KeyTypeOK, KeysNumbered, KeysOwn, Holds, NoConfig, Entries

\* The start of an invocation.
LEMMA BeginKeyInv ==
  ASSUME KeyInv, NEW senders \in Seq(Entries), NEW new \in Seq(Entries),
         Begin(senders, new), Holds(senders),
         \A j, k \in DOMAIN new : j # k => new[j].file # new[k].file
  PROVE  KeyInv'
<1> USE DEF Begin
<1>1. KeyTypeOK'
  BY DEF KeyInv, KeyTypeOK
<1>2. KeysNumbered' /\ KeysOwn' /\ Holds(config.senders)'
  BY DEF KeyInv, KeysNumbered, KeysOwn, Holds, HasAddress
<1>3. Holds(base)'
  BY DEF Holds, HasAddress
<1>4. FreshHeld'
  BY DEF FreshHeld
<1> QED BY <1>1, <1>2, <1>3, <1>4 DEF KeyInv

LEMMA CreateNewKeyInv ==
  ASSUME KeyInv, NEW n \in 1 .. MaxSenders, NEW dir \in Dirs, CreateNew(n, dir)
  PROVE  KeyInv'
<1>1. n \in Nat
  BY KeyFilesAssumption
<1>2. Holds(<<>>) /\ <<>> \in Seq(Entries)
  BY DEF Holds
<1> DEFINE new == NewSenders(dir, 1, n)
<1>3. new \in Seq(Entries) /\ \A j, k \in DOMAIN new : j # k => new[j].file # new[k].file
  BY <1>1, NewSendersDistinct
<1>4. Begin(<<>>, new)
  BY DEF CreateNew
<1> HIDE DEF new
<1> QED BY <1>2, <1>3, <1>4, BeginKeyInv

LEMMA AddSendersKeyInv ==
  ASSUME KeyInv, NEW n \in 1 .. MaxSenders, NEW dir \in Dirs, AddSenders(n, dir)
  PROVE  KeyInv'
<1>1. n \in Nat
  BY KeyFilesAssumption
<1>2. config.senders \in Seq(Entries) /\ Holds(config.senders)
  BY DEF KeyInv, KeyTypeOK
<1>3. Len(config.senders) + 1 \in Nat \ {0}
  BY <1>2
<1> DEFINE new == NewSenders(dir, Len(config.senders) + 1, n)
<1>4. new \in Seq(Entries) /\ \A j, k \in DOMAIN new : j # k => new[j].file # new[k].file
  BY <1>1, <1>3, NewSendersDistinct
<1>5. Begin(config.senders, new)
  BY DEF AddSenders
<1> HIDE DEF new
<1> QED BY <1>2, <1>4, <1>5, BeginKeyInv

\* A new key: its path was free, so it is none of the files of the senders
\* the command loaded, and its number is new.
LEMMA WriteKeyKeyInv ==
  ASSUME KeyInv, WriteKey
  PROVE  KeyInv'
<1> SUFFICES ASSUME NEW path, path = NextPath,
                    NEW content, content = [key |-> lastKey + 1, form |-> "plain"]
             PROVE  KeyInv'
  OBVIOUS
<1>1. /\ ipc = "keys" /\ made \in 0 .. Len(fresh) /\ made < Len(fresh)
      /\ fresh \in Seq(Entries) /\ lastKey \in Nat
  BY DEF KeyInv, KeyTypeOK, WriteKey, Generating
<1>2. made + 1 \in DOMAIN fresh /\ path = fresh[made + 1].file
  BY <1>1 DEF NextPath
<1>3. path \in Paths
  <2>1. fresh[made + 1] \in Entries
    BY <1>1, <1>2
  <2> QED BY <1>2, <2>1 DEF Entries
<1>4. /\ path \notin DOMAIN files
      /\ files' = Stored(path, content)
      /\ lastKey' = lastKey + 1 /\ made' = made + 1
      /\ UNCHANGED <<config, ipc, base, fresh, stops, edits>>
  BY DEF WriteKey, MayWrite
<1>5. content \in KeyFile /\ content.key = lastKey + 1 /\ content.form = "plain"
  BY <1>1 DEF KeyFile
<1>6. /\ DOMAIN files' = DOMAIN files \cup {path}
      /\ files'[path] = content
      /\ \A p \in DOMAIN files : files'[p] = files[p]
  BY <1>4 DEF Stored
<1>7. /\ \A p : HasAddress(p) => HasAddress(p)'
      /\ HasAddress(path)'
      /\ \A p \in DOMAIN files : HasAddress(p)' => HasAddress(p)
  BY <1>5, <1>6 DEF HasAddress
<1>8. KeyTypeOK'
  BY <1>1, <1>3, <1>4, <1>5, StoredType DEF KeyInv, KeyTypeOK
<1>9. KeysNumbered' /\ KeysOwn'
  <2>1. \A p \in DOMAIN files : files[p].key \in Nat /\ files[p].key <= lastKey
    BY DEF KeyInv, KeyTypeOK, KeysNumbered, KeyFile
  <2>2. KeysNumbered'
    BY <1>1, <1>4, <1>5, <1>6, <2>1 DEF KeysNumbered
  <2>3. KeysOwn'
    <3> SUFFICES ASSUME NEW p \in DOMAIN files', NEW q \in DOMAIN files', p # q,
                        HasAddress(p)', HasAddress(q)'
                 PROVE  files'[p].key # files'[q].key
      BY DEF KeysOwn
    <3>1. CASE p \in DOMAIN files /\ q \in DOMAIN files
      BY <1>6, <1>7, <3>1 DEF KeyInv, KeysOwn
    <3>2. CASE p = path \/ q = path
      BY <1>1, <1>4, <1>5, <1>6, <2>1, <3>2
    <3> QED BY <1>6, <3>1, <3>2
  <2> QED BY <2>2, <2>3
<1>10. Holds(config.senders)' /\ Holds(base)'
  BY <1>1, <1>4, <1>7 DEF KeyInv, Holds
<1>11. FreshHeld'
  <2>1. \A k \in 1 .. made' : k \in 1 .. made \/ k = made + 1
    BY <1>1, <1>4
  <2>2. FreshHeld /\ Holds(base)
    BY <1>1 DEF KeyInv
  <2>3. \A k \in 1 .. made : fresh[k].file \in DOMAIN files /\ files[fresh[k].file].form # "broken"
    BY <2>2 DEF FreshHeld, HasAddress
  <2>4. \A i \in DOMAIN base : base[i].file # path
    BY <1>4, <2>2 DEF Holds, HasAddress
  <2>5. \A i \in DOMAIN base, k \in 1 .. made' : base[i].file # fresh[k].file
    BY <1>2, <2>1, <2>2, <2>4 DEF FreshHeld
  <2>6. fresh' = fresh /\ base' = base
    BY <1>4
  <2>7. \A k \in 1 .. made' : HasAddress(fresh[k].file)'
    BY <1>2, <1>5, <1>6, <2>1, <2>3, <2>6 DEF HasAddress
  <2> QED BY <2>2, <2>5, <2>6, <2>7 DEF FreshHeld
<1> QED BY <1>1, <1>4, <1>8, <1>9, <1>10, <1>11 DEF KeyInv

LEMMA KeyFileExistsKeyInv ==
  ASSUME KeyInv, KeyFileExists
  PROVE  KeyInv'
BY DEF KeyInv, KeyFileExists, Generating, KeyTypeOK, KeysNumbered, KeysOwn, Holds, HasAddress

LEMMA EmptyConfigKeyInv ==
  ASSUME KeyInv, EmptyConfig
  PROVE  KeyInv'
<1>1. /\ ipc = "keys" /\ made = Len(fresh) /\ ipc' = "save"
      /\ config' = ConfigOf(<<>>)
      /\ UNCHANGED <<files, base, fresh, made, lastKey, stops, edits>>
  BY DEF EmptyConfig, SavesNow
<1>2. KeyTypeOK'
  BY <1>1 DEF KeyInv, KeyTypeOK, ConfigOf
<1>3. KeysNumbered' /\ KeysOwn' /\ Holds(base)'
  BY <1>1 DEF KeyInv, KeysNumbered, KeysOwn, Holds, HasAddress
<1>4. FreshHeld'
  BY <1>1 DEF KeyInv, FreshHeld, HasAddress
<1>5. Holds(config.senders)'
  BY <1>1 DEF ConfigOf, Holds
<1> QED BY <1>1, <1>2, <1>3, <1>4, <1>5 DEF KeyInv

\* The configuration names the senders loaded and, after them, the new ones.
LEMMA WriteConfigKeyInv ==
  ASSUME KeyInv, WriteConfig
  PROVE  KeyInv'
<1> DEFINE all == base \o fresh
<1>1. /\ ipc = "save" /\ made = Len(fresh) /\ ipc' = "idle"
      /\ config' = ConfigOf(all)
      /\ UNCHANGED <<files, base, fresh, made, lastKey, stops, edits>>
      /\ base \in Seq(Entries) /\ fresh \in Seq(Entries)
  BY DEF WriteConfig, KeyInv, KeyTypeOK
<1>2. KeyTypeOK'
  BY <1>1 DEF KeyInv, KeyTypeOK, ConfigOf
<1>3. KeysNumbered' /\ KeysOwn'
  BY <1>1 DEF KeyInv, KeysNumbered, KeysOwn, HasAddress
<1>4. Holds(base) /\ FreshHeld
  BY <1>1 DEF KeyInv
<1>5. \A i \in DOMAIN all :
        \/ i \in DOMAIN base /\ all[i] = base[i]
        \/ i - Len(base) \in DOMAIN fresh /\ all[i] = fresh[i - Len(base)]
  BY <1>1
<1>6. \A i \in DOMAIN all : HasAddress(all[i].file)
  BY <1>1, <1>4, <1>5 DEF Holds, FreshHeld
<1>7. \A i, j \in DOMAIN all : i # j => all[i].file # all[j].file
  <2> SUFFICES ASSUME NEW i \in DOMAIN all, NEW j \in DOMAIN all, i # j
               PROVE  all[i].file # all[j].file
    OBVIOUS
  <2>1. CASE i \in DOMAIN base /\ all[i] = base[i]
    BY <1>1, <1>4, <1>5, <2>1 DEF Holds, FreshHeld
  <2>2. CASE i - Len(base) \in DOMAIN fresh /\ all[i] = fresh[i - Len(base)]
    <3>1. CASE j \in DOMAIN base /\ all[j] = base[j]
      BY <1>1, <1>4, <2>2, <3>1 DEF FreshHeld
    <3>2. CASE j - Len(base) \in DOMAIN fresh /\ all[j] = fresh[j - Len(base)]
      BY <1>1, <1>4, <2>2, <3>2 DEF FreshHeld
    <3> QED BY <1>5, <3>1, <3>2
  <2> QED BY <1>5, <2>1, <2>2
<1>8. Holds(config.senders)'
  <2>1. config'.senders = all /\ UNCHANGED files
    BY <1>1 DEF ConfigOf
  <2> HIDE DEF all
  <2> QED BY <2>1, <1>6, <1>7 DEF Holds, HasAddress
<1> QED BY <1>1, <1>2, <1>3, <1>8 DEF KeyInv

\* Stopped while it writes: at worst a new file that holds no key.
LEMMA StopKeyInv ==
  ASSUME KeyInv, Stop
  PROVE  KeyInv'
<1> SUFFICES ASSUME NEW path, path = NextPath,
                    NEW broken, broken = [key |-> 0, form |-> "broken"]
             PROVE  KeyInv'
  OBVIOUS
<1>1. /\ ipc' = "idle" /\ stops' \in 0 .. MaxStops
      /\ UNCHANGED <<config, base, fresh, made, lastKey, edits>>
  BY KeyFilesAssumption DEF Stop, KeyInv, KeyTypeOK
<1>2. CASE UNCHANGED files
  BY <1>1, <1>2 DEF KeyInv, KeyTypeOK, KeysNumbered, KeysOwn, Holds, HasAddress
<1>3. CASE Generating /\ MayWrite(path) /\ files' = Stored(path, broken)
  <2>1. made + 1 \in DOMAIN fresh /\ fresh \in Seq(Entries)
    BY <1>3 DEF KeyInv, KeyTypeOK, Generating
  <2>2. fresh[made + 1] \in Entries
    BY <2>1
  <2>3. path \in Paths /\ path \notin DOMAIN files
    BY <1>3, <2>2 DEF NextPath, Entries, MayWrite
  <2>4. broken \in KeyFile /\ broken.key = 0 /\ broken.form = "broken"
    BY DEF KeyFile
  <2>5. /\ DOMAIN files' = DOMAIN files \cup {path}
        /\ files'[path] = broken
        /\ \A p \in DOMAIN files : files'[p] = files[p]
    BY <1>3, <2>3 DEF Stored
  <2>6. \A p : HasAddress(p)' <=> HasAddress(p)
    BY <2>3, <2>4, <2>5 DEF HasAddress
  <2>7. KeyTypeOK'
    BY <1>1, <1>3, <2>3, <2>4, StoredType DEF KeyInv, KeyTypeOK
  <2>8. KeysNumbered'
    BY <1>1, <2>4, <2>5 DEF KeyInv, KeyTypeOK, KeysNumbered
  <2>9. KeysOwn'
    BY <2>5, <2>6 DEF KeyInv, KeysOwn, HasAddress
  <2>10. Holds(config.senders)'
    BY <1>1, <2>6 DEF KeyInv, Holds
  <2> QED BY <1>1, <2>7, <2>8, <2>9, <2>10 DEF KeyInv
<1> QED BY <1>2, <1>3 DEF Stop

LEMMA RemoveConfigKeyInv ==
  ASSUME KeyInv, RemoveConfig
  PROVE  KeyInv'
<1>1. /\ config' = NoConfig
      /\ edits' \in 0 .. MaxEdits
      /\ UNCHANGED <<files, ipc, base, fresh, made, lastKey, stops>>
  BY KeyFilesAssumption DEF RemoveConfig, Edit, initVars, KeyInv, KeyTypeOK
<1>2. KeyTypeOK'
  BY <1>1 DEF KeyInv, KeyTypeOK, NoConfig
<1>3. Holds(config.senders)'
  BY <1>1 DEF NoConfig, Holds
<1> QED BY <1>1, <1>2, <1>3 DEF KeyInv, KeysNumbered, KeysOwn, Holds, FreshHeld, HasAddress

\* What is left of the senders still has its keys, and they still differ.
LEMMA DropSenderKeyInv ==
  ASSUME KeyInv, NEW i \in 1 .. MaxSenders, DropSender(i)
  PROVE  KeyInv'
<1> DEFINE s == config.senders
           w == WithoutIndex(s, i)
<1>1. /\ config' = ConfigOf(w)
      /\ edits' \in 0 .. MaxEdits
      /\ UNCHANGED <<files, ipc, base, fresh, made, lastKey, stops>>
  BY KeyFilesAssumption DEF DropSender, Edit, initVars, KeyInv, KeyTypeOK
<1>2. s \in Seq(Entries) /\ i \in 1 .. Len(s) /\ Holds(s)
  BY DEF DropSender, KeyInv, KeyTypeOK
<1>3. /\ DOMAIN w = 1 .. (Len(s) - 1)
      /\ \A j \in DOMAIN w : w[j] = IF j < i THEN s[j] ELSE s[j + 1]
  BY DEF WithoutIndex
<1> HIDE DEF s
<1>4. \A j \in DOMAIN w : w[j] \in Entries /\ \E k \in DOMAIN s : w[j] = s[k]
  <2> SUFFICES ASSUME NEW j \in DOMAIN w
               PROVE  w[j] \in Entries /\ \E k \in DOMAIN s : w[j] = s[k]
    OBVIOUS
  <2>1. j \in DOMAIN s /\ j + 1 \in DOMAIN s
    BY <1>2, <1>3
  <2> QED BY <1>2, <1>3, <2>1
<1>5. w \in Seq(Entries)
  <2>1. Len(s) - 1 \in Nat
    BY <1>2
  <2>2. w = [j \in 1 .. (Len(s) - 1) |-> w[j]]
    BY <1>3 DEF WithoutIndex
  <2>3. w \in [1 .. (Len(s) - 1) -> Entries]
    BY <1>3, <1>4, <2>2
  <2> QED BY <2>1, <2>3
<1> HIDE DEF w
<1>6. KeyTypeOK'
  <2>1. config' \in [present : BOOLEAN, senders : Seq(Entries)]
    BY <1>1, <1>5 DEF ConfigOf
  <2>2. KeyTypeOK
    BY DEF KeyInv
  <2> QED BY <1>1, <2>1, <2>2 DEF KeyTypeOK
<1>7. \A j \in DOMAIN w : HasAddress(w[j].file)
  BY <1>2, <1>4 DEF Holds
<1>8. \A j, k \in DOMAIN w : j # k => w[j].file # w[k].file
  BY <1>2, <1>3 DEF Holds
<1>9. Holds(config.senders)'
  BY <1>1, <1>7, <1>8 DEF ConfigOf, Holds, HasAddress
<1> QED BY <1>1, <1>6, <1>9 DEF KeyInv, KeysNumbered, KeysOwn, Holds, FreshHeld, HasAddress

\* An encrypted key is still the key of its account.
LEMMA EncryptKeyKeyInv ==
  ASSUME KeyInv, NEW path \in DOMAIN files, EncryptKey(path)
  PROVE  KeyInv'
<1> SUFFICES ASSUME NEW content, content = [files[path] EXCEPT !.form = "encrypted"]
             PROVE  KeyInv'
  OBVIOUS
<1>1. /\ files[path] \in KeyFile /\ files[path].form = "plain"
      /\ files' = Stored(path, content)
      /\ edits' \in 0 .. MaxEdits
      /\ UNCHANGED <<config, ipc, base, fresh, made, lastKey, stops>>
  BY KeyFilesAssumption DEF EncryptKey, HasKey, Edit, initVars, KeyInv, KeyTypeOK
<1>2. content \in KeyFile /\ content.key = files[path].key /\ content.form = "encrypted"
  BY <1>1 DEF KeyFile
<1>3. /\ DOMAIN files' = DOMAIN files
      /\ files'[path] = content
      /\ \A p \in DOMAIN files : p # path => files'[p] = files[p]
  BY <1>1 DEF Stored
<1>4. /\ \A p : HasAddress(p)' <=> HasAddress(p)
      /\ \A p \in DOMAIN files : files'[p].key = files[p].key
  BY <1>1, <1>2, <1>3 DEF HasAddress
<1>5. KeyTypeOK'
  <2>1. path \in Paths
    BY DEF KeyInv, KeyTypeOK
  <2> QED BY <1>1, <1>2, <2>1, StoredType DEF KeyInv, KeyTypeOK
<1>6. KeysNumbered' /\ KeysOwn'
  BY <1>1, <1>3, <1>4 DEF KeyInv, KeysNumbered, KeysOwn
<1>7. Holds(config.senders)' /\ (ipc' # "idle" => Holds(base)')
  BY <1>1, <1>4 DEF KeyInv, Holds
<1>8. ipc' # "idle" => FreshHeld'
  <2> SUFFICES ASSUME ipc # "idle" PROVE FreshHeld'
    BY <1>1
  <2>1. FreshHeld
    BY DEF KeyInv
  <2>2. \A k \in 1 .. made : fresh[k].file \in DOMAIN files /\ files[fresh[k].file].form # "broken"
    BY <2>1 DEF FreshHeld, HasAddress
  <2>3. fresh' = fresh /\ made' = made
    BY <1>1
  <2>4. \A k \in 1 .. made' : HasAddress(fresh[k].file)'
    BY <1>2, <1>3, <2>2, <2>3 DEF HasAddress
  <2> QED BY <1>1, <2>1, <2>4 DEF FreshHeld
<1> QED BY <1>1, <1>5, <1>6, <1>7, <1>8 DEF KeyInv

LEMMA NextKeyInv ==
  ASSUME KeyInv, [KeyNext]_keyVars
  PROVE  KeyInv'
<1>1. ASSUME NEW n \in 1 .. MaxSenders, NEW dir \in Dirs, CreateNew(n, dir)
      PROVE  KeyInv'
  BY <1>1, CreateNewKeyInv
<1>2. ASSUME NEW n \in 1 .. MaxSenders, NEW dir \in Dirs, AddSenders(n, dir)
      PROVE  KeyInv'
  BY <1>2, AddSendersKeyInv
<1>3. CASE InitStep
  BY <1>3, WriteKeyKeyInv, KeyFileExistsKeyInv, EmptyConfigKeyInv, WriteConfigKeyInv,
     StopKeyInv DEF InitStep
<1>4. CASE User
  BY <1>4, RemoveConfigKeyInv, DropSenderKeyInv, EncryptKeyKeyInv DEF User
<1>5. CASE UNCHANGED keyVars
  BY <1>5 DEF keyVars, initVars, KeyInv, KeyTypeOK, KeysNumbered, KeysOwn, Holds,
     FreshHeld, HasAddress
<1> QED BY <1>1, <1>2, <1>3, <1>4, <1>5 DEF KeyNext, StartInit

\* Wherever init is stopped and whatever is edited, what the running command
\* has made, the files and the configuration belong together (runInitCmd).
THEOREM KeyInvariant == KeySpec => []KeyInv
<1>1. KeyInit => KeyInv
  BY InitKeyInv
<1>2. KeyInv /\ [KeyNext]_keyVars => KeyInv'
  BY NextKeyInv
<1> QED BY <1>1, <1>2, PTL DEF KeySpec

-----------------------------------------------------------------------------
LEMMA KeyInvImplies ==
  ASSUME KeyInv
  PROVE  KeyTypeOK /\ ConfigNamesKeys /\ AccountsDistinct
<1>1. KeyTypeOK /\ ConfigNamesKeys
  BY DEF KeyInv, Holds, ConfigNamesKeys
<1>2. AccountsDistinct
  BY DEF KeyInv, Holds, KeysOwn, HasAddress, AccountsDistinct
<1> QED BY <1>1, <1>2

LEMMA StepKeepsKeys ==
  ASSUME KeyInv, [KeyNext]_keyVars, NEW p \in DOMAIN files, HasAddress(p)
  PROVE  HasAddress(p)' /\ files'[p].key = files[p].key
<1>1. ASSUME NEW path, NEW content, files' = Stored(path, content),
             path \notin DOMAIN files
      PROVE  HasAddress(p)' /\ files'[p].key = files[p].key
  BY <1>1 DEF Stored, HasAddress
<1>2. CASE files' = files
  BY <1>2 DEF HasAddress
<1>3. CASE WriteKey
  BY <1>1, <1>3 DEF WriteKey, MayWrite
<1>4. CASE Stop
  BY <1>1, <1>2, <1>4 DEF Stop, MayWrite
<1>5. ASSUME NEW path \in DOMAIN files, EncryptKey(path)
      PROVE  HasAddress(p)' /\ files'[p].key = files[p].key
  <2>1. files[path] \in KeyFile
    BY DEF KeyInv, KeyTypeOK
  <2>2. files' = Stored(path, [files[path] EXCEPT !.form = "encrypted"])
    BY <1>5 DEF EncryptKey
  <2> QED BY <2>1, <2>2 DEF Stored, HasAddress, KeyFile
<1> QED BY <1>2, <1>3, <1>4, <1>5 DEF KeyNext, StartInit, CreateNew, AddSenders, Begin,
        InitStep, KeyFileExists, EmptyConfig, WriteConfig, User, RemoveConfig, DropSender,
        keyVars, initVars

\* Wherever init is stopped and whatever the user edits, the configuration
\* names only senders whose key is on disk (runCreateNew, runAddSenders).
THEOREM ConfigAlwaysNamesKeys == KeySpec => []ConfigNamesKeys
<1>1. KeyInv => ConfigNamesKeys
  BY KeyInvImplies
<1> QED BY <1>1, KeyInvariant, PTL

\* No two senders of a configuration ever share an account, however often
\* senders are dropped and added (the check in generateKeys).
THEOREM AccountsAlwaysDistinct == KeySpec => []AccountsDistinct
<1>1. KeyInv => AccountsDistinct
  BY KeyInvImplies
<1> QED BY <1>1, KeyInvariant, PTL

\* No step overwrites a key that was saved (generateKeys).
THEOREM KeysAreNeverLost == KeySpec => KeysNeverLost
<1>1. KeyInv /\ [KeyNext]_keyVars =>
        [\A p \in DOMAIN files :
           HasAddress(p) => HasAddress(p)' /\ files'[p].key = files[p].key]_keyVars
  BY StepKeepsKeys
<1> QED BY <1>1, KeyInvariant, PTL DEF KeySpec, KeysNeverLost

-----------------------------------------------------------------------------
(* A session is an installation to which nothing else is done. *)

\* Every step of a session is a step of its installation, or none.
LEMMA SessionStep == [Next]_vars => [KeyNext]_keyVars
BY DEF Next, Command, KeyNext, vars

LEMMA SessionInstallation == Spec => KeySpec
<1>1. Init => KeyInit
  BY DEF Init
<1> QED BY <1>1, SessionStep, PTL DEF Spec, KeySpec

-----------------------------------------------------------------------------
Reachable(account) ==
  \E path \in DOMAIN files : HasAddress(path) /\ files[path].key = account

InFlight == utxo \cup UNION {tx.outs : tx \in pool}

ReachInv ==
  /\ \A c \in InFlight : c.owner # Wallet => Reachable(c.owner)
  /\ targets \in Seq(Nat) /\ \A k \in DOMAIN targets : Reachable(targets[k])
  /\ batchStart \in Nat
  /\ \A tx \in sweep : \A c \in tx.outs : c.owner = Wallet

LEMMA InitReachInv == Init => ReachInv
BY DEF Init, AccountsInit, WalletAtStart, FundInit, WithdrawInit, ReachInv, InFlight, Coin

\* A key that is there stays there.
LEMMA ReachableStays ==
  ASSUME KeyInv, [Next]_vars, NEW account, Reachable(account)
  PROVE  Reachable(account)'
<1>1. PICK path \in DOMAIN files : HasAddress(path) /\ files[path].key = account
  BY DEF Reachable
<1>2. HasAddress(path)' /\ files'[path].key = files[path].key
  BY <1>1, SessionStep, StepKeepsKeys
<1> QED BY <1>1, <1>2 DEF Reachable, HasAddress

\* What a step does to the state ReachInv is about, apart from the files.
LEMMA StartFundReach ==
  ASSUME KeyInv, ReachInv, NEW names, NEW a, StartFund(names, a), UNCHANGED keyVars
  PROVE  /\ targets' \in Seq(Nat) /\ \A k \in DOMAIN targets' : Reachable(targets'[k])
         /\ batchStart' \in Nat
         /\ UNCHANGED <<utxo, pool>>
<1> DEFINE chosen == Chosen(names)
<1>1. /\ \A i \in DOMAIN chosen : HasAddress(chosen[i].file)
      /\ targets' = [i \in DOMAIN chosen |-> files[chosen[i].file].key]
      /\ batchStart' = 0 /\ UNCHANGED <<utxo, pool>>
  BY DEF StartFund, accountVars
<1>2. \E n \in Nat : DOMAIN chosen = 1 .. n
  <2>1. config.senders \in Seq(Entries)
    BY DEF KeyInv, KeyTypeOK
  <2>2. CASE names = {}
    BY <2>1, <2>2 DEF Chosen
  <2>3. CASE names # {}
    <3> DEFINE all == config.senders
               first == {i \in DOMAIN all : /\ all[i].name \in names
                                            /\ \A j \in 1 .. (i - 1) : all[j].name # all[i].name}
    <3>1. IsFiniteSet(DOMAIN all)
      BY <2>1, FS_Interval
    <3>2. IsFiniteSet(first)
      BY <3>1, FS_Subset
    <3>3. Cardinality(first) \in Nat
      BY <3>2, FS_CardinalityType
    <3>4. DOMAIN chosen = 1 .. Cardinality(first)
      BY <2>3 DEF Chosen, FilterSenders
    <3> QED BY <3>3, <3>4
  <2> QED BY <2>2, <2>3
<1> HIDE DEF chosen
<1>3. \A i \in DOMAIN chosen :
        chosen[i].file \in DOMAIN files /\ files[chosen[i].file].key \in Nat
  BY <1>1 DEF HasAddress, KeyInv, KeyTypeOK, KeyFile
<1>4. targets' \in Seq(Nat)
  BY <1>1, <1>2, <1>3
<1>5. \A k \in DOMAIN targets' : Reachable(targets'[k])
  BY <1>1, <1>3 DEF Reachable
<1> QED BY <1>1, <1>4, <1>5

\* What ReachInv says, of the state after a step, with the files from before.
ReachStep ==
  /\ \A c \in InFlight' : c \in InFlight \/ c.owner = Wallet \/ Reachable(c.owner)
  /\ targets' \in Seq(Nat) /\ \A k \in DOMAIN targets' : Reachable(targets'[k])
  /\ batchStart' \in Nat
  /\ \A tx \in sweep' : \A c \in tx.outs : c.owner = Wallet

\* A funding transaction pays its targets and the wallet.
LEMMA FundTxReach ==
  ASSUME ReachInv
  PROVE  \A c \in FundTx.outs : c.owner = Wallet \/ Reachable(c.owner)
<1>1. \A k \in (batchStart + 1) .. BatchEnd : k \in DOMAIN targets
  BY FundAssumption DEF ReachInv, BatchEnd
<1>2. ASSUME NEW k \in (batchStart + 1) .. BatchEnd,
             NEW c, c = Coin(nTx + 1, k, targets[k], amount)
      PROVE  Reachable(c.owner)
  <2>1. c.owner = targets[k] BY <1>2 DEF Coin
  <2> QED BY <1>1, <2>1 DEF ReachInv
<1>3. \A c \in Remainder(nTx + 1) : c.owner = Wallet
  BY DEF Remainder, Coin
<1> QED BY <1>2, <1>3 DEF FundTx

LEMMA SettleReach == ASSUME ReachInv, Settle PROVE InFlight' \subseteq InFlight
BY DEF Settle, InFlight

LEMMA FundReach == ASSUME ReachInv, FundStep PROVE
  /\ \A c \in InFlight' : c \in InFlight \/ c.owner = Wallet \/ Reachable(c.owner)
  /\ UNCHANGED targets /\ batchStart' \in Nat
<1> USE DEF ReachInv
<1>1. CASE QueryWallet
  BY <1>1 DEF QueryWallet, accountVars, InFlight
<1>2. CASE NotEnough
  BY <1>2 DEF NotEnough, End, accountVars, InFlight
<1>3. CASE QueryFails
  BY <1>3 DEF QueryFails, End, InFlight
<1>4. CASE SubmitFund
  <2>1. Deliver(FundTx) /\ UNCHANGED <<targets, batchStart>>
    BY <1>4 DEF SubmitFund
  <2>2. InFlight' = InFlight \cup FundTx.outs
    BY <2>1 DEF Deliver, InFlight
  <2> QED BY <2>1, <2>2, FundTxReach
<1>5. CASE FundRejected
  BY <1>5 DEF FundRejected, End, accountVars, InFlight
<1>6. CASE SubmitFundFails
  <2>1. UNCHANGED <<targets, batchStart>>
    BY <1>6 DEF SubmitFundFails
  <2>2. CASE UNCHANGED <<utxo, pool>>
    BY <2>1, <2>2 DEF InFlight
  <2>3. CASE Deliver(FundTx)
    <3>1. InFlight' = InFlight \cup FundTx.outs
      BY <2>3 DEF Deliver, InFlight
    <3> QED BY <2>1, <3>1, FundTxReach
  <2> QED BY <1>6, <2>2, <2>3 DEF SubmitFundFails
<1>7. CASE TrackIncluded
  BY <1>7, FundAssumption DEF TrackIncluded, NextStart, accountVars, InFlight
<1>8. CASE NotIncluded
  BY <1>8 DEF NotIncluded, End, accountVars, InFlight
<1> QED BY <1>1, <1>2, <1>3, <1>4, <1>5, <1>6, <1>7, <1>8 DEF FundStep

LEMMA WithdrawReach == ASSUME ReachInv, WithdrawStep PROVE
  /\ \A c \in InFlight' : c \in InFlight \/ c.owner = Wallet
  /\ \A tx \in sweep' : \A c \in tx.outs : c.owner = Wallet
<1> USE DEF ReachInv
<1>1. CASE FetchFails
  BY <1>1 DEF FetchFails, NextSender, InFlight
<1>2. CASE SkipSender
  BY <1>2 DEF SkipSender, NextSender, accountVars, InFlight
<1>3. CASE NoKey
  BY <1>3 DEF NoKey, NextSender, accountVars, InFlight
<1>4. CASE BuildSweep
  <2>1. UNCHANGED InFlight
    BY <1>4 DEF BuildSweep, accountVars, InFlight
  <2>2. \E S : sweep' = {Sweep(S)}
    BY <1>4 DEF BuildSweep
  <2>3. \A S : \A c \in Sweep(S).outs : c.owner = Wallet
    BY DEF Sweep, Coin
  <2> QED BY <2>1, <2>2, <2>3
<1>5. CASE SubmitSweep
  <2>1. PICK tx \in sweep : Deliver(tx)
    BY <1>5 DEF SubmitSweep
  <2>2. InFlight' = InFlight \cup tx.outs
    BY <2>1 DEF Deliver, InFlight
  <2> QED BY <1>5, <2>2 DEF SubmitSweep, NextSender
<1>6. CASE SubmitSweepFails
  <2>1. sweep' = {}
    BY <1>6 DEF SubmitSweepFails, NextSender
  <2>2. CASE UNCHANGED <<utxo, pool>>
    BY <2>1, <2>2 DEF InFlight
  <2>3. CASE \E tx \in sweep : Deliver(tx)
    <3>1. PICK tx \in sweep : Deliver(tx)
      BY <2>3
    <3>2. InFlight' = InFlight \cup tx.outs
      BY <3>1 DEF Deliver, InFlight
    <3> QED BY <2>1, <3>2
  <2> QED BY <1>6, <2>2, <2>3 DEF SubmitSweepFails
<1>7. CASE EndWithdraw
  BY <1>7 DEF EndWithdraw, accountVars, InFlight
<1> QED BY <1>1, <1>2, <1>3, <1>4, <1>5, <1>6, <1>7 DEF WithdrawStep

LEMMA StepReach == ASSUME KeyInv, ReachInv, [Next]_vars PROVE ReachStep
<1>1. CASE Command
  <2>1. CASE StartInit /\ UNCHANGED <<accountVars, fundVars, withdrawVars>>
    BY <2>1 DEF accountVars, fundVars, withdrawVars, ReachInv, ReachStep, InFlight
  <2>2. CASE \E names \in NameSets, a \in Amounts :
               StartFund(names, a) /\ UNCHANGED <<keyVars, withdrawVars>>
    <3>1. PICK names \in NameSets, a \in Amounts :
            StartFund(names, a) /\ UNCHANGED <<keyVars, withdrawVars>>
      BY <2>2
    <3>2. UNCHANGED <<utxo, pool, sweep>>
      BY <3>1 DEF StartFund, accountVars, withdrawVars
    <3>3. /\ targets' \in Seq(Nat) /\ \A k \in DOMAIN targets' : Reachable(targets'[k])
          /\ batchStart' \in Nat
      BY <3>1, StartFundReach
    <3> QED BY <3>2, <3>3 DEF ReachInv, ReachStep, InFlight
  <2>3. CASE \E names \in NameSets : StartWithdraw(names) /\ UNCHANGED <<keyVars, fundVars>>
    BY <2>3 DEF StartWithdraw, accountVars, fundVars, ReachInv, ReachStep, InFlight
  <2> QED BY <1>1, <2>1, <2>2, <2>3 DEF Command
<1>2. CASE InitStep /\ UNCHANGED <<accountVars, fundVars, withdrawVars, commands>>
  BY <1>2 DEF accountVars, fundVars, withdrawVars, ReachInv, ReachStep, InFlight
<1>3. CASE FundStep /\ UNCHANGED <<keyVars, withdrawVars, commands>>
  BY <1>3, FundReach DEF withdrawVars, ReachInv, ReachStep
<1>4. CASE WithdrawStep /\ UNCHANGED <<keyVars, fundVars, commands>>
  BY <1>4, WithdrawReach DEF fundVars, ReachInv, ReachStep
<1>5. CASE User /\ UNCHANGED <<accountVars, fundVars, withdrawVars, commands>>
  BY <1>5 DEF accountVars, fundVars, withdrawVars, ReachInv, ReachStep, InFlight
<1>6. CASE Settle /\ UNCHANGED <<keyVars, fundVars, withdrawVars, commands>>
  BY <1>6, SettleReach DEF fundVars, withdrawVars, ReachInv, ReachStep
<1>7. CASE UNCHANGED vars
  BY <1>7 DEF vars, accountVars, fundVars, withdrawVars, ReachInv, ReachStep, InFlight
<1> QED BY <1>1, <1>2, <1>3, <1>4, <1>5, <1>6, <1>7 DEF Next

LEMMA NextReachInv == ASSUME KeyInv, ReachInv, [Next]_vars PROVE ReachInv'
<1>1. ReachStep
  BY StepReach
<1>2. ASSUME NEW c \in InFlight', c.owner # Wallet
      PROVE  Reachable(c.owner)'
  <2>1. Reachable(c.owner)
    BY <1>1, <1>2 DEF ReachStep, ReachInv
  <2> QED BY <2>1, ReachableStays
<1>3. ASSUME NEW k \in DOMAIN targets'
      PROVE  Reachable(targets[k])'
  <2>1. SUFFICES ASSUME NEW account, account = targets'[k]
                 PROVE  Reachable(account)'
    BY DEF Reachable
  <2>2. Reachable(account)
    BY <1>1, <1>3, <2>1 DEF ReachStep
  <2> QED BY <2>2, ReachableStays
<1>4. \A c \in InFlight' : c.owner # Wallet => Reachable(c.owner)'
  BY <1>2
<1> QED BY <1>1, <1>3, <1>4 DEF ReachInv, ReachStep

-----------------------------------------------------------------------------
LEMMA SessionKeyInv == Spec => []KeyInv
BY SessionInstallation, KeyInvariant, PTL

LEMMA AlwaysReach == Spec => []ReachInv
<1>1. KeyInv /\ ReachInv /\ [Next]_vars => ReachInv'
  BY NextReachInv
<1> QED BY InitReachInv, SessionKeyInv, <1>1, PTL DEF Spec

\* No token is ever paid to, or under way to, an account whose key is not on
\* disk: fund pays only what SenderAddress read, withdraw only the wallet, and
\* neither a stop nor an edit nor a later init loses a key.
THEOREM FundsAlwaysReachable == Spec => []FundsReachable
<1>1. ReachInv => FundsReachable
  BY DEF ReachInv, Reachable, InFlight, FundsReachable
<1> QED BY <1>1, AlwaysReach, PTL

\* Through a whole session, every sender of multispam.yaml has its key.
THEOREM SessionNamesKeys == Spec => []ConfigNamesKeys
BY SessionInstallation, ConfigAlwaysNamesKeys, PTL

\* Through a whole session, no two senders of multispam.yaml share an account.
THEOREM SessionAccountsDistinct == Spec => []AccountsDistinct
BY SessionInstallation, AccountsAlwaysDistinct, PTL

\* No step of a session overwrites a key that was saved.
THEOREM SessionKeysAreNeverLost == Spec => KeysNeverLost
BY SessionInstallation, KeysAreNeverLost, PTL
-----------------------------------------------------------------------------
(* The senders a command serves. *)

\* The first sender of each name, as filterSenders finds them.
FirstOf(all, names) ==
  {i \in DOMAIN all : /\ all[i].name \in names
                      /\ \A j \in 1 .. (i - 1) : all[j].name # all[i].name}

Rank(S, i) == Cardinality({j \in S : j <= i})

\* Ranks in a finite set of integers are a bijection.
LEMMA RankBijection ==
  ASSUME NEW S \in SUBSET Int, IsFiniteSet(S)
  PROVE  /\ Cardinality(S) \in Nat
         /\ \A k \in 1 .. Cardinality(S) : \E i \in S : Rank(S, i) = k
<1> DEFINE n == Cardinality(S)
           f == [i \in S |-> Rank(S, i)]
<1>1. n \in Nat
  BY FS_CardinalityType
<1>2. ASSUME NEW i \in S
      PROVE  /\ IsFiniteSet({j \in S : j <= i})
             /\ Rank(S, i) \in 1 .. n
  <2>1. /\ IsFiniteSet({j \in S : j <= i})
        /\ Cardinality({j \in S : j <= i}) <= n
    BY FS_Subset
  <2>2. Cardinality({j \in S : j <= i}) \in Nat
    BY <2>1, FS_CardinalityType
  <2>3. Cardinality({j \in S : j <= i}) # 0
    BY <2>1, FS_EmptySet
  <2> QED BY <1>1, <2>1, <2>2, <2>3 DEF Rank
<1>3. ASSUME NEW i \in S, NEW j \in S, i < j
      PROVE  Rank(S, i) # Rank(S, j)
  <2> DEFINE A == {k \in S : k <= i}
             B == {k \in S : k <= j}
  <2>1. A \in SUBSET B
    <3>1. \A k \in S : k <= i => k <= j
      BY <1>3
    <3> QED BY <3>1
  <2>2. j \in B /\ j \notin A
    BY <1>3
  <2>3. IsFiniteSet(B)
    BY <1>2
  <2>4. Rank(S, i) = Cardinality(A) /\ Rank(S, j) = Cardinality(B)
    BY DEF Rank
  <2> HIDE DEF A, B
  <2>5. Cardinality(B) # Cardinality(A)
    BY <2>1, <2>2, <2>3, FS_Subset
  <2> QED BY <2>4, <2>5
<1>4. f \in Injection(S, 1 .. n)
  <2>1. f \in [S -> 1 .. n]
    BY <1>2
  <2>2. \A i, j \in S : f[i] = f[j] => i = j
    <3>1. ASSUME NEW i \in S, NEW j \in S, i # j PROVE f[i] # f[j]
      <4>1. i < j \/ j < i
        BY <3>1
      <4> QED BY <1>3, <4>1
    <3> QED BY <3>1
  <2> QED BY <2>1, <2>2 DEF Injection, IsInjective
<1>5. IsFiniteSet(1 .. n) /\ Cardinality(1 .. n) = n
  BY <1>1, FS_Interval
<1>6. f \in Surjection(S, 1 .. n)
  BY <1>4, <1>5, FS_Injection
<1>7. \A k \in 1 .. n : \E i \in S : f[i] = k
  BY <1>6 DEF Surjection
<1> QED BY <1>1, <1>7

\* A command serves senders of the configuration, each of them once.
Serves(s) ==
  \E n \in Nat : \E f \in [1 .. n -> DOMAIN config.senders] :
    /\ s = [k \in 1 .. n |-> config.senders[f[k]]]
    /\ \A j, k \in 1 .. n : j # k => f[j] # f[k]

LEMMA ChosenServes ==
  ASSUME KeyInv, NEW names
  PROVE  Serves(Chosen(names))
<1> DEFINE all == config.senders
           S == FirstOf(all, names)
           n == Cardinality(S)
<1>0. all \in Seq(Entries)
  BY DEF KeyInv, KeyTypeOK
<1>1. CASE names = {}
  <2> DEFINE f == [k \in 1 .. Len(all) |-> k]
  <2>1. Len(all) \in Nat /\ DOMAIN all = 1 .. Len(all)
        /\ all = [k \in 1 .. Len(all) |-> all[k]]
    BY <1>0
  <2>2. f \in [1 .. Len(all) -> DOMAIN all]
    BY <2>1
  <2>3. all = [k \in 1 .. Len(all) |-> all[f[k]]]
    BY <2>1
  <2>4. \A j, k \in 1 .. Len(all) : j # k => f[j] # f[k]
    OBVIOUS
  <2>5. Chosen(names) = all
    BY <1>1 DEF Chosen
  <2> HIDE DEF f, all
  <2>6. \E g \in [1 .. Len(all) -> DOMAIN all] :
          /\ all = [k \in 1 .. Len(all) |-> all[g[k]]]
          /\ \A j, k \in 1 .. Len(all) : j # k => g[j] # g[k]
    BY <2>2, <2>3, <2>4
  <2>7. \E m \in Nat : \E g \in [1 .. m -> DOMAIN all] :
          /\ all = [k \in 1 .. m |-> all[g[k]]]
          /\ \A j, k \in 1 .. m : j # k => g[j] # g[k]
    <3>1. Len(all) \in Nat
      BY <2>1
    <3> QED BY <2>6, <3>1
  <2>8. Serves(config.senders)
    BY ONLY <2>7 DEF Serves, all
  <2> QED BY <2>5, <2>8 DEF all
<1>2. CASE names # {}
  <2> DEFINE pick(k) == CHOOSE i \in S : Rank(S, i) = k
             f == [k \in 1 .. n |-> pick(k)]
  <2>1. S \in SUBSET Int /\ IsFiniteSet(S) /\ S \subseteq DOMAIN all
    <3>1. DOMAIN all = 1 .. Len(all) /\ Len(all) \in Nat
      BY <1>0
    <3>2. IsFiniteSet(DOMAIN all)
      BY <3>1, FS_Interval
    <3>3. S \in SUBSET DOMAIN all
      BY DEF FirstOf
    <3> HIDE DEF S
    <3> QED BY <3>1, <3>2, <3>3, FS_Subset
  <2>2. Chosen(names) = [k \in 1 .. n |-> all[pick(k)]]
    BY <1>2 DEF Chosen, FilterSenders, FirstOf, Rank
  <2> HIDE DEF S
  <2>3. n \in Nat /\ \A k \in 1 .. n : \E i \in S : Rank(S, i) = k
    BY <2>1, RankBijection
  <2>4. \A k \in 1 .. n : pick(k) \in S /\ Rank(S, pick(k)) = k
    BY <2>3
  <2>5. f \in [1 .. n -> DOMAIN all]
    BY <2>1, <2>4
  <2>6. \A j, k \in 1 .. n : j # k => f[j] # f[k]
    BY <2>4
  <2>7. Chosen(names) = [k \in 1 .. n |-> all[f[k]]]
    BY <2>2
  <2> HIDE DEF f, n
  <2> QED BY <2>3, <2>5, <2>6, <2>7 DEF Serves
<1> QED BY <1>1, <1>2

-----------------------------------------------------------------------------
(* Transactions and the outputs they take out of the ledger. *)

\* The output exists, or did: the transaction that produced it is included.
Existed(c) == c.tx = 0 \/ c.tx \in settled

WellFormed(tx) ==
  /\ \A c \in tx.ins : Existed(c)
  /\ \A c \in tx.outs : c.tx = tx.id

LedgerInv ==
  /\ nTx \in Nat /\ settled \subseteq 1 .. nTx
  /\ \A c \in utxo : Existed(c)
  /\ \A tx \in pool : tx.id \in 1 .. nTx /\ tx.id \notin settled /\ WellFormed(tx)
  /\ \A t, u \in pool : t.id = u.id => t = u

\* Each of T waits to be included, or has taken its inputs for good.
Sent(T) ==
  \A t \in T :
    /\ t.id \in 1 .. nTx
    /\ WellFormed(t)
    /\ t \in pool \/ (t.id \in settled /\ t.ins \cap utxo = {})

SentAfter(T) ==
  \A t \in T :
    /\ t.id \in 1 .. nTx'
    /\ WellFormed(t)'
    /\ t \in pool' \/ (t.id \in settled' /\ t.ins \cap utxo' = {})

\* What every step does to the ledger and to what was sent before.
Carried ==
  /\ LedgerInv'
  /\ settled \subseteq settled'
  /\ \A T : Sent(T) => SentAfter(T)

LEMMA SameCarried ==
  ASSUME LedgerInv, UNCHANGED <<utxo, pool, settled, nTx>>
  PROVE  Carried
BY DEF Carried, LedgerInv, Sent, SentAfter, WellFormed, Existed

LEMMA DeliverCarried ==
  ASSUME LedgerInv, NEW tx, tx.id = nTx + 1, WellFormed(tx), Deliver(tx)
  PROVE  Carried /\ SentAfter({tx})
<1>1. /\ pool' = pool \cup {tx} /\ nTx' = nTx + 1 /\ UNCHANGED <<utxo, settled>>
      /\ nTx \in Nat
  BY DEF Deliver, LedgerInv
<1>2. \A t : WellFormed(t)' = WellFormed(t)
  BY <1>1 DEF WellFormed, Existed
<1>3. 1 .. nTx \subseteq 1 .. nTx' /\ tx.id \in 1 .. nTx' /\ tx.id \notin 1 .. nTx
  BY <1>1
<1>4. LedgerInv'
  <2>1. nTx' \in Nat /\ settled' \subseteq 1 .. nTx' /\ \A c \in utxo' : Existed(c)'
    BY <1>1, <1>3 DEF LedgerInv, Existed
  <2>2. \A t \in pool' : t.id \in 1 .. nTx' /\ t.id \notin settled' /\ WellFormed(t)'
    BY <1>1, <1>2, <1>3 DEF LedgerInv
  <2>3. \A t, u \in pool' : t.id = u.id => t = u
    BY <1>1, <1>3 DEF LedgerInv
  <2> QED BY <2>1, <2>2, <2>3 DEF LedgerInv
<1>5. \A T : Sent(T) => SentAfter(T)
  BY <1>1, <1>2, <1>3 DEF Sent, SentAfter
<1>6. SentAfter({tx})
  BY <1>1, <1>2, <1>3 DEF SentAfter
<1> QED BY <1>1, <1>4, <1>5, <1>6 DEF Carried

\* Nothing an included transaction produces was ever an input before.
LEMMA SettleCarried == ASSUME LedgerInv, Settle PROVE Carried /\ nTx' = nTx
<1>1. PICK tx \in pool :
        /\ utxo' = (utxo \ tx.ins) \cup tx.outs
        /\ pool' = pool \ {tx}
        /\ settled' = settled \cup {tx.id}
        /\ nTx' = nTx
  BY DEF Settle
<1>2. /\ tx.id \in 1 .. nTx /\ tx.id \notin settled /\ WellFormed(tx)
      /\ nTx \in Nat /\ tx.id # 0
  BY DEF LedgerInv
<1>3. \A c : Existed(c) => Existed(c)' /\ c.tx # tx.id
  BY <1>1, <1>2 DEF Existed
<1>4. \A c \in tx.outs : c.tx = tx.id /\ Existed(c)'
  BY <1>1, <1>2 DEF WellFormed, Existed
<1>5. \A t : WellFormed(t) => WellFormed(t)' /\ t.ins \cap tx.outs = {}
  BY <1>3, <1>4 DEF WellFormed
<1>6. LedgerInv'
  <2>1. nTx' \in Nat /\ settled' \subseteq 1 .. nTx'
    BY <1>1, <1>2 DEF LedgerInv
  <2>2. \A c \in utxo' : Existed(c)'
    BY <1>1, <1>3, <1>4 DEF LedgerInv
  <2>3. \A t \in pool' : t.id \in 1 .. nTx' /\ t.id \notin settled' /\ WellFormed(t)'
    BY <1>1, <1>5 DEF LedgerInv
  <2>4. \A t, u \in pool' : t.id = u.id => t = u
    BY <1>1 DEF LedgerInv
  <2> QED BY <2>1, <2>2, <2>3, <2>4 DEF LedgerInv
<1>7. ASSUME NEW T, Sent(T)
      PROVE  SentAfter(T)
  <2>1. SUFFICES ASSUME NEW t \in T
                 PROVE  /\ t.id \in 1 .. nTx' /\ WellFormed(t)'
                        /\ t \in pool' \/ (t.id \in settled' /\ t.ins \cap utxo' = {})
    BY DEF SentAfter
  <2>2. /\ t.id \in 1 .. nTx /\ WellFormed(t)
        /\ t \in pool \/ (t.id \in settled /\ t.ins \cap utxo = {})
    BY <1>7 DEF Sent
  <2>3. CASE t = tx
    BY <1>1, <1>5, <2>2, <2>3
  <2>4. CASE t # tx /\ t \in pool
    BY <1>1, <1>5, <2>2, <2>4
  <2>5. CASE t.id \in settled /\ t.ins \cap utxo = {}
    BY <1>1, <1>5, <2>2, <2>5
  <2> QED BY <2>2, <2>3, <2>4, <2>5
<1> QED BY <1>1, <1>6, <1>7 DEF Carried

-----------------------------------------------------------------------------
(* Fund: one batch after the other. *)

\* Fund and withdraw take turns, and a sweep is built just before it is sent.
Turns ==
  /\ ~(fpc # "idle" /\ wpc # "idle")
  /\ sweep # {} => wpc = "submit"
  /\ \A tx \in sweep : tx.id = nTx + 1 /\ WellFormed(tx)

\* While fund goes on, what it sent is included, but for the batch it waits
\* for; so the outputs it finds are outputs none of its batches consumes.
BatchInv ==
  /\ Sent(payments)
  /\ fpc \in {"query", "submit"} => \A t \in payments : t.id \in settled
  /\ fpc = "track" => \A t \in payments : t.id \in settled \/ t.id = nTx
  /\ fpc = "submit" => \A c \in coins : Existed(c)
  /\ fpc = "submit" => \A t \in payments : t.ins \cap coins = {}
  /\ BatchesDisjoint

FlowInv == LedgerInv /\ Turns /\ BatchInv

LEMMA FundTxWellFormed ==
  ASSUME FlowInv, fpc = "submit"
  PROVE  FundTx.id = nTx + 1 /\ FundTx.ins = coins /\ WellFormed(FundTx)
<1>1. FundTx.id = nTx + 1 /\ FundTx.ins = coins
  BY DEF FundTx
<1>2. \A c \in Remainder(nTx + 1) : c.tx = nTx + 1
  BY DEF Remainder, Coin
<1>3. \A c \in FundTx.outs : c.tx = nTx + 1
  BY <1>2 DEF FundTx, Coin
<1> QED BY <1>1, <1>3 DEF WellFormed, FlowInv, BatchInv

\* A step that sends no payment keeps what is known of them.
LEMMA PaymentsKept ==
  ASSUME FlowInv, Carried, UNCHANGED payments
  PROVE  Sent(payments)' /\ BatchesDisjoint'
<1>1. SentAfter(payments)
  BY DEF FlowInv, BatchInv, Carried
<1> QED BY <1>1 DEF SentAfter, Sent, BatchesDisjoint, FlowInv, BatchInv

\* A payment consumes nothing an earlier one does.
LEMMA PaymentAdded ==
  ASSUME FlowInv, fpc = "submit", Deliver(FundTx), payments' = payments \cup {FundTx}
  PROVE  /\ Carried
         /\ Sent(payments)' /\ BatchesDisjoint'
         /\ \A t \in payments' : t.id \in settled' \/ t.id = nTx'
<1>1. FundTx.id = nTx + 1 /\ FundTx.ins = coins /\ WellFormed(FundTx) /\ LedgerInv
  BY FundTxWellFormed DEF FlowInv
<1>2. SUFFICES ASSUME NEW tx, tx = FundTx
               PROVE  /\ Carried
                      /\ Sent(payments)' /\ BatchesDisjoint'
                      /\ \A t \in payments' : t.id \in settled' \/ t.id = nTx'
  OBVIOUS
<1>3. Carried /\ SentAfter({tx}) /\ nTx' = tx.id
  BY <1>1, <1>2, DeliverCarried DEF Deliver
<1>4. SentAfter(payments) /\ payments' = payments \cup {tx}
  BY <1>2, <1>3 DEF FlowInv, BatchInv, Carried
<1>5. Sent(payments)'
  BY <1>3, <1>4 DEF Sent, SentAfter
<1>6. BatchesDisjoint'
  BY <1>1, <1>2, <1>4 DEF FlowInv, BatchInv, BatchesDisjoint
<1>7. \A t \in payments' : t.id \in settled' \/ t.id = nTx'
  BY <1>3, <1>4 DEF FlowInv, BatchInv, Carried
<1> QED BY <1>3, <1>5, <1>6, <1>7

LEMMA FundStepFlow ==
  ASSUME FlowInv, FundStep, UNCHANGED withdrawVars
  PROVE  FlowInv'
<1>1. wpc = "idle" /\ wpc' = "idle" /\ sweep = {} /\ sweep' = {}
  BY DEF FundStep, QueryWallet, NotEnough, QueryFails, SubmitFund, FundRejected,
         SubmitFundFails, TrackIncluded, NotIncluded, withdrawVars, FlowInv, Turns
<1>2. Turns'
  BY <1>1 DEF Turns
<1>3. SUFFICES Carried /\ BatchInv'
  BY <1>2 DEF Carried, FlowInv
<1>4. ASSUME UNCHANGED <<utxo, pool, settled, nTx>>
      PROVE  Carried
  BY <1>4, SameCarried DEF FlowInv
<1>5. CASE QueryWallet
  <2>1. /\ fpc = "query" /\ fpc' = "submit" /\ UNCHANGED <<payments, accountVars>>
        /\ coins' \subseteq utxo
    BY <1>5 DEF QueryWallet, Selections, OwnedBy
  <2>2. Carried /\ Sent(payments)' /\ BatchesDisjoint'
    BY <1>4, <2>1, PaymentsKept DEF accountVars
  <2>3. \A t \in payments : t.id \in settled /\ t.ins \cap utxo = {}
    BY <2>1 DEF FlowInv, BatchInv, Sent, LedgerInv
  <2>4. \A c \in coins' : Existed(c)'
    BY <2>1 DEF FlowInv, LedgerInv, Existed, accountVars
  <2>5. \A t \in payments' : t.id \in settled' /\ t.ins \cap coins' = {}
    BY <2>1, <2>3 DEF accountVars
  <2> QED BY <2>1, <2>2, <2>4, <2>5 DEF BatchInv
<1>6. CASE NotEnough \/ QueryFails \/ FundRejected \/ NotIncluded
  <2>1. fpc' = "idle" /\ UNCHANGED <<payments, utxo, pool, settled, nTx>>
    BY <1>6 DEF NotEnough, QueryFails, FundRejected, NotIncluded, End, accountVars
  <2>2. Carried /\ Sent(payments)' /\ BatchesDisjoint'
    BY <1>4, <2>1, PaymentsKept
  <2> QED BY <2>1, <2>2 DEF BatchInv
<1>7. CASE SubmitFund
  <2>1. /\ fpc = "submit" /\ fpc' = "track"
        /\ Deliver(FundTx) /\ payments' = payments \cup {FundTx}
    BY <1>7 DEF SubmitFund
  <2> QED BY <2>1, PaymentAdded DEF BatchInv
<1>8. CASE SubmitFundFails
  <2>1. fpc = "submit" /\ fpc' = "idle"
    BY <1>8 DEF SubmitFundFails
  <2>2. CASE UNCHANGED <<utxo, pool, settled, nTx, payments>>
    BY <1>4, <2>1, <2>2, PaymentsKept DEF BatchInv
  <2>3. CASE Deliver(FundTx) /\ payments' = payments \cup {FundTx}
    BY <2>1, <2>3, PaymentAdded DEF BatchInv
  <2> QED BY <1>8, <2>2, <2>3 DEF SubmitFundFails
<1>9. CASE TrackIncluded
  <2>1. /\ fpc = "track" /\ fpc' \in {"query", "idle"} /\ nTx \in settled
        /\ UNCHANGED <<payments, utxo, pool, settled, nTx>>
    BY <1>9 DEF TrackIncluded, Included, accountVars
  <2>2. Carried /\ Sent(payments)' /\ BatchesDisjoint'
    BY <1>4, <2>1, PaymentsKept
  <2>3. \A t \in payments' : t.id \in settled'
    BY <2>1 DEF FlowInv, BatchInv
  <2> QED BY <2>1, <2>2, <2>3 DEF BatchInv
<1> QED BY <1>5, <1>6, <1>7, <1>8, <1>9 DEF FundStep

\* A step that fund takes no part in.
LEMMA OtherFlow ==
  ASSUME FlowInv, Carried, Turns', UNCHANGED fundVars,
         fpc # "idle" => nTx' = nTx
  PROVE  FlowInv'
<1>1. Sent(payments)' /\ BatchesDisjoint' /\ LedgerInv' /\ settled \subseteq settled'
  BY PaymentsKept DEF fundVars, Carried
<1>2. UNCHANGED <<fpc, payments, coins>>
  BY DEF fundVars
<1>3. \A c : Existed(c) => Existed(c)'
  BY <1>1 DEF Existed
<1> QED BY <1>1, <1>2, <1>3 DEF FlowInv, BatchInv

LEMMA WithdrawStepFlow ==
  ASSUME FlowInv, WithdrawStep, UNCHANGED fundVars
  PROVE  FlowInv'
<1>1. wpc # "idle" /\ fpc = "idle" /\ fpc' = "idle"
  BY DEF WithdrawStep, FetchFails, SkipSender, NoKey, BuildSweep, SubmitSweep,
         SubmitSweepFails, EndWithdraw, Fetching, fundVars, FlowInv, Turns
<1>2. ASSUME UNCHANGED <<utxo, pool, settled, nTx>>, sweep' = {}
      PROVE  Carried /\ Turns'
  BY <1>1, <1>2, SameCarried DEF FlowInv, Turns
<1>3. CASE FetchFails \/ SkipSender \/ NoKey
  <2>1. UNCHANGED <<utxo, pool, settled, nTx>> /\ sweep' = {}
    BY <1>3 DEF FetchFails, SkipSender, NoKey, NextSender, accountVars
  <2> QED BY <1>1, <1>2, <2>1, OtherFlow
<1>4. CASE BuildSweep
  <2>1. /\ wpc' = "submit" /\ UNCHANGED <<utxo, pool, settled, nTx>>
        /\ \E S : S \subseteq utxo /\ sweep' = {Sweep(S)}
    <3>1. \A S \in Fetched : S \subseteq utxo
      BY DEF Fetched, OwnedBy, kSubset
    <3> QED BY <1>4, <3>1 DEF BuildSweep, accountVars
  <2>2. PICK S : S \subseteq utxo /\ sweep' = {Sweep(S)}
    BY <2>1
  <2>3. ASSUME NEW tx, tx = Sweep(S)
        PROVE  tx.id = nTx' + 1 /\ WellFormed(tx)'
    BY <2>1, <2>2, <2>3 DEF Sweep, Coin, WellFormed, Existed, FlowInv, LedgerInv
  <2>4. Turns'
    <3>1. \A tx \in sweep' : tx.id = nTx' + 1 /\ WellFormed(tx)'
      BY <2>2, <2>3
    <3> QED BY <1>1, <2>1, <3>1 DEF Turns
  <2> QED BY <1>1, <2>1, <2>4, SameCarried, OtherFlow DEF FlowInv
<1>5. ASSUME NEW tx \in sweep, Deliver(tx), sweep' = {}
      PROVE  FlowInv'
  <2>1. tx.id = nTx + 1 /\ WellFormed(tx) /\ LedgerInv
    BY DEF FlowInv, Turns
  <2>2. Carried
    BY <1>5, <2>1, DeliverCarried
  <2>3. Turns'
    BY <1>1, <1>5 DEF Turns
  <2> QED BY <1>1, <2>2, <2>3, OtherFlow
<1>6. CASE SubmitSweep
  BY <1>5, <1>6 DEF SubmitSweep, NextSender
<1>7. CASE SubmitSweepFails
  <2>1. sweep' = {}
    BY <1>7 DEF SubmitSweepFails, NextSender
  <2>2. CASE UNCHANGED <<utxo, pool, settled, nTx>>
    BY <1>1, <1>2, <2>1, <2>2, OtherFlow
  <2> QED BY <1>5, <1>7, <2>1, <2>2 DEF SubmitSweepFails
<1>8. CASE EndWithdraw
  <2>1. UNCHANGED <<utxo, pool, settled, nTx>> /\ sweep' = {}
    BY <1>8 DEF EndWithdraw, accountVars, FlowInv, Turns
  <2> QED BY <1>1, <1>2, <2>1, OtherFlow
<1> QED BY <1>3, <1>4, <1>6, <1>7, <1>8 DEF WithdrawStep

LEMMA NextFlow == ASSUME FlowInv, [Next]_vars PROVE FlowInv'
<1>1. ASSUME UNCHANGED accountVars, UNCHANGED withdrawVars, UNCHANGED fundVars
      PROVE  FlowInv'
  <2>1. UNCHANGED <<utxo, pool, settled, nTx, fpc, wpc, sweep>>
    BY <1>1 DEF accountVars, withdrawVars, fundVars
  <2>2. Carried /\ Turns'
    BY <2>1, SameCarried DEF FlowInv, Turns, WellFormed, Existed
  <2> QED BY <1>1, <2>1, <2>2, OtherFlow
<1>2. CASE Command
  <2>1. CASE StartInit /\ UNCHANGED <<accountVars, fundVars, withdrawVars>>
    BY <1>1, <2>1
  <2>2. CASE \E names \in NameSets, a \in Amounts :
               StartFund(names, a) /\ UNCHANGED <<keyVars, withdrawVars>>
    <3>1. /\ fpc' = "query" /\ payments' = {} /\ wpc = "idle"
          /\ UNCHANGED <<utxo, pool, settled, nTx, wpc, sweep>>
      BY <1>2, <2>2 DEF Command, Idle, StartFund, accountVars, withdrawVars
    <3>2. Carried
      BY <3>1, SameCarried DEF FlowInv
    <3>3. Turns'
      BY <3>1 DEF FlowInv, Turns, WellFormed, Existed
    <3>4. BatchInv'
      BY <3>1 DEF BatchInv, Sent, BatchesDisjoint
    <3> QED BY <3>2, <3>3, <3>4 DEF FlowInv, Carried
  <2>3. CASE \E names \in NameSets : StartWithdraw(names) /\ UNCHANGED <<keyVars, fundVars>>
    <3>1. /\ fpc = "idle" /\ wpc' = "fetch" /\ sweep' = {} /\ UNCHANGED fundVars
          /\ UNCHANGED <<utxo, pool, settled, nTx>>
      BY <1>2, <2>3 DEF Command, Idle, StartWithdraw, accountVars
    <3>2. Carried
      BY <3>1, SameCarried DEF FlowInv
    <3>3. Turns'
      BY <3>1 DEF Turns, fundVars
    <3> QED BY <3>1, <3>2, <3>3, OtherFlow
  <2> QED BY <1>2, <2>1, <2>2, <2>3 DEF Command
<1>3. CASE InitStep /\ UNCHANGED <<accountVars, fundVars, withdrawVars, commands>>
  BY <1>1, <1>3
<1>4. CASE FundStep /\ UNCHANGED <<keyVars, withdrawVars, commands>>
  BY <1>4, FundStepFlow
<1>5. CASE WithdrawStep /\ UNCHANGED <<keyVars, fundVars, commands>>
  BY <1>5, WithdrawStepFlow
<1>6. CASE User /\ UNCHANGED <<accountVars, fundVars, withdrawVars, commands>>
  BY <1>1, <1>6
<1>7. CASE Settle /\ UNCHANGED <<keyVars, fundVars, withdrawVars, commands>>
  <2>1. Carried /\ nTx' = nTx
    BY <1>7, SettleCarried DEF FlowInv
  <2>2. UNCHANGED <<fpc, wpc, sweep>>
    BY <1>7 DEF fundVars, withdrawVars
  <2>3. \A c : Existed(c) => Existed(c)'
    BY <2>1 DEF Carried, Existed
  <2>4. Turns'
    BY <2>1, <2>2, <2>3 DEF FlowInv, Turns, WellFormed
  <2> QED BY <1>7, <2>1, <2>4, OtherFlow
<1>8. CASE UNCHANGED vars
  BY <1>1, <1>8 DEF vars
<1> QED BY <1>2, <1>3, <1>4, <1>5, <1>6, <1>7, <1>8 DEF Next

LEMMA InitFlow == Init => FlowInv
<1> SUFFICES ASSUME Init PROVE FlowInv
  OBVIOUS
<1>1. LedgerInv
  BY DEF Init, AccountsInit, WalletAtStart, LedgerInv, Existed, Coin
<1>2. Turns /\ BatchInv
  BY DEF Init, FundInit, WithdrawInit, Turns, BatchInv, Sent, BatchesDisjoint
<1> QED BY <1>1, <1>2 DEF FlowInv

\* Through a whole session no output is produced twice, only one command at a
\* time deals with the ledger, and the transactions of a running fund but the
\* last are included (runFundCmd, runWithdrawCmd).
THEOREM FlowInvariant == Spec => []FlowInv
<1>1. FlowInv /\ [Next]_vars => FlowInv'
  BY NextFlow
<1> QED BY InitFlow, <1>1, PTL DEF Spec

\* Two transactions of one run of fund never compete for an output of the
\* wallet, for any amounts, batches and failures, as each is included before
\* the outputs of the next are asked for (runFundCmd).
THEOREM BatchesNeverCompete == Spec => []BatchesDisjoint
<1>1. FlowInv => BatchesDisjoint
  BY DEF FlowInv, BatchInv
<1> QED BY <1>1, FlowInvariant, PTL

-----------------------------------------------------------------------------
(* Fund: whom it has paid. *)

\* No key is the wallet's.
KeysApart == \A p \in DOMAIN files : HasAddress(p) => files[p].key # Wallet

LEMMA KeysApartStep == ASSUME KeyInv, KeysApart, [KeyNext]_keyVars PROVE KeysApart'
<1>1. CASE files' = files
  BY <1>1 DEF KeysApart, HasAddress
<1>2. CASE WriteKey
  <2>1. files' = Stored(NextPath, [key |-> lastKey + 1, form |-> "plain"])
        /\ lastKey \in Nat
    BY <1>2 DEF WriteKey, KeyInv, KeyTypeOK
  <2> QED BY <2>1 DEF KeysApart, HasAddress, Stored, Wallet
<1>3. CASE Stop
  BY <1>1, <1>3 DEF Stop, KeysApart, HasAddress, Stored
<1>4. ASSUME NEW path \in DOMAIN files, EncryptKey(path)
      PROVE  KeysApart'
  <2>1. files[path] \in KeyFile
    BY DEF KeyInv, KeyTypeOK
  <2>2. files' = Stored(path, [files[path] EXCEPT !.form = "encrypted"]) /\ HasKey(path)
    BY <1>4 DEF EncryptKey
  <2> QED BY <2>1, <2>2 DEF Stored, HasAddress, HasKey, KeyFile, KeysApart
<1> QED BY <1>1, <1>2, <1>3, <1>4 DEF KeyNext, StartInit, CreateNew, AddSenders, Begin,
        InitStep, KeyFileExists, EmptyConfig, WriteConfig, User, RemoveConfig, DropSender,
        keyVars, initVars

TargetsApart ==
  /\ targets \in Seq(Nat)
  /\ \A k \in DOMAIN targets : targets[k] # Wallet
  /\ \A j, k \in DOMAIN targets : j # k => targets[j] # targets[k]

PaidOnce(k) == Cardinality(Paid(k)) = 1 /\ \A c \in Paid(k) : c.amount = amount

PaidUpTo(n) ==
  /\ n \in 0 .. Len(targets)
  /\ \A k \in 1 .. n : PaidOnce(k)
  /\ \A k \in (n + 1) .. Len(targets) : Paid(k) = {}

PrefixInv ==
  /\ TargetsApart
  /\ fpc \in {"query", "submit"} => PaidUpTo(batchStart) /\ outcome = "none"
  /\ fpc = "track" => PaidUpTo(BatchEnd) /\ batchStart \in Nat /\ outcome = "none"
  /\ fpc = "idle" => FundPaysPrefixOnce
  /\ fpc \in {"idle", "query", "submit", "track"}

LEMMA PaidIsPrefix ==
  ASSUME NEW n, PaidUpTo(n), outcome = "complete" => n = Len(targets)
  PROVE  FundPaysPrefixOnce
BY DEF PaidUpTo, PaidOnce, FundPaysPrefixOnce

\* The targets of a run are the accounts of different senders.
LEMMA StartFundPrefix ==
  ASSUME KeyInv, KeysApart, NEW names, NEW a, StartFund(names, a)
  PROVE  PrefixInv'
<1>1. /\ \A i \in DOMAIN Chosen(names) : HasAddress(Chosen(names)[i].file)
      /\ targets' = [i \in DOMAIN Chosen(names) |-> files[Chosen(names)[i].file].key]
      /\ batchStart' = 0 /\ payments' = {} /\ fpc' = "query" /\ outcome' = "none"
  BY DEF StartFund
<1>0. PICK n \in Nat : \E f \in [1 .. n -> DOMAIN config.senders] :
        /\ Chosen(names) = [k \in 1 .. n |-> config.senders[f[k]]]
        /\ \A j, k \in 1 .. n : j # k => f[j] # f[k]
  <2>1. Serves(Chosen(names))
    BY ChosenServes
  <2> QED BY <2>1, Zenon DEF Serves
<1>2. PICK f \in [1 .. n -> DOMAIN config.senders] :
        /\ Chosen(names) = [k \in 1 .. n |-> config.senders[f[k]]]
        /\ \A j, k \in 1 .. n : j # k => f[j] # f[k]
  BY <1>0
<1>3. /\ targets' = [k \in 1 .. n |-> files[config.senders[f[k]].file].key]
      /\ \A k \in 1 .. n : HasAddress(config.senders[f[k]].file)
  BY <1>1, <1>2
<1>4. \A k \in 1 .. n : /\ targets'[k] \in Nat
                        /\ targets'[k] # Wallet
  BY <1>3 DEF HasAddress, KeysApart, KeyInv, KeyTypeOK, KeyFile
<1>5. \A j, k \in 1 .. n : j # k => targets'[j] # targets'[k]
  BY <1>2, <1>3, KeyInvImplies DEF AccountsDistinct
<1>6. targets' \in Seq(Nat) /\ DOMAIN targets' = 1 .. n /\ Len(targets') = n
  <2>1. DOMAIN targets' = 1 .. n
    BY <1>3, Zenon
  <2>2. targets' \in [1 .. n -> Nat]
    BY <1>3, <1>4, <2>1
  <2> QED BY <2>1, <2>2
<1>7. TargetsApart'
  BY <1>4, <1>5, <1>6 DEF TargetsApart
<1>8. \A k : Paid(k)' = {}
  BY <1>1 DEF Paid
<1>9. PaidUpTo(batchStart)'
  <2>1. batchStart' = 0 /\ Len(targets') = n /\ n \in Nat
    BY <1>1, <1>6, Zenon
  <2>2. 0 \in 0 .. n /\ 1 .. 0 = {}
    BY <2>1
  <2> QED BY <2>1, <2>2, <1>8 DEF PaidUpTo
<1> QED BY <1>1, <1>7, <1>9 DEF PrefixInv

LEMMA BatchEndType ==
  ASSUME batchStart \in 0 .. Len(targets), targets \in Seq(Nat)
  PROVE  BatchEnd \in batchStart .. Len(targets)
BY FundAssumption DEF BatchEnd

\* What a funding transaction pays a target: once if it is in the batch.
LEMMA BatchPays ==
  ASSUME TargetsApart, batchStart \in 0 .. Len(targets), NEW k \in DOMAIN targets
  PROVE  {c \in FundTx.outs : c.owner = targets[k]} =
           IF k \in (batchStart + 1) .. BatchEnd
           THEN {Coin(nTx + 1, k, targets[k], amount)} ELSE {}
<1> DEFINE batch == (batchStart + 1) .. BatchEnd
           coin(j) == Coin(nTx + 1, j, targets[j], amount)
<1>1. batch \subseteq DOMAIN targets
  BY BatchEndType DEF TargetsApart
<1>2. FundTx.outs = {coin(j) : j \in batch} \cup Remainder(nTx + 1)
  BY DEF FundTx
<1>3. \A c \in Remainder(nTx + 1) : c.owner # targets[k]
  BY DEF Remainder, Coin, TargetsApart
<1>4. \A j \in batch : coin(j).owner = targets[j]
  BY DEF Coin
<1>5. \A j \in batch : coin(j).owner = targets[k] <=> j = k
  BY <1>1, <1>4 DEF TargetsApart
<1> HIDE DEF batch, coin
<1>6. {c \in FundTx.outs : c.owner = targets[k]} = IF k \in batch THEN {coin(k)} ELSE {}
  BY <1>2, <1>3, <1>5
<1> QED BY <1>6 DEF batch, coin

LEMMA SubmitPaid ==
  ASSUME TargetsApart, PaidUpTo(batchStart), payments' = payments \cup {FundTx},
         UNCHANGED <<targets, amount, batchStart>>
  PROVE  PaidUpTo(BatchEnd)'
<1>1. batchStart \in 0 .. Len(targets) /\ targets \in Seq(Nat)
      /\ DOMAIN targets = 1 .. Len(targets) /\ Len(targets) \in Nat
  BY DEF PaidUpTo, TargetsApart
<1>2. BatchEnd \in batchStart .. Len(targets) /\ BatchEnd' = BatchEnd
  BY <1>1, BatchEndType DEF BatchEnd
<1>3. \A k : Paid(k)' = Paid(k) \cup {c \in FundTx.outs : c.owner = targets[k]}
  BY DEF Paid
<1>4. ASSUME NEW k \in 1 .. BatchEnd
      PROVE  PaidOnce(k)'
  <2>1. k \in DOMAIN targets
    BY <1>1, <1>2
  <2>2. CASE k <= batchStart
    <3>1. k \in 1 .. batchStart /\ ~(k \in (batchStart + 1) .. BatchEnd)
      BY <1>1, <2>2
    <3>2. Paid(k)' = Paid(k)
      BY <1>1, <1>3, <2>1, <3>1, BatchPays
    <3> QED BY <3>1, <3>2 DEF PaidUpTo, PaidOnce
  <2>3. CASE k > batchStart
    <3>1. k \in (batchStart + 1) .. BatchEnd /\ k \in (batchStart + 1) .. Len(targets)
      BY <1>1, <1>2, <2>3
    <3>2. Paid(k)' = {Coin(nTx + 1, k, targets[k], amount)}
      BY <1>1, <1>3, <2>1, <3>1, BatchPays DEF PaidUpTo
    <3>3. Cardinality(Paid(k)') = 1
      BY <3>2, FS_Singleton
    <3>4. \A c \in Paid(k)' : c.amount = amount
      BY <3>2 DEF Coin
    <3> QED BY <3>3, <3>4 DEF PaidOnce
  <2> QED BY <1>1, <2>2, <2>3
<1>5. ASSUME NEW k \in (BatchEnd + 1) .. Len(targets)
      PROVE  Paid(k)' = {}
  <2>1. /\ k \in DOMAIN targets /\ k \in (batchStart + 1) .. Len(targets)
        /\ ~(k \in (batchStart + 1) .. BatchEnd)
    BY <1>1, <1>2
  <2> QED BY <1>1, <1>3, <2>1, BatchPays DEF PaidUpTo
<1>6. BatchEnd' \in 0 .. Len(targets')
  BY <1>1, <1>2
<1> QED BY <1>2, <1>4, <1>5, <1>6 DEF PaidUpTo

\* A step that pays nobody keeps what was paid.
LEMMA PaidKept ==
  ASSUME NEW n, PaidUpTo(n), UNCHANGED <<targets, amount, payments>>
  PROVE  /\ n \in 0 .. Len(targets')
         /\ \A k \in 1 .. n : PaidOnce(k)'
         /\ \A k \in (n + 1) .. Len(targets') : Paid(k)' = {}
BY DEF PaidUpTo, PaidOnce, Paid

LEMMA FundStepPrefix == ASSUME PrefixInv, FundStep PROVE PrefixInv'
<1>1. ASSUME UNCHANGED <<targets, payments, amount, batchStart>>
      PROVE  TargetsApart' = TargetsApart /\ PaidUpTo(batchStart)' = PaidUpTo(batchStart)
  BY <1>1 DEF TargetsApart, BatchEnd, PaidUpTo, PaidOnce, Paid
<1>2. CASE QueryWallet
  <2>1. /\ fpc = "query" /\ fpc' = "submit"
        /\ UNCHANGED <<targets, payments, amount, batchStart, outcome>>
    BY <1>2 DEF QueryWallet
  <2> QED BY <1>1, <2>1 DEF PrefixInv
<1>3. CASE NotEnough \/ QueryFails \/ FundRejected \/ NotIncluded
  <2>1. /\ fpc # "idle" /\ fpc' = "idle" /\ outcome' # "complete"
        /\ UNCHANGED <<targets, payments, amount, batchStart>>
    BY <1>3 DEF NotEnough, QueryFails, FundRejected, NotIncluded, End
  <2>2. PICK n : PaidUpTo(n)
    BY <2>1 DEF PrefixInv
  <2>3. FundPaysPrefixOnce'
    BY <2>1, <2>2, PaidKept DEF FundPaysPrefixOnce, PaidOnce
  <2> QED BY <1>1, <2>1, <2>3 DEF PrefixInv
<1>4. ASSUME fpc = "submit", payments' = payments \cup {FundTx},
             UNCHANGED <<targets, amount, batchStart>>
      PROVE  TargetsApart' /\ PaidUpTo(BatchEnd)' /\ batchStart \in Nat
  <2>1. TargetsApart' /\ PaidUpTo(batchStart)
    BY <1>4 DEF PrefixInv, TargetsApart
  <2> QED BY <1>4, <2>1, SubmitPaid DEF PrefixInv, PaidUpTo
<1>5. CASE SubmitFund
  <2>1. /\ fpc = "submit" /\ fpc' = "track" /\ payments' = payments \cup {FundTx}
        /\ UNCHANGED <<targets, amount, batchStart, outcome>>
    BY <1>5 DEF SubmitFund
  <2> QED BY <1>4, <2>1 DEF PrefixInv
<1>6. CASE SubmitFundFails
  <2>1. /\ fpc = "submit" /\ fpc' = "idle" /\ outcome' = "failed"
        /\ UNCHANGED <<targets, amount, batchStart>>
    BY <1>6 DEF SubmitFundFails
  <2>2. CASE UNCHANGED payments
    <3>1. PaidUpTo(batchStart)
      BY <2>1 DEF PrefixInv
    <3>2. FundPaysPrefixOnce'
      BY <2>1, <2>2, <3>1, PaidKept DEF FundPaysPrefixOnce, PaidOnce
    <3> QED BY <1>1, <2>1, <2>2, <3>2 DEF PrefixInv
  <2>3. CASE payments' = payments \cup {FundTx}
    <3>1. TargetsApart' /\ PaidUpTo(BatchEnd)'
      BY <1>4, <2>1, <2>3
    <3>2. FundPaysPrefixOnce'
      BY <2>1, <3>1 DEF PaidUpTo, PaidOnce, FundPaysPrefixOnce
    <3> QED BY <2>1, <3>1, <3>2 DEF PrefixInv
  <2> QED BY <1>6, <2>2, <2>3 DEF SubmitFundFails
<1>7. CASE TrackIncluded
  <2>1. /\ fpc = "track" /\ batchStart' = NextStart
        /\ UNCHANGED <<targets, payments, amount>>
        /\ IF NextStart < Len(targets) THEN fpc' = "query" /\ UNCHANGED outcome
           ELSE fpc' = "idle" /\ outcome' = "complete"
    BY <1>7 DEF TrackIncluded
  <2>2. /\ PaidUpTo(BatchEnd) /\ batchStart \in Nat /\ TargetsApart' /\ outcome = "none"
        /\ targets \in Seq(Nat)
    BY <2>1 DEF PrefixInv, TargetsApart
  <2>3. CASE NextStart < Len(targets)
    <3>1. BatchEnd = NextStart
      BY <2>2, <2>3, FundAssumption DEF BatchEnd, NextStart
    <3>2. PaidUpTo(NextStart)
      BY <2>2, <3>1
    <3>3. PaidUpTo(batchStart)'
      BY <2>1, <3>2 DEF PaidUpTo, PaidOnce, Paid
    <3> QED BY <2>1, <2>2, <2>3, <3>3 DEF PrefixInv
  <2>4. CASE ~(NextStart < Len(targets))
    <3>1. BatchEnd = Len(targets)
      BY <2>2, <2>4, FundAssumption DEF BatchEnd, NextStart
    <3>2. PaidUpTo(Len(targets))
      BY <2>2, <3>1
    <3>3. FundPaysPrefixOnce'
      BY <2>1, <3>2, PaidKept DEF FundPaysPrefixOnce, PaidOnce
    <3> QED BY <2>1, <2>2, <2>4, <3>3 DEF PrefixInv
  <2> QED BY <2>3, <2>4
<1> QED BY <1>2, <1>3, <1>5, <1>6, <1>7 DEF FundStep

LEMMA NextPrefix ==
  ASSUME KeyInv, KeysApart, PrefixInv, [Next]_vars
  PROVE  PrefixInv'
<1>1. CASE UNCHANGED fundVars
  <2>1. UNCHANGED <<fpc, amount, targets, batchStart, payments, outcome>>
    BY <1>1 DEF fundVars
  <2>2. BatchEnd' = BatchEnd /\ \A k : Paid(k)' = Paid(k)
    BY <2>1 DEF BatchEnd, Paid
  <2>3. TargetsApart' = TargetsApart /\ FundPaysPrefixOnce' = FundPaysPrefixOnce
    BY <2>1, <2>2 DEF TargetsApart, FundPaysPrefixOnce
  <2>4. \A k : PaidOnce(k)' = PaidOnce(k)
    BY <2>1, <2>2 DEF PaidOnce
  <2>5. /\ PaidUpTo(batchStart) => PaidUpTo(batchStart)'
        /\ PaidUpTo(BatchEnd) => PaidUpTo(BatchEnd)'
    BY <2>1, <2>2, <2>4 DEF PaidUpTo
  <2> QED BY <2>1, <2>3, <2>5 DEF PrefixInv
<1>2. ASSUME NEW names, NEW a, StartFund(names, a)
      PROVE  PrefixInv'
  BY <1>2, StartFundPrefix
<1> QED BY <1>1, <1>2, FundStepPrefix DEF Next, Command, vars

LEMMA InitPrefix == Init => PrefixInv /\ KeysApart
<1> SUFFICES ASSUME Init PROVE PrefixInv /\ KeysApart
  OBVIOUS
<1>1. KeysApart
  BY DEF Init, KeyInit, KeysApart
<1>2. /\ fpc = "idle" /\ targets = <<>> /\ payments = {} /\ outcome = "none"
  BY DEF Init, FundInit
<1>3. TargetsApart
  BY <1>2 DEF TargetsApart
<1>4. FundPaysPrefixOnce
  BY <1>2 DEF FundPaysPrefixOnce, Paid
<1> QED BY <1>1, <1>2, <1>3, <1>4 DEF PrefixInv

LEMMA AlwaysPrefix == Spec => []PrefixInv
<1>1. KeyInv /\ KeysApart /\ [Next]_vars => KeysApart'
  BY SessionStep, KeysApartStep
<1>2. KeyInv /\ KeysApart /\ PrefixInv /\ [Next]_vars => PrefixInv'
  BY NextPrefix
<1> QED BY InitPrefix, SessionKeyInv, <1>1, <1>2, PTL DEF Spec

\* However a run of fund ends, and whatever --senders named, the transactions
\* it left with the network pay the amount once to each of the first targets
\* and nothing to the others (runFundCmd, filterSenders).
THEOREM FundPaysAPrefix == Spec => []FundPaysPrefixOnce
<1>1. PrefixInv => FundPaysPrefixOnce
  <2> SUFFICES ASSUME PrefixInv PROVE FundPaysPrefixOnce
    OBVIOUS
  <2>1. CASE fpc \in {"query", "submit"}
    BY <2>1, PaidIsPrefix DEF PrefixInv
  <2>2. CASE fpc = "track"
    BY <2>2, PaidIsPrefix DEF PrefixInv
  <2> QED BY <2>1, <2>2 DEF PrefixInv
<1> QED BY <1>1, AlwaysPrefix, PTL

-----------------------------------------------------------------------------
(* Withdraw: one account after the other. *)

AccountOf(k) == files[list[k].file].key

FromAccount(tx, k) == \A c \in tx.ins : c.owner = AccountOf(k)

Listed ==
  /\ list \in Seq(Entries)
  /\ wi \in 0 .. Len(list)
  /\ \A k \in DOMAIN list : HasAddress(list[k].file)
  /\ \A j, k \in DOMAIN list : j # k => AccountOf(j) # AccountOf(k)

\* Each sweep empties the account of one sender dealt with, the sweep in
\* preparation that of the next.
SweepInv ==
  /\ SweepsDisjoint
  /\ wpc # "idle" =>
       /\ Listed
       /\ \A t \in sweeps : \E k \in 1 .. wi : FromAccount(t, k)
  /\ wpc = "submit" => wi < Len(list) /\ \A t \in sweep : FromAccount(t, wi + 1)

\* What a step that keeps the list keeps of its accounts.
LEMMA AccountsKept ==
  ASSUME KeyInv, [Next]_vars, Listed, UNCHANGED list, NEW k \in DOMAIN list
  PROVE  HasAddress(list[k].file)' /\ AccountOf(k)' = AccountOf(k)
<1>1. HasAddress(list[k].file)
  BY DEF Listed
<1>2. SUFFICES ASSUME NEW p, p = list[k].file
               PROVE  HasAddress(p)' /\ files'[p].key = files[p].key
  BY DEF AccountOf, HasAddress
<1>3. p \in DOMAIN files /\ HasAddress(p)
  BY <1>1, <1>2 DEF HasAddress
<1> QED BY <1>3, SessionStep, StepKeepsKeys

LEMMA ListedKept ==
  ASSUME KeyInv, [Next]_vars, Listed, UNCHANGED list, wi' \in 0 .. Len(list)
  PROVE  Listed'
<1>1. /\ \A k \in DOMAIN list' : HasAddress(list[k].file)'
      /\ \A k \in DOMAIN list' : AccountOf(k)' = AccountOf(k)
  BY AccountsKept
<1> QED BY <1>1 DEF Listed

\* The senders a run serves have accounts of their own.
LEMMA StartWithdrawSweeps ==
  ASSUME KeyInv, NEW names, StartWithdraw(names), UNCHANGED keyVars
  PROVE  SweepInv'
<1>1. /\ list' = Chosen(names) /\ wi' = 0 /\ sweeps' = {} /\ wpc' = "fetch"
      /\ UNCHANGED files
  BY DEF StartWithdraw, keyVars
<1>2. PICK n \in Nat : \E f \in [1 .. n -> DOMAIN config.senders] :
        /\ Chosen(names) = [k \in 1 .. n |-> config.senders[f[k]]]
        /\ \A j, k \in 1 .. n : j # k => f[j] # f[k]
  <2>1. Serves(Chosen(names))
    BY ChosenServes
  <2> QED BY <2>1, Zenon DEF Serves
<1>3. PICK f \in [1 .. n -> DOMAIN config.senders] :
        /\ list' = [k \in 1 .. n |-> config.senders[f[k]]]
        /\ \A j, k \in 1 .. n : j # k => f[j] # f[k]
  BY <1>1, <1>2
<1>4. config.senders \in Seq(Entries) /\ ConfigNamesKeys /\ AccountsDistinct
  BY KeyInvImplies DEF KeyTypeOK
<1>5. \A k \in 1 .. n : config.senders[f[k]] \in Entries
  BY <1>3, <1>4
<1>6. list' \in Seq(Entries) /\ DOMAIN list' = 1 .. n /\ Len(list') = n
  BY <1>3, <1>5
<1>7. \A k \in 1 .. n : HasAddress(list[k].file)'
  BY <1>1, <1>3, <1>4 DEF ConfigNamesKeys, HasAddress
<1>8. \A j, k \in 1 .. n : j # k => AccountOf(j)' # AccountOf(k)'
  BY <1>1, <1>3, <1>4 DEF AccountsDistinct, AccountOf
<1>9. Listed'
  BY <1>1, <1>6, <1>7, <1>8 DEF Listed
<1> QED BY <1>1, <1>9 DEF SweepInv, SweepsDisjoint

\* A step that sends no sweep.
LEMMA SweepsKept ==
  ASSUME KeyInv, [Next]_vars, SweepInv, wpc # "idle", UNCHANGED <<list, sweeps>>,
         wi' \in wi .. Len(list), wpc' # "submit"
  PROVE  SweepInv'
<1>1. Listed /\ Listed' /\ wi \in Nat
  <2>1. Listed /\ wi \in Nat
    BY DEF SweepInv, Listed
  <2>2. wi' \in 0 .. Len(list)
    BY <2>1
  <2> QED BY <2>1, <2>2, ListedKept
<1>2. ASSUME NEW t \in sweeps'
      PROVE  \E k \in 1 .. wi' : FromAccount(t, k)'
  <2>1. PICK k \in 1 .. wi : FromAccount(t, k)
    BY <1>2 DEF SweepInv
  <2>2. k \in 1 .. wi' /\ k \in DOMAIN list
    BY <1>1 DEF Listed
  <2>3. AccountOf(k)' = AccountOf(k)
    BY <1>1, <2>2, AccountsKept
  <2> QED BY <2>1, <2>2, <2>3 DEF FromAccount
<1>3. SweepsDisjoint'
  BY DEF SweepInv, SweepsDisjoint
<1> QED BY <1>1, <1>2, <1>3 DEF SweepInv

\* The next sweep takes what no earlier one does.
LEMMA SweepSent ==
  ASSUME KeyInv, [Next]_vars, SweepInv, wpc = "submit", NEW tx \in sweep,
         sweeps' = sweeps \cup {tx}, UNCHANGED list, wi' = wi + 1, wpc' = "fetch"
  PROVE  SweepInv'
<1>1. /\ Listed /\ wi \in Nat /\ wi < Len(list) /\ Len(list) \in Nat
      /\ DOMAIN list = 1 .. Len(list) /\ FromAccount(tx, wi + 1)
  BY DEF SweepInv, Listed
<1>2. Listed'
  BY <1>1, ListedKept
<1>3. ASSUME NEW t \in sweeps'
      PROVE  \E k \in 1 .. wi' : FromAccount(t, k)'
  <2>1. PICK k \in 1 .. wi' : FromAccount(t, k)
    <3>1. CASE t = tx
      BY <1>1, <3>1
    <3>2. CASE t \in sweeps
      <4>1. PICK k \in 1 .. wi : FromAccount(t, k)
        BY <3>2 DEF SweepInv
      <4>2. k \in 1 .. wi'
        BY <1>1
      <4> QED BY <4>1, <4>2
    <3> QED BY <3>1, <3>2
  <2>2. k \in DOMAIN list
    BY <1>1
  <2>3. AccountOf(k)' = AccountOf(k)
    BY <1>1, <2>2, AccountsKept
  <2> QED BY <2>1, <2>3 DEF FromAccount
<1>4. ASSUME NEW t \in sweeps
      PROVE  t.ins \cap tx.ins = {}
  <2>1. PICK k \in 1 .. wi : FromAccount(t, k)
    BY DEF SweepInv
  <2>2. k \in DOMAIN list /\ wi + 1 \in DOMAIN list /\ k # wi + 1
    BY <1>1
  <2>3. AccountOf(k) # AccountOf(wi + 1)
    BY <1>1, <2>2 DEF Listed
  <2> QED BY <1>1, <2>1, <2>3 DEF FromAccount
<1>5. SweepsDisjoint'
  BY <1>4 DEF SweepInv, SweepsDisjoint
<1> QED BY <1>2, <1>3, <1>5 DEF SweepInv

LEMMA WithdrawStepSweeps ==
  ASSUME KeyInv, [Next]_vars, SweepInv, WithdrawStep, UNCHANGED keyVars
  PROVE  SweepInv'
<1>1. wpc \in {"fetch", "submit"} /\ Listed /\ wi \in Nat /\ Len(list) \in Nat
  <2>1. wpc \in {"fetch", "submit"}
    BY DEF WithdrawStep, FetchFails, SkipSender, NoKey, BuildSweep, SubmitSweep,
           SubmitSweepFails, EndWithdraw, Fetching
  <2> QED BY <2>1 DEF SweepInv, Listed
<1>2. CASE FetchFails \/ SkipSender \/ NoKey
  <2>1. /\ wi < Len(list) /\ wi' = wi + 1 /\ wpc' = "fetch" /\ UNCHANGED <<list, sweeps>>
    BY <1>2 DEF FetchFails, SkipSender, NoKey, NextSender, Fetching
  <2>2. wi' \in wi .. Len(list)
    BY <1>1, <2>1
  <2> QED BY <1>1, <2>1, <2>2, SweepsKept
<1>3. CASE BuildSweep
  <2>1. /\ wpc = "fetch" /\ wpc' = "submit" /\ wi < Len(list)
        /\ UNCHANGED <<list, wi, sweeps, files>>
    BY <1>3 DEF BuildSweep, Fetching, keyVars
  <2>2. PICK S \in Fetched : sweep' = {Sweep(S)}
    BY <1>3 DEF BuildSweep
  <2>3. S \subseteq OwnedBy(files[Path].key)
    BY DEF Fetched, kSubset
  <2>4. \A c \in S : c.owner = AccountOf(wi + 1)
    BY <2>3 DEF OwnedBy, Path, AccountOf
  <2>5. \A t \in sweep' : t.ins = S
    BY <2>2 DEF Sweep
  <2>6. \A t \in sweep' : FromAccount(t, wi + 1)
    BY <2>4, <2>5 DEF FromAccount
  <2>7. \A t, k : FromAccount(t, k)' = FromAccount(t, k)
    BY <2>1 DEF FromAccount, AccountOf
  <2>8. Listed'
    BY <1>1, <2>1, ListedKept DEF Listed
  <2>9. SweepsDisjoint' /\ \A t \in sweeps' : \E k \in 1 .. wi' : FromAccount(t, k)'
    BY <2>1, <2>7 DEF SweepInv, SweepsDisjoint
  <2>10. \A t \in sweep' : FromAccount(t, wi + 1)'
    BY <2>1, <2>6 DEF FromAccount, AccountOf
  <2> QED BY <2>1, <2>8, <2>9, <2>10 DEF SweepInv
<1>4. CASE SubmitSweep
  <2>1. PICK tx \in sweep : sweeps' = sweeps \cup {tx}
    BY <1>4 DEF SubmitSweep
  <2>2. wpc = "submit" /\ UNCHANGED list /\ wi' = wi + 1 /\ wpc' = "fetch"
    BY <1>4 DEF SubmitSweep, NextSender
  <2> QED BY <2>1, <2>2, SweepSent
<1>5. CASE SubmitSweepFails
  <2>1. wpc = "submit" /\ UNCHANGED list /\ wi' = wi + 1 /\ wpc' = "fetch"
    BY <1>5 DEF SubmitSweepFails, NextSender
  <2>2. CASE UNCHANGED sweeps
    <3>1. wi' \in wi .. Len(list)
      BY <1>1, <2>1 DEF SweepInv
    <3> QED BY <1>1, <2>1, <2>2, <3>1, SweepsKept
  <2>3. CASE \E tx \in sweep : sweeps' = sweeps \cup {tx}
    BY <2>1, <2>3, SweepSent
  <2> QED BY <1>5, <2>2, <2>3 DEF SubmitSweepFails
<1>6. CASE EndWithdraw
  BY <1>6 DEF EndWithdraw, SweepInv, SweepsDisjoint
<1> QED BY <1>2, <1>3, <1>4, <1>5, <1>6 DEF WithdrawStep

LEMMA NextSweeps == ASSUME KeyInv, SweepInv, [Next]_vars PROVE SweepInv'
<1>1. CASE UNCHANGED withdrawVars
  <2>1. UNCHANGED <<wpc, list, wi, sweep, sweeps>>
    BY <1>1 DEF withdrawVars
  <2>2. SweepsDisjoint'
    BY <2>1 DEF SweepInv, SweepsDisjoint
  <2>3. CASE wpc = "idle"
    BY <2>1, <2>2, <2>3 DEF SweepInv
  <2>4. CASE wpc # "idle"
    <3>1. Listed /\ Listed' /\ wi \in Nat /\ DOMAIN list = 1 .. Len(list)
          /\ Len(list) \in Nat /\ wi <= Len(list)
      <4>1. Listed
        BY <2>4 DEF SweepInv
      <4> QED BY <2>1, <4>1, ListedKept DEF Listed
    <3>2. \A k \in DOMAIN list : AccountOf(k)' = AccountOf(k)
      BY <2>1, <3>1, AccountsKept
    <3>3. \A k \in DOMAIN list : \A t : FromAccount(t, k) => FromAccount(t, k)'
      BY <3>2 DEF FromAccount
    <3>4. \A t \in sweeps' : \E k \in 1 .. wi' : FromAccount(t, k)'
      <4>1. \A k \in 1 .. wi : k \in DOMAIN list
        BY <3>1
      <4> QED BY <2>1, <2>4, <3>3, <4>1 DEF SweepInv
    <3>5. wpc = "submit" => wi < Len(list) /\ \A t \in sweep' : FromAccount(t, wi + 1)'
      <4>1. wpc = "submit" => wi < Len(list) /\ wi + 1 \in DOMAIN list
        BY <3>1 DEF SweepInv
      <4> QED BY <2>1, <3>3, <4>1 DEF SweepInv
    <3>6. wpc' = "submit" => wi' < Len(list') /\ \A t \in sweep' : FromAccount(t, wi + 1)'
      BY <2>1, <3>5
    <3> QED BY <2>2, <3>1, <3>4, <3>6 DEF SweepInv
  <2> QED BY <2>3, <2>4
<1>2. CASE WithdrawStep /\ UNCHANGED keyVars
  BY <1>2, WithdrawStepSweeps
<1>3. ASSUME NEW names, StartWithdraw(names), UNCHANGED keyVars
      PROVE  SweepInv'
  BY <1>3, StartWithdrawSweeps
<1> QED BY <1>1, <1>2, <1>3 DEF Next, Command, vars

\* Two sweeps of one run of withdraw never compete for an output, for any
\* configuration, --senders and failures, and whatever the user does to the
\* files meanwhile: each empties an account of its own (runWithdrawCmd).
THEOREM SweepsNeverCompete == Spec => []SweepsDisjoint
<1>1. Init => SweepInv
  BY DEF Init, WithdrawInit, SweepInv, SweepsDisjoint
<1>2. KeyInv /\ SweepInv /\ [Next]_vars => SweepInv'
  BY NextSweeps
<1>3. SweepInv => SweepsDisjoint
  BY DEF SweepInv
<1> QED BY <1>1, SessionKeyInv, <1>2, <1>3, PTL DEF Spec
=============================================================================
