------------------------------ MODULE Profiles ------------------------------
(***************************************************************************)
(* The accounts of a node (AccountController, PrivateProfile and           *)
(* SeedProfile): the private keys of a user, kept in one encrypted file    *)
(* per profile, the list of profiles, and the session of the profile that  *)
(* is logged in.  A profile of the new type is a seed from which the keys  *)
(* are derived by index; one of the old type stores its keys.  Both write  *)
(* the same path, in different formats.                                    *)
(*                                                                         *)
(* An operation is the sequence of states it leaves on the disk; a crash   *)
(* may end it after each of them.  The applications log in once per        *)
(* process: logout ends it.                                                *)
(***************************************************************************)
EXTENDS Integers, Sequences, FiniteSets

CONSTANTS
  Seeds,     \* the seeds of profiles of the new type
  Creds,     \* hashes of login and password
  Nobody,    \* no profile, no credentials, no seed
  MaxIndex,  \* bound: the largest index of a derived key
  MaxRandom, \* bound: random keys, numbered from 0
  MaxCrashes \* bound: crashes

Derived(s, i) == <<s, i>>
Random(k)     == <<"random", k>>
Legacy        == Random(0) \* a profile of the old type, without a main actor

Actors     == (Seeds \X (0..MaxIndex)) \cup ({"random"} \X (0..MaxRandom))
ProfileIds == {Derived(s, 0) : s \in Seeds} \cup {Legacy}
Files      == [kind : {"none", "torn", "seed", "keys"}, cred : Creds \cup {Nobody},
               keys : SUBSET Actors]

ASSUME ProfilesAssumption ==
  /\ "random" \notin Seeds /\ Nobody \notin Creds \cup Seeds \cup ProfileIds
  /\ MaxIndex \in Nat \ {0, 1} /\ MaxRandom \in Nat /\ MaxCrashes \in Nat

VARIABLES
  disk,    \* the profile files, the list of profiles, the index of actors
  current, \* current_profile_
  keys,    \* actors_ of the current PrivateProfile
  cred,    \* hash_ of the current PrivateProfile
  type,    \* profile_type_
  seed,    \* profile_seed: its seed and the length of its actors_
  ran,     \* the static dogenerated of dogenerate()
  used,    \* seeds and random keys generated so far
  crashes, \* crashes so far
  exports, \* exported profiles
  known,   \* known[p]: credentials the user holds for p         (history)
  given,   \* given[p]: actors the user was shown under p        (history)
  astray,  \* keys of sessions whose seed file was replaced      (history)
  hidden   \* profiles a crash left off the list                 (history)

session == <<current, keys, cred, type, seed, ran>>
history == <<known, given, astray>>
vars    == <<disk, session, used, crashes, exports, history, hidden>>

None == [kind |-> "none", cred |-> Nobody, keys |-> {}]

TypeOK ==
  /\ disk \in [file : [ProfileIds -> Files], list : SUBSET ProfileIds, index : SUBSET Actors]
  /\ current \in ProfileIds \cup {Nobody} /\ keys \subseteq Actors
  /\ cred \in Creds \cup {Nobody} /\ type \in {"Old", "New"}
  /\ seed \in [of : Seeds \cup {Nobody}, len : 0..(MaxIndex + 1)] /\ ran \in BOOLEAN
  /\ used \subseteq Seeds \cup (0..MaxRandom) /\ crashes \in 0..MaxCrashes
  /\ known \in [ProfileIds -> SUBSET Creds] /\ given \in [ProfileIds -> SUBSET Actors]
  /\ astray \subseteq Actors /\ hidden \subseteq ProfileIds

-----------------------------------------------------------------------------
(* The disk.                                                               *)

SeedFile(c)     == [kind |-> "seed", cred |-> c, keys |-> {}]
KeysFile(ks, c) == [kind |-> "keys", cred |-> c, keys |-> ks]

(* A sequence of disk states continued by one more operation.              *)
Then(steps, Op(_)) == steps \o Op(steps[Len(steps)])

(* Mutant of Replace: the file is truncated and written in place.          *)
ReplaceInPlace(d, p, f) ==
  <<[d EXCEPT !.file[p] = [None EXCEPT !.kind = "torn"]], [d EXCEPT !.file[p] = f]>>

(* A profile file is written beside its target and renamed over it.        *)
Replace(d, p, f) == <<[d EXCEPT !.file[p] = f]>>

(* Mutant of Listed: the list is written without what it held.             *)
ListedAlone(d, p) == <<[d EXCEPT !.list = {}], [d EXCEPT !.list = {p}]>>

(* The list is read, truncated when it is opened again, and then written.  *)
Listed(d, p) == <<[d EXCEPT !.list = {}], [d EXCEPT !.list = @ \cup {p}]>>
Unlisted(d, p) == <<[d EXCEPT !.list = {}], [d EXCEPT !.list = @ \ {p}]>>

(* store_new_actor and save_actor of ActorIndex.                           *)
Indexed(d, ks) == <<[d EXCEPT !.index = @ \cup ks]>>

(* The process ends; memory is gone.                                       *)
Stopped ==
  /\ current' = Nobody /\ keys' = {} /\ cred' = Nobody /\ type' = "Old"
  /\ seed' = [of |-> Nobody, len |-> 0] /\ ran' = FALSE

(* The process ends after some of the steps of an operation.  When the list *)
(* was truncated, the profiles that were on it are hidden from the login    *)
(* until an operation writes them to a list again.                          *)
Interrupted(steps) ==
  /\ crashes < MaxCrashes /\ crashes' = crashes + 1
  /\ \E k \in 1..(Len(steps) - 1) : disk' = steps[k]
  /\ hidden' = IF disk'.list = {} THEN hidden \cup disk.list ELSE hidden
  /\ Stopped /\ UNCHANGED exports

Finished(steps) ==
  disk' = steps[Len(steps)] /\ hidden' = hidden \ disk'.list /\ UNCHANGED crashes

-----------------------------------------------------------------------------
(* Keys.                                                                   *)

(* Indices from 2 on whose actors are all indexed: generate_other.         *)
Others(s, index) ==
  {i \in 2..MaxIndex : \A j \in 2..i : Derived(s, j) \in index}

SeedKeys(s, index) ==
  {Derived(s, 0), Derived(s, 1)} \cup {Derived(s, i) : i \in Others(s, index)}

(* The keys in p's file, or derived from it with the index as it is.       *)
Held(d, p) ==
  CASE d.file[p].kind = "keys" -> d.file[p].keys
    [] d.file[p].kind = "seed" -> SeedKeys(p[1], d.index)
    [] OTHER -> {}

(* What a login to p finds: it tries the profiles of the list only.        *)
Recoverable(d, p) == IF p \in d.list THEN Held(d, p) ELSE {}

Converted == type = "New" /\ disk.file[current].kind = "keys"

(* The user is shown keys of p; those of a converted session go astray.    *)
Shown(p, ks, lost) ==
  /\ given' = [given EXCEPT ![p] = IF known[p] = {} THEN {} ELSE @ \cup ks]
  /\ astray' = astray \cup lost

-----------------------------------------------------------------------------
(* Operations of a session.                                                *)

(* create_profile: keys file, index, list, and the seed file over the      *)
(* keys file.                                                              *)
Creating(s, c) ==
  LET p  == Derived(s, 0)
      ks == {p, Derived(s, 1)}
      a  == Then(<<disk>>, LAMBDA d : Replace(d, p, KeysFile(ks, c)))
      b  == Then(a, LAMBDA d : Indexed(d, {p}))
      e  == Then(b, LAMBDA d : Indexed(d, ks))
      f  == Then(e, LAMBDA d : Listed(d, p))
  IN  Then(f, LAMBDA d : Replace(d, p, SeedFile(c)))

CreateProfile(s, c) ==
  /\ current = Nobody /\ s \notin used /\ used' = used \cup {s}
  /\ LET p == Derived(s, 0)
         steps == Creating(s, c)
     IN  \/ /\ Finished(steps)
            /\ current' = p /\ keys' = {p, Derived(s, 1)} /\ cred' = c
            /\ type' = "New" /\ seed' = [of |-> s, len |-> 2]
            /\ known' = [known EXCEPT ![p] = {c}]
            /\ given' = [given EXCEPT ![p] = {p, Derived(s, 1)}]
            /\ UNCHANGED <<ran, exports, astray>>
         \/ Interrupted(steps) /\ UNCHANGED history

(* find_profiles: the listed profiles the credentials open.                *)
Opened(c) == {p \in disk.list : disk.file[p].kind \in {"seed", "keys"} /\ disk.file[p].cred = c}

(* load_profile of a keys file: unknown actors are indexed; a profile      *)
(* without a main actor gets one, indexed before the file is saved.        *)
LoadKeys(p, c) ==
  LET f    == disk.file[p]
      lone == Cardinality(f.keys) = 1
      k    == CHOOSE n \in 0..MaxRandom : n \notin used /\ \A m \in 0..(n-1) : m \in used
      ks   == IF lone THEN f.keys \cup {Random(k)} ELSE f.keys
      a    == IF lone THEN Then(Then(<<disk>>, LAMBDA d : Indexed(d, {Random(k)})),
                                LAMBDA d : Replace(d, p, KeysFile(ks, c)))
              ELSE <<disk>>
      steps == Then(a, LAMBDA d : Indexed(d, ks))
  IN  /\ f.kind = "keys"
      /\ lone => (0..MaxRandom) \ used # {}
      /\ used' = IF lone THEN used \cup {k} ELSE used
      /\ \/ /\ Finished(steps)
            /\ current' = p /\ keys' = ks /\ cred' = c
            /\ known' = [known EXCEPT ![p] = {c}]
            /\ given' = [given EXCEPT ![p] = @ \cup ks]
            /\ UNCHANGED <<type, seed, ran, exports, astray>>
         \/ Interrupted(steps) /\ UNCHANGED history

(* load_profile of a seed file: the first two keys and those whose actors  *)
(* the index knows.                                                        *)
LoadSeed(p, c) ==
  LET ks    == SeedKeys(p[1], disk.index)
      steps == Then(<<disk>>, LAMBDA d : Listed(d, p))
  IN  /\ disk.file[p].kind = "seed"
      /\ \/ /\ Finished(steps)
            /\ current' = p /\ keys' = ks /\ cred' = c /\ type' = "New"
            /\ seed' = [of |-> p[1], len |-> Cardinality(ks)]
            /\ known' = [known EXCEPT ![p] = {c}]
            /\ given' = [given EXCEPT ![p] = @ \cup ks]
            /\ UNCHANGED <<ran, exports, astray>>
         \/ Interrupted(steps) /\ UNCHANGED history
      /\ UNCHANGED used

(* load, or load_profile with one of several profiles.                     *)
Login(p, c) == current = Nobody /\ p \in Opened(c) /\ (LoadKeys(p, c) \/ LoadSeed(p, c))

(* Mutant of Saved: add_wallet saves only what a seed cannot restore ...   *)
(* the wrong way round.                                                    *)
SavedInverted(d, ks, save) ==
  IF save THEN <<>> ELSE Replace(d, current, KeysFile(keys \cup ks, cred))

(* PrivateProfile::add_wallet.                                             *)
Saved(d, ks, save) ==
  IF save THEN Replace(d, current, KeysFile(keys \cup ks, cred)) ELSE <<>>

(* create_wallet of a new profile: the key of the index profile_seed has   *)
(* reached, which does not grow with it; nothing is saved.                 *)
DerivedWallet ==
  LET a == Derived(seed.of, seed.len)
      steps == Then(Then(<<disk>>, LAMBDA d : Saved(d, {a}, FALSE)), LAMBDA d : Indexed(d, {a}))
  IN  /\ type = "New" /\ seed.len <= MaxIndex
      /\ \/ /\ Finished(steps) /\ keys' = keys \cup {a}
            /\ Shown(current, {a}, IF Converted THEN {a} ELSE {})
            /\ UNCHANGED <<current, cred, type, seed, ran, exports, known>>
         \/ Interrupted(steps) /\ UNCHANGED history
      /\ UNCHANGED used

(* create_wallet of an old profile, and create_service of both: a random   *)
(* key, and the keys file is saved.                                        *)
RandomWallet(k) ==
  LET a == Random(k)
      steps == Then(Then(<<disk>>, LAMBDA d : Saved(d, {a}, TRUE)), LAMBDA d : Indexed(d, {a}))
  IN  /\ k \notin used /\ \A m \in 0..(k-1) : m \in used
      /\ used' = used \cup {k}
      /\ \/ /\ Finished(steps) /\ keys' = keys \cup {a} /\ Shown(current, {a}, {})
            /\ UNCHANGED <<current, cred, type, seed, ran, exports, known>>
         \/ Interrupted(steps) /\ UNCHANGED history

CreateWallet  == current # Nobody /\ (DerivedWallet \/ (type = "Old" /\ \E k \in 0..MaxRandom : RandomWallet(k)))
CreateService == current # Nobody /\ type = "New" /\ \E k \in 0..MaxRandom : RandomWallet(k)

(* set_hash and reencrypt.                                                 *)
Rehashed(new) == cred' = new

(* change_credentials: the seed file, or the keys file, under the new      *)
(* hash.  Keys a replaced seed file held are lost here.                    *)
ChangeCredentials(new) ==
  LET f     == IF type = "New" THEN SeedFile(new) ELSE KeysFile(keys, new)
      steps == Then(<<disk>>, LAMBDA d : Replace(d, current, f))
  IN  /\ current # Nobody /\ new # cred
      /\ known[current] # {} \* the user has not deleted the profile
      /\ astray' = IF Converted THEN astray \cup keys ELSE astray
      /\ \/ /\ Finished(steps) /\ Rehashed(new)
            /\ known' = [known EXCEPT ![current] = {new}]
            /\ UNCHANGED <<current, keys, type, seed, ran, exports, given>>
         \/ /\ Interrupted(steps)
            /\ known' = [known EXCEPT ![current] = @ \cup {new}]
            /\ UNCHANGED given
      /\ UNCHANGED used

(* delete_current_profile: the file, then the list; the session goes on.   *)
DeleteProfile ==
  LET a     == Then(<<disk>>, LAMBDA d : <<[d EXCEPT !.file[current] = None]>>)
      steps == Then(a, LAMBDA d : Unlisted(d, current))
  IN  /\ current # Nobody
      /\ \/ Finished(steps) /\ UNCHANGED <<session, exports>>
         \/ Interrupted(steps)
      /\ known' = [known EXCEPT ![current] = {}] /\ given' = [given EXCEPT ![current] = {}]
      /\ UNCHANGED <<used, astray>>

(* Actors of other devices are indexed by the exchange of actors, whose    *)
(* end calls dogenerate: once per process the derived keys that are        *)
(* indexed join the session.                                               *)
Sync(got, ended) ==
  LET d == Indexed(disk, got)[1]
      do == ended /\ type = "New" /\ ~ran
  IN  /\ disk' = d
      /\ ran' = (ran \/ do)
      /\ keys' = IF do THEN keys \cup SeedKeys(seed.of, d.index) ELSE keys
      /\ seed' = IF do THEN [seed EXCEPT !.len = Cardinality(SeedKeys(seed.of, d.index))] ELSE seed
      /\ IF do THEN Shown(current, SeedKeys(seed.of, d.index),
                          IF Converted THEN SeedKeys(seed.of, d.index) \ keys ELSE {})
               ELSE UNCHANGED <<given, astray>>
      /\ UNCHANGED <<current, cred, type, used, crashes, exports, known, hidden>>

(* logout: the process ends.                                               *)
Logout == current # Nobody /\ Stopped /\ UNCHANGED <<disk, used, crashes, exports, history, hidden>>

Crash == /\ crashes < MaxCrashes /\ crashes' = crashes + 1
         /\ Stopped /\ UNCHANGED <<disk, used, exports, history, hidden>>

-----------------------------------------------------------------------------
(* Export and import.                                                      *)

(* export_profile: a new profile's file as it is, an old one's keys under  *)
(* the session's hash.  Only a seed file is text (base64).                 *)
Export ==
  LET f == IF type = "New" THEN disk.file[current] ELSE KeysFile(keys, cred)
  IN  /\ current # Nobody /\ f.kind # "none"
      /\ exports = {} /\ exports' = {[of |-> current, file |-> f]}
      /\ UNCHANGED <<disk, session, used, crashes, history, hidden>>

(* An interrupted import: the file may be the old or the new one.          *)
Attempted(p, c) == known' = [known EXCEPT ![p] = IF @ = {} THEN {} ELSE @ \cup {c}]

(* import_profile_file decodes base64 and finds a seed; import_profile of  *)
(* undecoded data finds keys.  Both need the hash of the export, and       *)
(* replace what the profile's file held.                                   *)
Import(b) ==
  LET p     == b.of
      index == IF b.file.kind = "keys" THEN b.file.keys ELSE {}
      steps == Then(Then(Then(<<disk>>, LAMBDA d : Replace(d, p, b.file)),
                         LAMBDA d : Indexed(d, index)), LAMBDA d : Listed(d, p))
  IN  /\ current = Nobody
      /\ \/ Finished(steps) /\ UNCHANGED <<session, exports>>
            /\ known' = [known EXCEPT ![p] = {b.file.cred}]
         \/ Interrupted(steps) /\ Attempted(p, b.file.cred)
      /\ given' = [given EXCEPT ![p] = IF known'[p] = {} THEN {} ELSE Held(disk', p)]
      /\ UNCHANGED <<used, astray>>

(* import_seed_phrase with the words of a seed; the C binding then asks    *)
(* for the current profile, which is fatal before a login.                 *)
ImportPhrase(s, c) ==
  LET p     == Derived(s, 0)
      steps == Then(Then(<<disk>>, LAMBDA d : Replace(d, p, SeedFile(c))), LAMBDA d : Listed(d, p))
  IN  /\ current = Nobody /\ s \in used
      /\ \/ Finished(steps) /\ Stopped /\ UNCHANGED exports
            /\ known' = [known EXCEPT ![p] = {c}]
         \/ Interrupted(steps) /\ Attempted(p, c)
      /\ given' = [given EXCEPT ![p] = IF known'[p] = {} THEN {} ELSE Held(disk', p)]
      /\ UNCHANGED <<used, astray>>

-----------------------------------------------------------------------------

Init ==
  /\ \E c \in Creds :
       /\ disk = [file |-> [p \in ProfileIds |-> IF p = Legacy THEN KeysFile({p}, c) ELSE None],
                  list |-> {Legacy}, index |-> {Legacy}]
       /\ known = [p \in ProfileIds |-> IF p = Legacy THEN {c} ELSE {}]
  /\ given = [p \in ProfileIds |-> IF p = Legacy THEN {Legacy} ELSE {}]
  /\ current = Nobody /\ keys = {} /\ cred = Nobody /\ type = "Old"
  /\ seed = [of |-> Nobody, len |-> 0] /\ ran = FALSE
  /\ used = {0} /\ crashes = 0 /\ exports = {} /\ astray = {} /\ hidden = {}

Next ==
  \/ \E s \in Seeds, c \in Creds : CreateProfile(s, c) \/ ImportPhrase(s, c)
  \/ \E p \in ProfileIds, c \in Creds : Login(p, c)
  \/ CreateWallet \/ CreateService \/ DeleteProfile \/ Logout \/ Crash \/ Export
  \/ \E c \in Creds : ChangeCredentials(c)
  \/ \E s \in Seeds \cap used, i \in 2..MaxIndex, ended \in BOOLEAN : Sync({Derived(s, i)}, ended)
  \/ \E b \in exports : Import(b)

Spec == Init /\ [][Next]_vars

-----------------------------------------------------------------------------
(* Properties.                                                             *)

(* The file of a profile that the user was given and has not deleted opens *)
(* with credentials the user holds, whichever step of a change of          *)
(* credentials, a save, a login or an import a crash came after (temporary *)
(* file and rename); and a login with them finds the profile, unless a     *)
(* crash came between the truncation of the list and its rewriting, by     *)
(* this or by another profile's operation, and no list has named it since  *)
(* (insert_to_profile_set, find_profiles).                                 *)
ProfileOpens ==
  \A p \in ProfileIds : known[p] # {} =>
    /\ disk.file[p].kind \in {"seed", "keys"} /\ disk.file[p].cred \in known[p]
    /\ p \notin hidden => \E c \in known[p] : p \in Opened(c)

(* Every key the user was shown is in the profile's file, or derived from  *)
(* its seed with the help of the index, and a login finds it, with the     *)
(* same exception: a profile that a crash left off the list.  Keys of a    *)
(* session whose seed file create_service replaced are not promised: those *)
(* derived later are not saved, and change_credentials writes the seed     *)
(* over all of them.                                                       *)
KeysKept ==
  \A p \in ProfileIds :
    /\ given[p] \ astray \subseteq Held(disk, p)
    /\ known[p] # {} /\ p \notin hidden => given[p] \ astray \subseteq Recoverable(disk, p)

=============================================================================
