-------------------------------- MODULE KeyStore --------------------------------
(***************************************************************************)
(* The key and IV files (Encryption.cpp).  Whoever stores a password       *)
(* encrypts it: encryptString makes the two files if one is missing, reads *)
(* both and encrypts.  The daemons decrypt: decryptString reads both files *)
(* again, at any later moment and in another process.  The encrypting      *)
(* process, of which there is one, may crash between any two steps; files  *)
(* may be removed from outside, or fail to open.                           *)
(*                                                                         *)
(* A file is absent, unusable (empty, or cut: its length after decoding is *)
(* not the one expected), or holds what one call generated, named by the   *)
(* number of the call.                                                     *)
(***************************************************************************)
EXTENDS Naturals

CONSTANTS
    Plain,          \* plaintexts
    Nothing,        \* the empty string
    Garbage,        \* what a wrong key or IV makes of a ciphertext by chance
    Absent, Unusable,   \* files
    MaxCalls,       \* bound: calls of encryptString
    MaxLosses       \* bound: crashes and removals

ASSUME KeyAssumption ==
    /\ {MaxCalls, MaxLosses} \subseteq Nat
    /\ Absent \notin Nat /\ Unusable \notin Nat /\ Absent # Unusable
    /\ Nothing \notin Plain /\ Garbage \notin Plain /\ Nothing # Garbage

VARIABLES
    key, iv,        \* AESKey, AESIV
    calls, losses,
    \* encryptString
    pc, plaintext,
    opened,         \* the files that AES_GenerateAndSaveKeys has opened
    k, v,           \* what was read of the files
    \* decryptString
    dpc, ciphertext, dk, dv,
    result,         \* what it last returned
    \* history
    given,          \* ciphertexts returned
    lost,           \* generations of which a file was removed, or there and not
                    \* opened when a call looked for it
    blind           \* the current call could not open a file that was there

files == <<key, iv>>
encryptor == <<calls, pc, plaintext, opened, k, v>>
decryptor == <<dpc, ciphertext, dk, dv, result>>
history == <<given, lost, blind>>
vars == <<files, losses, encryptor, decryptor, history>>

Ciphertext == [key : 1..MaxCalls, iv : 1..MaxCalls, text : Plain]
Usable(f) == f \in Nat

--------------------------------------------------------------------------------
(***************************************************************************)
(* encryptString.                                                          *)
(***************************************************************************)
Goto(step) == pc' = step /\ UNCHANGED <<calls, plaintext>>
Return == pc' = "idle" /\ plaintext' = Nothing /\ opened' = {} /\ k' = 0 /\ v' = 0 /\ UNCHANGED calls

Loss == losses < MaxLosses /\ losses' = losses + 1

\* Mutant: an unusable file is taken for one that is missing.
MutantBothThere == Usable(key) /\ Usable(iv)
\* Mutant: every call makes its own key.
MutantNeverThere == FALSE
BothThere == key # Absent /\ iv # Absent

\* Both files are opened for reading; if one cannot be, both are made.  That is
\* so too if the file is there and opening it fails, for want of descriptors say.
Encrypt ==
    /\ pc = "idle" /\ calls < MaxCalls
    /\ calls' = calls + 1
    /\ plaintext' \in Plain
    /\ \/ /\ pc' = IF BothThere THEN "readKey" ELSE "openKey"
          /\ blind' = FALSE /\ UNCHANGED <<losses, lost>>
       \/ /\ BothThere /\ Loss
          /\ pc' = "openKey"
          /\ blind' = TRUE /\ lost' = lost \cup {key, iv}
    /\ UNCHANGED <<files, opened, k, v, decryptor, given>>

\* Opening truncates.  The IV file is opened whether or not the key file was.
OpenKey ==
    /\ pc = "openKey" /\ Goto("openIV")
    /\ \/ key' = Unusable /\ opened' = opened \cup {"key"}
       \/ UNCHANGED <<key, opened>>
    /\ UNCHANGED <<iv, losses, k, v, decryptor, history>>

OpenIV ==
    /\ pc = "openIV"
    /\ \/ iv' = Unusable /\ opened' = opened \cup {"iv"} /\ Goto("write") /\ UNCHANGED <<k, v>>
       \/ Return /\ UNCHANGED iv
    /\ UNCHANGED <<key, losses, decryptor, history>>

\* Either file could not be opened, or both are written, the key first;
\* whether they were is not looked at.
WriteKey ==
    /\ pc = "write"
    /\ \/ "key" \notin opened /\ Return /\ UNCHANGED key
       \/ /\ "key" \in opened /\ Goto("writeIV")
          /\ key' \in {calls, Unusable}
          /\ UNCHANGED <<opened, k, v>>
    /\ UNCHANGED <<iv, losses, decryptor, history>>

WriteIV ==
    /\ pc = "writeIV" /\ Goto("readKey")
    /\ iv' \in {calls, Unusable}
    /\ UNCHANGED <<key, losses, opened, k, v, decryptor, history>>

AES_GenerateAndSaveKeys == OpenKey \/ OpenIV \/ WriteKey \/ WriteIV

\* Mutant: the key that was generated is used, whatever the file holds.
MutantReadKey ==
    /\ pc = "readKey"
    /\ \/ Usable(key) \/ opened # {}
    /\ k' = IF opened # {} THEN calls ELSE key
    /\ Goto("readIV") /\ UNCHANGED <<opened, v>>
    /\ UNCHANGED <<files, losses, decryptor, history>>

ReadKey ==
    /\ pc = "readKey"
    /\ \/ Usable(key) /\ k' = key /\ Goto("readIV") /\ UNCHANGED <<opened, v>>
       \/ Return
    /\ UNCHANGED <<files, losses, decryptor, history>>

ReadIV ==
    /\ pc = "readIV"
    /\ \/ Usable(iv) /\ v' = iv /\ Goto("encrypt") /\ UNCHANGED <<opened, k>>
       \/ Return
    /\ UNCHANGED <<files, losses, decryptor, history>>

ReturnCiphertext ==
    /\ pc = "encrypt" /\ Return
    /\ given' = given \cup {[key |-> k, iv |-> v, text |-> plaintext]}
    /\ UNCHANGED <<files, losses, decryptor, lost, blind>>

encryptString ==
    Encrypt \/ AES_GenerateAndSaveKeys \/ ReadKey \/ ReadIV \/ ReturnCiphertext

--------------------------------------------------------------------------------
(***************************************************************************)
(* decryptString.  A wrong key or IV mostly leaves a wrong padding, which  *)
(* is refused; and sometimes does not.                                     *)
(***************************************************************************)
DReturn(s) == dpc' = "idle" /\ result' = s /\ dk' = 0 /\ dv' = 0 /\ UNCHANGED ciphertext

Decrypt ==
    /\ dpc = "idle"
    /\ ciphertext' \in given
    /\ dpc' = "checkKey" /\ result' = Nothing
    /\ UNCHANGED <<dk, dv, files, losses, encryptor, history>>

DecryptChecks ==
    /\ \/ dpc = "checkKey" /\ key # Absent /\ dpc' = "checkIV"
       \/ dpc = "checkIV" /\ iv # Absent /\ dpc' = "readKey"
    /\ UNCHANGED <<ciphertext, dk, dv, result, files, losses, encryptor, history>>

DecryptReads ==
    /\ \/ dpc = "readKey" /\ Usable(key) /\ dk' = key /\ dpc' = "readIV" /\ UNCHANGED dv
       \/ dpc = "readIV" /\ Usable(iv) /\ dv' = iv /\ dpc' = "decrypt" /\ UNCHANGED dk
    /\ UNCHANGED <<ciphertext, result, files, losses, encryptor, history>>

\* A file could not be opened, or its contents are unusable.
DecryptRefuses ==
    /\ dpc \in {"checkKey", "checkIV", "readKey", "readIV"}
    /\ DReturn(Nothing)
    /\ UNCHANGED <<files, losses, encryptor, history>>

DecryptFinal ==
    /\ dpc = "decrypt"
    /\ \E s \in {Nothing, IF dk = ciphertext.key /\ dv = ciphertext.iv THEN ciphertext.text
                          ELSE Garbage} : DReturn(s)
    /\ UNCHANGED <<files, losses, encryptor, history>>

decryptString == Decrypt \/ DecryptChecks \/ DecryptReads \/ DecryptRefuses \/ DecryptFinal

--------------------------------------------------------------------------------
EncryptorCrashes == Loss /\ Return /\ UNCHANGED <<files, decryptor, history>>

FileRemoved ==
    /\ Loss
    /\ \/ key' = Absent /\ lost' = lost \cup {key} /\ UNCHANGED iv
       \/ iv' = Absent /\ lost' = lost \cup {iv} /\ UNCHANGED key
    /\ UNCHANGED <<encryptor, decryptor, given, blind>>

Init ==
    /\ key = Absent /\ iv = Absent /\ calls = 0 /\ losses = 0
    /\ pc = "idle" /\ plaintext = Nothing /\ opened = {} /\ k = 0 /\ v = 0
    /\ dpc = "idle" /\ dk = 0 /\ dv = 0 /\ result = Nothing
    /\ ciphertext \in [key : {0}, iv : {0}, text : {Nothing}]
    /\ given = {} /\ lost = {} /\ blind = FALSE

Next == encryptString \/ decryptString \/ EncryptorCrashes \/ FileRemoved

Spec == Init /\ [][Next]_vars

--------------------------------------------------------------------------------
Kept(c) == c.key \notin lost /\ c.iv \notin lost

(***************************************************************************)
(* What was encrypted can be decrypted: a ciphertext that encryptString     *)
(* returned was made of what is in the files now, whatever failed while     *)
(* they were made and whatever calls came since, unless one was removed or  *)
(* could not be opened when a call looked for it.                           *)
(***************************************************************************)
GivenIsReadable == \A c \in given : Kept(c) => key = c.key /\ iv = c.iv

(***************************************************************************)
(* The password that an SNMP user is loaded with is the one that was        *)
(* stored, or none at all (and the trap is not sent), as long as the files  *)
(* it was encrypted with are kept: no decryption meets others halfway.      *)
(***************************************************************************)
DecryptsOrRefuses ==
    dpc = "idle" /\ Kept(ciphertext) => result \in {Nothing, ciphertext.text}

(***************************************************************************)
(* Files that are both there are left alone: only a call that did not find  *)
(* or could not open one writes them.  So no other call replaces a key that *)
(* a ciphertext needs; and none repairs a file that a crash left unusable.  *)
(***************************************************************************)
CompleteFilesKept ==
    [][key # Absent /\ iv # Absent /\ pc \notin {"openIV", "write", "writeIV"} /\ ~blind /\ ~FileRemoved
        => files' = files]_vars
================================================================================
