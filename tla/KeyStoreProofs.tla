------------------------------ MODULE KeyStoreProofs ------------------------------
(***************************************************************************)
(* Theorems about the key and IV files, for any number of calls, crashes   *)
(* and removals.                                                           *)
(***************************************************************************)
EXTENDS KeyStore, TLAPS

Making == {"openKey", "openIV", "write", "writeIV"}

\* Ciphertexts are made of generated keys and IVs.
GivenTyped == \A c \in given : c.key \in Nat /\ c.iv \in Nat

\* No ciphertext depends on files that a call has set out to make.
NothingAtStake == pc \in Making => \A c \in given : ~Kept(c)

\* What the encryptor has read is still in the files, unless it was lost.
ReadHolds ==
    /\ pc \in {"readIV", "encrypt"} => k \in Nat /\ (k \notin lost => key = k)
    /\ pc = "encrypt" => v \in Nat /\ (v \notin lost => iv = v)

\* What the decryptor has read is what the ciphertext was made of.
DecryptorHolds ==
    /\ dpc # "idle" => ciphertext \in given
    /\ dpc \in {"readIV", "decrypt"} /\ Kept(ciphertext) => dk = ciphertext.key
    /\ dpc = "decrypt" /\ Kept(ciphertext) => dv = ciphertext.iv

IInv ==
    /\ GivenTyped /\ NothingAtStake /\ ReadHolds /\ DecryptorHolds
    /\ GivenIsReadable /\ DecryptsOrRefuses

LEMMA InitInv == Init => IInv
BY DEF Init, IInv, GivenTyped, NothingAtStake, Making, ReadHolds, DecryptorHolds,
       GivenIsReadable, DecryptsOrRefuses

\* A ciphertext that is not lost needs both files, so that neither is missing.
LEMMA KeptMeansThere ==
    ASSUME IInv, NEW c \in given, Kept(c)
    PROVE  key = c.key /\ iv = c.iv /\ key \in Nat /\ iv \in Nat
           /\ key # Absent /\ iv # Absent
BY KeyAssumption DEF IInv, GivenTyped, GivenIsReadable

\* The encryptor's steps leave the decryptor alone, and nothing lost is found again.
LEMMA DecryptorUndisturbed ==
    ASSUME IInv, UNCHANGED decryptor, given \subseteq given', lost \subseteq lost'
    PROVE  DecryptorHolds' /\ DecryptsOrRefuses'
BY DEF IInv, decryptor, DecryptorHolds, DecryptsOrRefuses, Kept

LEMMA EncryptStep ==
    ASSUME IInv, Encrypt
    PROVE  IInv'
<1>1. UNCHANGED <<files, decryptor, given>> /\ lost \subseteq lost' /\ pc' \in {"readKey", "openKey"}
  BY DEF Encrypt
<1>2. ASSUME pc' = "openKey", NEW c \in given PROVE ~Kept(c)'
  <2> SUFFICES ASSUME Kept(c)' PROVE FALSE
    OBVIOUS
  <2>1. Kept(c)
    BY <1>1 DEF Kept
  <2>2. key = c.key /\ key # Absent /\ iv # Absent
    BY <2>1, KeptMeansThere
  <2>3. key \notin lost'
    BY <2>2 DEF Kept
  <2>. QED  BY <1>2, <2>2, <2>3 DEF Encrypt, BothThere
<1>. QED
  BY <1>1, <1>2, DecryptorUndisturbed
  DEF IInv, files, GivenTyped, NothingAtStake, Making, ReadHolds, GivenIsReadable, Kept

LEMMA MakeStep ==
    ASSUME IInv, AES_GenerateAndSaveKeys
    PROVE  IInv'
<1>1. /\ UNCHANGED <<decryptor, history>> /\ pc \in Making
      /\ pc' \in {"openIV", "write", "writeIV", "readKey", "idle"}
  BY DEF AES_GenerateAndSaveKeys, OpenKey, OpenIV, WriteKey, WriteIV, Making, Goto, Return
<1>2. \A c \in given : ~Kept(c)
  BY <1>1 DEF IInv, NothingAtStake
<1>. QED
  BY <1>1, <1>2, DecryptorUndisturbed
  DEF IInv, history, GivenTyped, NothingAtStake, ReadHolds, GivenIsReadable, Kept

LEMMA ReadStep ==
    ASSUME IInv, ReadKey \/ ReadIV
    PROVE  IInv'
<1>1. UNCHANGED <<files, decryptor, history>>
  BY DEF ReadKey, ReadIV
<1>2. ReadHolds' /\ pc' \notin Making
  BY <1>1 DEF ReadKey, ReadIV, Goto, Return, Usable, IInv, ReadHolds, files, history, Making
<1>. QED
  BY <1>1, <1>2, DecryptorUndisturbed
  DEF IInv, files, history, GivenTyped, NothingAtStake, GivenIsReadable, Kept

LEMMA ReturnStep ==
    ASSUME IInv, ReturnCiphertext
    PROVE  IInv'
<1> DEFINE c == [key |-> k, iv |-> v, text |-> plaintext]
<1>1. /\ UNCHANGED <<files, decryptor, lost>> /\ pc = "encrypt" /\ pc' = "idle"
      /\ given' = given \cup {c}
  BY DEF ReturnCiphertext, Return
<1>2. c.key = k /\ c.iv = v /\ k \in Nat /\ v \in Nat /\ (Kept(c) => key = k /\ iv = v)
  BY <1>1 DEF IInv, ReadHolds, Kept
<1>3. GivenTyped' /\ GivenIsReadable'
  BY <1>1, <1>2 DEF IInv, files, GivenTyped, GivenIsReadable, Kept
<1>. QED
  BY <1>1, <1>3, DecryptorUndisturbed DEF IInv, NothingAtStake, Making, ReadHolds

LEMMA DecryptStep ==
    ASSUME IInv, decryptString
    PROVE  IInv'
<1>1. UNCHANGED <<files, encryptor, history>>
  BY DEF decryptString, Decrypt, DecryptChecks, DecryptReads, DecryptRefuses, DecryptFinal
<1>2. GivenTyped' /\ NothingAtStake' /\ ReadHolds' /\ GivenIsReadable'
  BY <1>1 DEF IInv, files, encryptor, history, GivenTyped, NothingAtStake, ReadHolds,
              GivenIsReadable, Kept
<1> SUFFICES DecryptorHolds' /\ DecryptsOrRefuses'
  BY <1>2 DEF IInv
<1>3. CASE Decrypt
  BY <1>3 DEF Decrypt, history, DecryptorHolds, DecryptsOrRefuses, IInv, Kept
<1>4. CASE DecryptChecks
  BY <1>4 DEF DecryptChecks, history, DecryptorHolds, DecryptsOrRefuses, IInv, Kept
<1>5. CASE DecryptReads
  <2>1. ciphertext \in given /\ ciphertext' = ciphertext /\ lost' = lost /\ given' = given
    BY <1>5 DEF DecryptReads, history, IInv, DecryptorHolds
  <2>2. Kept(ciphertext) => key = ciphertext.key /\ iv = ciphertext.iv
    BY <2>1, KeptMeansThere
  <2>. QED
    BY <1>5, <2>1, <2>2 DEF DecryptReads, DecryptorHolds, DecryptsOrRefuses, IInv, Kept
<1>6. CASE DecryptRefuses
  BY <1>6 DEF DecryptRefuses, DReturn, history, DecryptorHolds, DecryptsOrRefuses, IInv, Kept
<1>7. CASE DecryptFinal
  BY <1>7 DEF DecryptFinal, DReturn, history, DecryptorHolds, DecryptsOrRefuses, IInv, Kept
<1>. QED
  BY <1>3, <1>4, <1>5, <1>6, <1>7 DEF decryptString

LEMMA LossStep ==
    ASSUME IInv, EncryptorCrashes \/ FileRemoved
    PROVE  IInv'
<1>1. CASE EncryptorCrashes
  BY <1>1, DecryptorUndisturbed
  DEF EncryptorCrashes, Return, IInv, files, history, GivenTyped, NothingAtStake, Making,
      ReadHolds, GivenIsReadable, Kept
<1>2. CASE FileRemoved
  <2>1. /\ UNCHANGED <<encryptor, decryptor, given>> /\ lost \subseteq lost'
        /\ key' = key \/ key \in lost'
        /\ iv' = iv \/ iv \in lost'
    BY <1>2 DEF FileRemoved
  <2>. QED
    BY <2>1, DecryptorUndisturbed
    DEF IInv, encryptor, GivenTyped, NothingAtStake, ReadHolds, GivenIsReadable, Kept
<1>. QED  BY <1>1, <1>2

LEMMA StepInv == IInv /\ [Next]_vars => IInv'
<1> SUFFICES ASSUME IInv, [Next]_vars PROVE IInv'
  OBVIOUS
<1>1. CASE UNCHANGED vars
  BY <1>1
  DEF vars, files, encryptor, decryptor, history, IInv, GivenTyped, NothingAtStake, ReadHolds,
      DecryptorHolds, GivenIsReadable, DecryptsOrRefuses, Kept
<1>. QED
  BY <1>1, EncryptStep, MakeStep, ReadStep, ReturnStep, DecryptStep, LossStep
  DEF Next, encryptString

LEMMA Invariant == Spec => []IInv
BY InitInv, StepInv, PTL DEF Spec

(***************************************************************************)
(* A ciphertext that was returned is readable from the files of now, unless *)
(* one of those it was made of is gone (encryptString reads back what it    *)
(* has written before it encrypts).                                         *)
(***************************************************************************)
THEOREM WhatIsGivenIsReadable == Spec => []GivenIsReadable
<1>1. IInv => GivenIsReadable
  BY DEF IInv
<1>. QED  BY <1>1, Invariant, PTL

(***************************************************************************)
(* decryptString returns what was encrypted or the empty string, unless a   *)
(* file that the ciphertext was made of is gone.                            *)
(***************************************************************************)
THEOREM DecryptionNeverGarbles == Spec => []DecryptsOrRefuses
<1>1. IInv => DecryptsOrRefuses
  BY DEF IInv
<1>. QED  BY <1>1, Invariant, PTL

--------------------------------------------------------------------------------
\* A call that could open what was there makes the files because one is missing;
\* it is still missing when the first of them is opened for writing.
OneMissing == pc = "openKey" /\ ~blind => key = Absent \/ iv = Absent

LEMMA OneMissingStep == OneMissing /\ [Next]_vars => OneMissing'
<1> SUFFICES ASSUME OneMissing, [Next]_vars, pc' = "openKey", ~blind'
             PROVE  key' = Absent \/ iv' = Absent
  BY DEF OneMissing
<1>1. CASE Encrypt
  BY <1>1 DEF Encrypt, BothThere, files
<1>2. CASE FileRemoved
  BY <1>2 DEF FileRemoved
<1>3. CASE decryptString \/ UNCHANGED vars
  <2>1. UNCHANGED <<files, pc, blind>>
    BY <1>3 DEF decryptString, Decrypt, DecryptChecks, DecryptReads, DecryptRefuses, DecryptFinal,
                vars, encryptor, history
  <2>. QED  BY <2>1 DEF OneMissing, files
<1>4. CASE AES_GenerateAndSaveKeys \/ ReadKey \/ ReadIV \/ ReturnCiphertext \/ EncryptorCrashes
  <2>1. pc' # "openKey"
    BY <1>4 DEF AES_GenerateAndSaveKeys, OpenKey, OpenIV, WriteKey, WriteIV, ReadKey, ReadIV,
                ReturnCiphertext, EncryptorCrashes, Goto, Return
  <2>. QED  BY <2>1
<1>. QED  BY <1>1, <1>2, <1>3, <1>4 DEF Next, encryptString

(***************************************************************************)
(* Two files that are there are written only by a call that could not open *)
(* one of them, or found one missing when it began (the tests of           *)
(* encryptString before AES_GenerateAndSaveKeys).                          *)
(***************************************************************************)
THEOREM FilesAreKept == Spec => CompleteFilesKept
<1> DEFINE Settled == key # Absent /\ iv # Absent /\ pc \notin {"openIV", "write", "writeIV"}
                      /\ ~blind /\ ~FileRemoved
<1>1. OneMissing /\ [Next]_vars => [Settled => files' = files]_vars
  <2> SUFFICES ASSUME OneMissing, [Next]_vars, Settled
               PROVE  files' = files
    OBVIOUS
  <2>1. pc \notin {"openKey", "openIV", "write", "writeIV"}
    BY DEF OneMissing
  <2>2. ~AES_GenerateAndSaveKeys
    BY <2>1 DEF AES_GenerateAndSaveKeys, OpenKey, OpenIV, WriteKey, WriteIV
  <2>. QED
    BY <2>2 DEF Next, encryptString, decryptString, Encrypt, ReadKey, ReadIV, ReturnCiphertext,
                Decrypt, DecryptChecks, DecryptReads, DecryptRefuses, DecryptFinal,
                EncryptorCrashes, vars
<1>2. Init => OneMissing
  BY DEF Init, OneMissing
<1>. QED  BY <1>1, <1>2, OneMissingStep, PTL DEF Spec, CompleteFilesKept
================================================================================
