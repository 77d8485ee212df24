------------------------------ MODULE Signing -------------------------------
(***************************************************************************)
(* How the holders of several keys sign one input of a transaction          *)
(* (script.cpp, rpcrawtransaction.cpp): each calls signrawtransaction on     *)
(* whatever copies of the transaction it was sent, and passes on a copy with *)
(* its own signatures and those of the copies merged.  The order and the     *)
(* copies are up to the holders.                                             *)
(*                                                                          *)
(* A script is what Solver makes of it; the script behind a script hash is   *)
(* one of addmultisigaddress, so never a script hash itself.  A scriptSig    *)
(* pushes values only, and is the stack it leaves.  A signature names its    *)
(* key, the script and the version of the transaction it is for, and the     *)
(* try it comes from, since two signatures of one key have different bytes.  *)
(* The cache of valid signatures, which repeats what Verify found under the  *)
(* same key, and the limits on sizes and operations are left out.            *)
(***************************************************************************)
EXTENDS Integers, Sequences, FiniteSets, SequencesExt, FiniteSetsExt

CONSTANTS
  Scripts,        \* the scripts of an output to be explored
  Keystores,      \* [keys, scripts]: wallets, or keys given with the call
  MaxCopies       \* bound: copies in circulation

VARIABLES
  scriptPubKey,   \* of the output that is spent
  copies          \* [tx, scriptSig, by, stale]: copies of the transaction, or of
                  \* a draft of it (tx = 0); history: the keys that signed what
                  \* a copy was made from, and whether a draft was among it

vars == <<scriptPubKey, copies>>

Empty == <<>>
Sig(key, script, try) == <<"sig", key, script, try>>
PubKey(key) == <<"pubkey", key>>
Serialized(script) == <<"script", script>>

IsMultisig(script) == script.type = "TX_MULTISIG"
IsPayToScriptHash(script) == script.type = "TX_SCRIPTHASH"

\* What the constants are assumed to satisfy; the checks of Solver included.
SigningAssumption ==
  /\ \A s \in Scripts : IsPayToScriptHash(s) => IsMultisig(s.inner)
  /\ \A s \in Scripts \cup {t.inner : t \in {u \in Scripts : IsPayToScriptHash(u)}} :
        IsMultisig(s) => s.m \in 1 .. Len(s.keys)
  /\ MaxCopies \in Nat

-----------------------------------------------------------------------------
(* Verification                                                            *)

\* Try 0 signed the draft.
CheckSig(sig, key, script) ==
  /\ sig # Empty /\ sig[1] = "sig"
  /\ sig[2] = key /\ sig[3] = script /\ sig[4] # 0

\* The loop of OP_CHECKMULTISIG, from the last signature and the last key; left
\* is nSigsCount.  It gives up early when the keys no longer suffice.
CheckMultisig(sigs, keys, script) ==
  0 = FoldLeft(LAMBDA left, key : IF left > 0 /\ CheckSig(sigs[left], key, script)
                                  THEN left - 1 ELSE left,
               Len(sigs), Reverse(keys))

\* EvalScript of the script over the stack; one value below the signatures of
\* OP_CHECKMULTISIG is popped too.
Eval(stack, script) ==
  CASE script.type = "TX_PUBKEY" ->
         Len(stack) >= 1 /\ CheckSig(Last(stack), script.keys[1], script)
    [] script.type = "TX_PUBKEYHASH" ->
         /\ Len(stack) >= 2 /\ Last(stack) = PubKey(script.keys[1])
         /\ CheckSig(Last(Front(stack)), script.keys[1], script)
    [] script.type = "TX_MULTISIG" ->
         /\ Len(stack) >= script.m + 1
         /\ CheckMultisig(SubSeq(stack, Len(stack) - script.m + 1, Len(stack)), script.keys, script)

VerifyScript(scriptSig, script) ==
  IF IsPayToScriptHash(script)
  THEN /\ Len(scriptSig) >= 1 /\ Last(scriptSig) = Serialized(script.inner)
       /\ Eval(Front(scriptSig), script.inner)
  ELSE Eval(scriptSig, script)

-----------------------------------------------------------------------------
(* Signing                                                                 *)

\* SignN: the first m keys that the store has.
SignN(keystore, script, try) ==
  LET own == SelectSeq(script.keys, LAMBDA k : k \in keystore.keys)
  IN  [i \in 1 .. Min({script.m, Len(own)}) |-> Sig(own[i], script, try)]

\* Solver with a key store: the scriptSig, and whether it is all there.
Solver(keystore, script, try) ==
  IF IsMultisig(script)
  THEN LET sigs == SignN(keystore, script, try)
       IN  [scriptSig |-> <<Empty>> \o sigs, ok |-> Len(sigs) = script.m]
  ELSE IF script.keys[1] \notin keystore.keys
  THEN [scriptSig |-> <<>>, ok |-> FALSE]
  ELSE [scriptSig |-> <<Sig(script.keys[1], script, try)>>
                        \o (IF script.type = "TX_PUBKEYHASH" THEN <<PubKey(script.keys[1])>> ELSE <<>>),
        ok |-> TRUE]

Solvable(keystore, script) == IsPayToScriptHash(script) => script.inner \in keystore.scripts

\* SignSignature: what it leaves in the scriptSig, and fSolved, before it tests
\* the solution with VerifyScript; the script behind a hash goes last, signed
\* or not.
SignSignature(keystore, script, try) ==
  CASE ~Solvable(keystore, script) -> [scriptSig |-> <<>>, ok |-> FALSE]
    [] Solvable(keystore, script) /\ IsPayToScriptHash(script) ->
         LET inner == Solver(keystore, script.inner, try)
         IN  [inner EXCEPT !.scriptSig = Append(@, Serialized(script.inner))]
    [] OTHER -> Solver(keystore, script, try)

\* IsMine: of a multisignature all keys, "somebody else has a key that can spend
\* them" otherwise.
IsMine(keystore, script) ==
  LET solved == IF IsPayToScriptHash(script) THEN script.inner ELSE script
  IN  Solvable(keystore, script) /\ ToSet(solved.keys) \subseteq keystore.keys

-----------------------------------------------------------------------------
(* Merging                                                                 *)

Merged(script, sigOf, have) ==
  <<Empty>> \o [i \in 1 .. script.m |-> IF i <= Len(have) THEN sigOf[have[i]] ELSE Empty]

\* Mutant: the signatures are put in the order they were found in.
CombineInOrderFound(script, sigs1, sigs2) ==
  LET good == SelectSeq(sigs2 \o sigs1, LAMBDA s : \E k \in ToSet(script.keys) : CheckSig(s, k, script))
  IN  <<Empty>> \o [i \in 1 .. script.m |-> IF i <= Len(good) THEN good[i] ELSE Empty]

\* CombineMultisig: signatures are matched to keys in the order of their bytes,
\* which decides among several of one key only, and go in the order of the keys.
CombineMultisig(script, sigs1, sigs2) ==
  LET allsigs == ToSet(sigs1 \o sigs2) \ {Empty}
      Of(k) == {s \in allsigs : CheckSig(s, k, script)}
      have == SelectSeq(script.keys, LAMBDA k : Of(k) # {})
  IN  Merged(script, [k \in ToSet(have) |-> CHOOSE s \in Of(k) : TRUE], have)

\* CombineSignatures of stacks; the first that has a signature, or both merged.
CombineSignatures(script, sigs1, sigs2) ==
  CASE IsMultisig(script) -> CombineMultisig(script, sigs1, sigs2)
    [] IsPayToScriptHash(script) ->
         IF sigs1 = <<>> \/ Last(sigs1) = Empty THEN sigs2
         ELSE IF sigs2 = <<>> \/ Last(sigs2) = Empty THEN sigs1
         ELSE Append(CombineMultisig(script.inner, Front(sigs1), Front(sigs2)), Last(sigs1))
    [] OTHER -> IF sigs1 = <<>> \/ sigs1[1] = Empty THEN sigs2 ELSE sigs1

-----------------------------------------------------------------------------
Init ==
  /\ scriptPubKey \in Scripts
  /\ copies = {[tx |-> 1, scriptSig |-> <<>>, by |-> {}, stale |-> FALSE]}

\* signrawtransaction with the copies v, of which the first is the transaction
\* and the others give their signatures; fSign is FALSE for SIGHASH_SINGLE when
\* the input has no output beside it.  (An input whose output is not known is
\* left as the first copy has it.)
SignRawTransaction(keystore, v, try, fSign) ==
  LET own == IF fSign THEN SignSignature(keystore, scriptPubKey, try).scriptSig ELSE <<>>
      Combine(scriptSig, copy) == CombineSignatures(scriptPubKey, scriptSig, copy.scriptSig)
      signers == IF fSign /\ Solvable(keystore, scriptPubKey) THEN keystore.keys ELSE {}
  IN  /\ v[1].tx = 1
      /\ copies' = copies \cup
           {[tx |-> 1, scriptSig |-> FoldLeft(Combine, own, v),
             by |-> UNION {c.by : c \in ToSet(v)} \cup signers,
             stale |-> \E c \in ToSet(v) : c.stale]}

\* The same with a draft, which nobody had signed (empty values, which the next
\* merge drops, are left out).
SignDraft(keystore) ==
  copies' = copies \cup {[tx |-> 0, scriptSig |-> SignSignature(keystore, scriptPubKey, 0).scriptSig,
                          by |-> {}, stale |-> TRUE]}

Next ==
  /\ \E keystore \in Keystores :
       \/ \E v \in SeqOf(copies, 2) \ {<<>>}, try \in 1 .. 2, fSign \in BOOLEAN :
             SignRawTransaction(keystore, v, try, fSign)
       \/ SignDraft(keystore)
  /\ Cardinality(copies') <= MaxCopies
  /\ UNCHANGED scriptPubKey

Spec == Init /\ [][Next]_vars

-----------------------------------------------------------------------------
Solved == IF IsPayToScriptHash(scriptPubKey) THEN scriptPubKey.inner ELSE scriptPubKey

TypeOK ==
  /\ scriptPubKey \in Scripts
  /\ \A c \in copies : c.by \subseteq UNION {k.keys : k \in Keystores} /\ c.tx \in {0, 1} /\ c.stale \in BOOLEAN

\* The places of the script that these keys can sign for.
Places(keys) == {i \in DOMAIN Solved.keys : Solved.keys[i] \in keys}
Required == IF IsMultisig(Solved) THEN Solved.m ELSE 1

\* However the copies were passed around and merged, a copy is complete exactly
\* when enough of the holders of keys have signed something it was made from:
\* no signature is lost, misplaced or made up for by one of a draft.
\* (With a single key the first signature wins, also one of a draft.)
CompleteWhenEnoughSigned ==
  \A c \in copies :
    LET complete == VerifyScript(c.scriptSig, scriptPubKey)
        enough == Cardinality(Places(c.by)) >= Required
    IN  /\ complete => enough
        /\ enough /\ (c.stale => IsMultisig(Solved)) => complete

\* OP_CHECKMULTISIG, which looks at every key once, accepts what has a key for
\* each signature, in the same order.
MultisigIsReference ==
  (IsMultisig(Solved) /\ Cardinality(copies) = 1) =>
    \A sigs \in [1 .. Solved.m -> {Empty} \cup {Sig(k, Solved, try) : k \in ToSet(Solved.keys), try \in 0 .. 1}] :
      CheckMultisig(sigs, Solved.keys, Solved) <=>
        \E key \in [1 .. Solved.m -> DOMAIN Solved.keys] :
          /\ \A i, j \in 1 .. Solved.m : i < j => key[i] < key[j]
          /\ \A i \in 1 .. Solved.m : CheckSig(sigs[i], Solved.keys[key[i]], Solved)

\* What the wallet counts as its own it can spend.
OwnOutputsCanBeSigned ==
  \A keystore \in Keystores : IsMine(keystore, scriptPubKey) =>
    LET signed == SignSignature(keystore, scriptPubKey, 1)
    IN  signed.ok /\ VerifyScript(signed.scriptSig, scriptPubKey)
=============================================================================
