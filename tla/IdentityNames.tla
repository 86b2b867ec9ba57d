---------------------------- MODULE IdentityNames ----------------------------
(***************************************************************************)
(* fetch_identity_names (cli/src/commands/identity.rs): the display names  *)
(* of the authorities, from two chains that may fail at every call.        *)
(*                                                                         *)
(* An RPC answer is one step.  batch_get_storage asks in chunks and gives  *)
(* up everything when one chunk fails, so a batch fails or answers as a    *)
(* whole; a value that is absent or too short is the same as none.         *)
(***************************************************************************)
EXTENDS Authorities, Integers

CONSTANTS
  Account, Name,
  NoAccount, NoName, NoRegistration,
  Garbled,      \* the string that a misread registration yields
  Chains        \* what the storage of the two chains may hold

(* The fields of a Registration that its decoding can tell apart: the      *)
(* layout of its chain, the number of `additional' pairs and of the bytes  *)
(* after that number (legacy only), the display name, and the field that   *)
(* follows it.  A display name that is given as a hash, or is empty, is    *)
(* left out.                                                               *)
Registration ==
  [layout : {"simple", "legacy"}, additional : 0 .. 63, rest : Nat,
   display : Name \cup {NoName}, legal : Name \cup {NoName}]

(* Session::KeyOwner: the stash account of an authority key;               *)
(* Identity::IdentityOf: the registration of an account;                   *)
(* Identity::SuperOf: the parent of a sub-identity.                        *)
Chain ==
  [KeyOwner   : [Authority -> Account \cup {NoAccount}],
   IdentityOf : [Account -> Registration \cup {NoRegistration}],
   SuperOf    : [Account -> Account \cup {NoAccount}]]

ASSUME IdentityAssumption ==
  /\ NoAccount \notin Account /\ NoName \notin Name /\ Garbled \in Name
  /\ NoRegistration \notin Registration
  /\ \A c \in Chains : c \in Chain

VARIABLES
  chain,    \* the storage, which does not change during the call
  identity  \* the local variables of the call

KeyOwner   == chain.KeyOwner
IdentityOf == chain.IdentityOf
SuperOf    == chain.SuperOf

NoNames == [a \in Authority |-> NoName]
NoStash == [a \in Authority |-> NoAccount]
NoOwner == [s \in {} |-> s]

(* `failed' is a history variable: some call went wrong.                   *)
Result(names, stash_accounts, failed) ==
  [step |-> "done", names |-> names, stash_accounts |-> stash_accounts,
   stash_to_auth |-> NoOwner, missing |-> {}, parent_to_children |-> {}, failed |-> failed]

IdentityInit ==
  /\ chain \in Chains
  /\ identity = [Result(NoNames, NoStash, FALSE) EXCEPT !.step = "KeyOwner"]

-----------------------------------------------------------------------------
(* The encoding does not say which layout it has.  Read as the simple      *)
(* layout, a legacy registration shows the SCALE length of `additional',   *)
(* four times its number, where the tag of the display name belongs: a tag *)
(* from 2 to 33 is a string of one byte less, if as many bytes remain, and *)
(* the others are none.  Read as the legacy one, a simple registration     *)
(* without a display name, the only one that is tried twice, shows a       *)
(* length of zero and the field after it.                                  *)
decode_data_as_string(tag, rest) == IF tag \in 2 .. 33 /\ tag - 1 <= rest THEN Garbled ELSE NoName

decode_registration_display(r, has_additional) ==
  IF has_additional = (r.layout = "legacy") THEN r.display
  ELSE IF has_additional THEN r.legal
  ELSE decode_data_as_string(4 * r.additional, r.rest)

decode_display_name(r) ==
  IF r = NoRegistration THEN NoName
  ELSE IF decode_registration_display(r, FALSE) # NoName
       THEN decode_registration_display(r, FALSE)
       ELSE decode_registration_display(r, TRUE)

-----------------------------------------------------------------------------
At(step) == identity.step = step

(* Every early return hands over what has been resolved so far.            *)
Return(names, stash_accounts, failed) ==
  identity' = Result(names, stash_accounts, failed)

(* No connection, or no answer: the caller gets what there is.             *)
CallFails ==
  /\ identity.step \in {"KeyOwner", "IdentityOf", "SuperOf", "Parents"}
  /\ Return(identity.names, identity.stash_accounts, TRUE)

(* stash_to_auth inverts the map: of several authorities with one stash    *)
(* the one that the iteration meets last stays.                            *)
Inverses(stash_accounts) ==
  LET stashes == {stash_accounts[a] : a \in Authority} \ {NoAccount}
  IN  {f \in [stashes -> Authority] : \A s \in stashes : stash_accounts[f[s]] = s}

KeyOwnerAnswers ==
  /\ At("KeyOwner")
  /\ IF KeyOwner = NoStash
     THEN Return(NoNames, NoStash, FALSE)
     ELSE \E inverse \in Inverses(KeyOwner) :
            identity' = [identity EXCEPT !.step = "IdentityOf", !.stash_accounts = KeyOwner,
                                         !.stash_to_auth = inverse]

(* The authority of every stash in the domain of `display' gets its name.  *)
Named(names, stash_to_auth, display) ==
  [a \in Authority |->
     IF \E s \in DOMAIN display : stash_to_auth[s] = a
     THEN display[CHOOSE s \in DOMAIN display : stash_to_auth[s] = a]
     ELSE names[a]]

(* Fault: a stash that has a registration is not asked for its parent.     *)
IdentityOfAnswersFinal ==
  /\ At("IdentityOf")
  /\ LET stashes == DOMAIN identity.stash_to_auth
         found   == {s \in stashes : decode_display_name(IdentityOf[s]) # NoName}
         names   == Named(identity.names, identity.stash_to_auth,
                          [s \in found |-> decode_display_name(IdentityOf[s])])
     IN  identity' = [identity EXCEPT !.step = "SuperOf", !.names = names,
                        !.missing = {s \in stashes : IdentityOf[s] = NoRegistration}]

IdentityOfAnswers ==
  /\ At("IdentityOf")
  /\ LET stashes == DOMAIN identity.stash_to_auth
         found   == {s \in stashes : decode_display_name(IdentityOf[s]) # NoName}
         names   == Named(identity.names, identity.stash_to_auth,
                          [s \in found |-> decode_display_name(IdentityOf[s])])
     IN  IF found = stashes
         THEN Return(names, identity.stash_accounts, FALSE)
         ELSE identity' = [identity EXCEPT !.step = "SuperOf", !.names = names,
                                           !.missing = stashes \ found]

SuperOfAnswers ==
  /\ At("SuperOf")
  /\ LET children == {s \in identity.missing : SuperOf[s] # NoAccount}
     IN  IF children = {}
         THEN Return(identity.names, identity.stash_accounts, FALSE)
         ELSE identity' = [identity EXCEPT !.step = "Parents", !.parent_to_children = children]

ParentsAnswer ==
  /\ At("Parents")
  /\ LET found == {s \in identity.parent_to_children :
                     decode_display_name(IdentityOf[SuperOf[s]]) # NoName}
     IN  Return(Named(identity.names, identity.stash_to_auth,
                      [s \in found |-> decode_display_name(IdentityOf[SuperOf[s]])]),
                identity.stash_accounts, FALSE)

IdentityStep ==
  CallFails \/ KeyOwnerAnswers \/ IdentityOfAnswers \/ SuperOfAnswers \/ ParentsAnswer

IdentityNext == IdentityStep /\ UNCHANGED chain

IdentitySpec == IdentityInit /\ [][IdentityNext]_<<chain, identity>>

-----------------------------------------------------------------------------
IdentityTypeOK ==
  /\ identity.step \in {"KeyOwner", "IdentityOf", "SuperOf", "Parents", "done"}
  /\ identity.names \in [Authority -> Name \cup {NoName}]
  /\ identity.stash_accounts \in {NoStash, KeyOwner}
  /\ identity.parent_to_children \subseteq identity.missing
  /\ identity.missing \subseteq DOMAIN identity.stash_to_auth

(* What the owner of an account calls himself, and whether the two         *)
(* attempts at decoding find it out.                                       *)
Displayed(s) == IF IdentityOf[s] = NoRegistration THEN NoName ELSE IdentityOf[s].display

Legible(s) ==
  IdentityOf[s] # NoRegistration =>
    LET r == IdentityOf[s]
    IN  IF r.layout = "legacy" THEN 4 * r.additional \notin 1 .. 33 \/ 4 * r.additional > r.rest + 1
        ELSE r.display # NoName \/ r.legal = NoName

OwnName(a) ==
  LET s == KeyOwner[a]
  IN  IF s = NoAccount THEN NoName
      ELSE IF Displayed(s) # NoName THEN Displayed(s)
      ELSE IF SuperOf[s] = NoAccount THEN NoName
      ELSE Displayed(SuperOf[s])

LegibleChain(a) ==
  LET s == KeyOwner[a]
  IN  s # NoAccount => Legible(s) /\ (SuperOf[s] # NoAccount => Legible(SuperOf[s]))

(* Whatever call fails, an authority is called by the display name of its  *)
(* stash, or by that of the parent where the stash has none, unless a      *)
(* registration is one that the two layouts share; and when no call fails  *)
(* every stash that has such a name gives it to one of its authorities.    *)
NamesExact ==
  /\ \A a \in Authority :
       identity.names[a] # NoName /\ LegibleChain(a) => identity.names[a] = OwnName(a)
  /\ identity.step = "done" /\ ~identity.failed =>
       \A a \in Authority :
         OwnName(a) # NoName =>
           \E b \in Authority : KeyOwner[b] = KeyOwner[a] /\ identity.names[b] # NoName
=============================================================================
