---------------------------- MODULE SecurityProofs ----------------------------
(* Theorems about SignIn and SecurityAlerts, for any number of codes,      *)
(* calls, sockets, alerts and deliveries.                                  *)
EXTENDS SignIn, SecurityAlerts, FiniteSetTheorems, TLAPS

-----------------------------------------------------------------------------
(* The inductive invariant *)

Locking == {"insert", "right", "wrong"}

(* A transaction past its first statement is the one that has the lock.    *)
LockIsHeld == \A c \in AuthCalls : authCall[c].at \in Locking <=> phoneLock = c

(* What the holder of the lock has read is still so.                       *)
ReadIsTrue ==
    \A c \in AuthCalls :
        /\ CallAt(c, "insert") => Cardinality(recent) < MaxSends
        /\ authCall[c].at \in {"right", "wrong"} =>
              /\ authCall[c].gen = Latest /\ authCall[c].gen \in Codes
              /\ codes[authCall[c].gen].status \in {"VALID", "EXPIRED"}
              /\ codes[authCall[c].gen].attempts < MaxGuesses

(* A code is used once, and one call at most issues its token.             *)
OneIssue ==
    /\ \A g \in Codes : codes[g].status # "USED" => tokens[g] = 0
    /\ \A c \in AuthCalls : CallAt(c, "issue") =>
          /\ authCall[c].gen \in Codes
          /\ codes[authCall[c].gen].status = "USED" /\ tokens[authCall[c].gen] = 0
    /\ \A c, d \in AuthCalls :
          CallAt(c, "issue") /\ CallAt(d, "issue") /\ authCall[c].gen = authCall[d].gen => c = d
    /\ \A g \in Codes : tokens[g] <= 1

GuessesCounted == \A g \in Codes : guesses[g] = codes[g].attempts

(* The codes asked for have a last one.                                    *)
HasLast == Asked = {} \/ \E g \in Asked : \A k \in Asked : k <= g

CodeInv ==
    /\ SignInTypeOK /\ LockIsHeld /\ ReadIsTrue /\ OneIssue /\ GuessesCounted /\ HasLast
    /\ Cardinality(recent) <= MaxSends

-----------------------------------------------------------------------------
(* Type correctness, and the codes of the window *)

LEMMA CodesFinite == IsFiniteSet(Codes)
  BY FS_Interval, SignInAssumption DEF Codes

LEMMA RecentFinite == ASSUME SignInTypeOK PROVE IsFiniteSet(recent) /\ Cardinality(recent) \in Nat
  BY CodesFinite, FS_Subset, FS_CardinalityType DEF SignInTypeOK

LEMMA SignInTypeInit == SignInInit => SignInTypeOK
<1> SUFFICES ASSUME SignInInit PROVE SignInTypeOK
  OBVIOUS
<1> USE SignInAssumption DEF SignInInit
<1>1. codes \in [Codes -> [status : {"NONE", "VALID", "EXPIRED", "USED"}, attempts : 0..MaxGuesses]]
  OBVIOUS
<1>2. authCall \in [AuthCalls -> [at : {"idle", "send", "insert", "verify", "wrong", "right", "issue"},
                                  gen : Codes \cup {0}, barred : BOOLEAN]]
  BY DEF NotCalling
<1>3. tokens \in [Codes -> Nat] /\ guesses \in [Codes -> Nat]
  OBVIOUS
<1>4. socket \in [Sockets -> {"closed", "authenticated", "joined"}]
  OBVIOUS
<1>5. /\ recent \subseteq Codes /\ spared \subseteq Sockets /\ phoneLock \in AuthCalls \cup {NoCall}
      /\ blocked \in BOOLEAN /\ kicking \in BOOLEAN
  OBVIOUS
<1> QED
  BY <1>1, <1>2, <1>3, <1>4, <1>5 DEF SignInTypeOK

LEMMA SignInTypeStep ==
    SignInTypeOK /\ ReadIsTrue /\ OneIssue /\ [SignInNext]_signInVars => SignInTypeOK'
<1> SUFFICES ASSUME SignInTypeOK, ReadIsTrue, OneIssue, [SignInNext]_signInVars PROVE SignInTypeOK'
  OBVIOUS
<1> USE SignInAssumption DEF SignInTypeOK, socketVars, codeVars, CallEnds, NotCalling
<1>1. CASE UNCHANGED signInVars
  BY <1>1 DEF signInVars
<1>2. ASSUME NEW c \in AuthCalls, AskOrVerify(c) \/ CountSends(c) \/ CallDies(c) PROVE SignInTypeOK'
  <2>1. CASE AskOrVerify(c)
    BY <2>1 DEF AskOrVerify
  <2>2. CASE CountSends(c)
    <3>1. authCall' \in {[authCall EXCEPT ![c].at = "insert"], [authCall EXCEPT ![c] = NotCalling]}
             /\ phoneLock' \in {c, phoneLock}
      BY <2>2 DEF CountSends
    <3>2. CASE authCall' = [authCall EXCEPT ![c].at = "insert"]
      <4> HIDE DEF SignInTypeOK
      <4>1. [authCall[c] EXCEPT !.at = "insert"]
               \in [at : {"idle", "send", "insert", "verify", "wrong", "right", "issue"},
                    gen : Codes \cup {0}, barred : BOOLEAN]
        BY DEF SignInTypeOK
      <4>2. authCall' \in [AuthCalls -> [at : {"idle", "send", "insert", "verify", "wrong", "right", "issue"},
                                        gen : Codes \cup {0}, barred : BOOLEAN]]
        BY <3>2, <4>1 DEF SignInTypeOK
      <4> QED  BY <2>2, <3>1, <4>2 DEF CountSends, SignInTypeOK
    <3>3. CASE authCall' = [authCall EXCEPT ![c] = NotCalling]
      BY <2>2, <3>1, <3>3 DEF CountSends
    <3> QED  BY <3>1, <3>2, <3>3
  <2>3. CASE CallDies(c)
    BY <2>3 DEF CallDies
  <2> QED  BY <1>2, <2>1, <2>2, <2>3
<1>3. ASSUME NEW c \in AuthCalls, InsertCode(c) PROVE SignInTypeOK'
  BY <1>3 DEF InsertCode
<1>4. ASSUME NEW c \in AuthCalls, ReadCode(c) PROVE SignInTypeOK'
  <2>1. CASE authCall' = [authCall EXCEPT ![c] = NotCalling]
    BY <1>4, <2>1 DEF ReadCode
  <2>2. CASE \E result \in {"right", "wrong"} :
                Latest \in Codes /\ authCall' = [authCall EXCEPT ![c].at = result, ![c].gen = Latest]
    <3>1. PICK result \in {"right", "wrong"} :
             Latest \in Codes /\ authCall' = [authCall EXCEPT ![c].at = result, ![c].gen = Latest]
      BY <2>2
    <3> HIDE DEF SignInTypeOK
    <3>2. [authCall[c] EXCEPT !.at = result, !.gen = Latest]
             \in [at : {"idle", "send", "insert", "verify", "wrong", "right", "issue"},
                  gen : Codes \cup {0}, barred : BOOLEAN]
      BY <3>1 DEF SignInTypeOK
    <3> QED  BY <1>4, <3>1, <3>2 DEF ReadCode, SignInTypeOK
  <2> QED  BY <1>4, <2>1, <2>2 DEF ReadCode
<1>5. ASSUME NEW c \in AuthCalls, CountGuess(c) PROVE SignInTypeOK'
  <2>1. codes[authCall[c].gen].attempts + 1 \in 0..MaxGuesses /\ authCall[c].gen \in Codes
    BY <1>5 DEF CountGuess, CallAt, ReadIsTrue
  <2> QED  BY <1>5, <2>1 DEF CountGuess
<1>6. ASSUME NEW c \in AuthCalls, UseCode(c) PROVE SignInTypeOK'
  <2> HIDE DEF SignInTypeOK
  <2>1. [authCall[c] EXCEPT !.at = "issue", !.barred = blocked]
           \in [at : {"idle", "send", "insert", "verify", "wrong", "right", "issue"},
                gen : Codes \cup {0}, barred : BOOLEAN]
    BY DEF SignInTypeOK
  <2>2. authCall' \in [AuthCalls -> [at : {"idle", "send", "insert", "verify", "wrong", "right", "issue"},
                                    gen : Codes \cup {0}, barred : BOOLEAN]]
    BY <1>6, <2>1 DEF UseCode, SignInTypeOK
  <2>3. codes' \in [Codes -> [status : {"NONE", "VALID", "EXPIRED", "USED"}, attempts : 0..MaxGuesses]]
    <3>1. codes' = [codes EXCEPT ![authCall[c].gen].status = "USED"] /\ authCall[c].gen \in Codes
      BY <1>6 DEF UseCode, CallAt, ReadIsTrue
    <3>2. [codes[authCall[c].gen] EXCEPT !.status = "USED"]
             \in [status : {"NONE", "VALID", "EXPIRED", "USED"}, attempts : 0..MaxGuesses]
      BY <3>1 DEF SignInTypeOK
    <3> QED  BY <3>1, <3>2 DEF SignInTypeOK
  <2> QED  BY <1>6, <2>2, <2>3 DEF UseCode, SignInTypeOK
<1>7. ASSUME NEW c \in AuthCalls, IssueToken(c) PROVE SignInTypeOK'
  <2>1. authCall' \in [AuthCalls -> [at : {"idle", "send", "insert", "verify", "wrong", "right", "issue"},
                                    gen : Codes \cup {0}, barred : BOOLEAN]]
    BY <1>7 DEF IssueToken
  <2>2. tokens' \in [Codes -> Nat]
    <3>1. CASE UNCHANGED tokens
      BY <3>1
    <3>2. CASE tokens' = [tokens EXCEPT ![authCall[c].gen] = tokens[authCall[c].gen] + 1]
      <4>1. authCall[c].gen \in Codes
        BY <1>7 DEF IssueToken, OneIssue
      <4>2. tokens[authCall[c].gen] + 1 \in Nat
        BY <4>1
      <4> QED  BY <3>2, <4>1, <4>2
    <3> QED  BY <1>7, <3>1, <3>2 DEF IssueToken
  <2> QED  BY <1>7, <2>1, <2>2 DEF IssueToken
<1>8. ASSUME NEW g \in Codes, CodeExpires(g) \/ WindowMoves(g) PROVE SignInTypeOK'
  BY <1>8 DEF CodeExpires, WindowMoves
<1>9. ASSUME NEW k \in Sockets, Handshake(k) \/ JoinRoom(k) \/ CloseSocket(k) PROVE SignInTypeOK'
  BY <1>9 DEF Handshake, JoinRoom, CloseSocket
<1>10. CASE BlockUser \/ DisconnectUser \/ BlockDies \/ UnblockUser
  BY <1>10 DEF BlockUser, DisconnectUser, BlockDies, UnblockUser
<1> QED
  BY <1>1, <1>2, <1>3, <1>4, <1>5, <1>6, <1>7, <1>8, <1>9, <1>10 DEF SignInNext

-----------------------------------------------------------------------------
(* The limits *)

LEMMA CodeInvInit == SignInInit => CodeInv
<1> SUFFICES ASSUME SignInInit PROVE CodeInv
  OBVIOUS
<1> USE SignInAssumption DEF SignInInit
<1>1. SignInTypeOK
  BY SignInTypeInit
<1>2. LockIsHeld /\ ReadIsTrue
  BY DEF LockIsHeld, ReadIsTrue, NotCalling, Locking, CallAt
<1>3. OneIssue
  BY DEF OneIssue, NotCalling, CallAt
<1>4. GuessesCounted /\ HasLast
  BY DEF GuessesCounted, HasLast, Asked
<1>5. Cardinality(recent) <= MaxSends
  BY FS_EmptySet
<1> QED
  BY <1>1, <1>2, <1>3, <1>4, <1>5 DEF CodeInv

(* The latest code is the same as long as the same codes were asked for.   *)
LEMMA SameLatest ==
    ASSUME \A g \in Codes : codes'[g].status = "NONE" <=> codes[g].status = "NONE"
    PROVE  Asked' = Asked /\ Latest' = Latest /\ (HasLast => HasLast')
<1>1. Asked' = Asked
  BY DEF Asked
<1> QED
  BY <1>1 DEF Latest, HasLast

(* A call that only changes itself, and does not go to a statement of the  *)
(* lock or of the token, keeps everything.                                 *)
LEMMA CallMoves ==
    ASSUME CodeInv, SignInTypeOK', NEW c \in AuthCalls,
           UNCHANGED <<codes, recent, tokens, guesses>>,
           \A d \in AuthCalls \ {c} : authCall'[d] = authCall[d],
           authCall'[c].at \in {"idle", "send", "verify"},
           phoneLock' = IF phoneLock = c THEN NoCall ELSE phoneLock
    PROVE  CodeInv'
<1> USE DEF CodeInv, CallAt
<1>1. Latest' = Latest /\ HasLast'
  BY SameLatest
<1>2. LockIsHeld'
  BY SignInAssumption DEF LockIsHeld, Locking
<1>3. ReadIsTrue'
  BY <1>1 DEF ReadIsTrue
<1>4. OneIssue' /\ GuessesCounted'
  BY DEF OneIssue, GuessesCounted
<1> QED
  BY <1>1, <1>2, <1>3, <1>4

(* The call that takes the lock has just read what it will rely on.        *)
LEMMA LockTaken ==
    ASSUME CodeInv, SignInTypeOK', NEW c \in AuthCalls, CountSends(c) \/ ReadCode(c), phoneLock' = c
    PROVE  CodeInv'
<1> USE DEF CodeInv, CallAt
<1>1. UNCHANGED <<codes, recent, tokens, guesses>> /\ phoneLock = NoCall /\ c # NoCall
  BY SignInAssumption DEF CountSends, ReadCode, PhoneFree
<1>2. Latest' = Latest /\ HasLast'
  BY <1>1, SameLatest
<1>3. /\ \A d \in AuthCalls \ {c} : authCall'[d] = authCall[d]
      /\ \/ authCall'[c].at = "insert" /\ Cardinality(recent) < MaxSends
         \/ /\ authCall'[c].at \in {"right", "wrong"} /\ authCall'[c].gen = Latest /\ Latest \in Codes
            /\ codes[Latest].status = "VALID" /\ codes[Latest].attempts < MaxGuesses
  <2>1. CASE CountSends(c)
    BY <1>1, <2>1 DEF CountSends, SignInTypeOK
  <2>2. CASE ReadCode(c)
    BY <1>1, <2>2 DEF ReadCode, SignInTypeOK
  <2> QED  BY <2>1, <2>2
<1>4. LockIsHeld'
  BY <1>1, <1>3, SignInAssumption DEF LockIsHeld, Locking
<1>5. ReadIsTrue'
  BY <1>1, <1>2, <1>3 DEF ReadIsTrue
<1>6. OneIssue' /\ GuessesCounted'
  BY <1>1, <1>3 DEF OneIssue, GuessesCounted
<1> QED
  BY <1>1, <1>2, <1>4, <1>5, <1>6

(* The next code is newer than every other, and was not asked for before.  *)
LEMMA InsertStep ==
    ASSUME CodeInv, SignInTypeOK', NEW c \in AuthCalls, InsertCode(c)
    PROVE  CodeInv'
<1> USE DEF CodeInv, CallAt
<1> DEFINE g == Latest + 1
<1>1. \A k \in Asked : k <= Latest
  BY DEF HasLast, Latest
<1>2. g \in Codes /\ g \notin Asked /\ codes[g].status = "NONE"
  <2>1. g \in Codes
    BY DEF InsertCode
  <2>2. Latest \in Int
    BY DEF HasLast, Latest, Asked, Codes
  <2> QED  BY <1>1, <2>1, <2>2 DEF Asked
<1>3. /\ codes'[g].status = "VALID" /\ codes'[g].attempts = codes[g].attempts
      /\ \A k \in Codes \ {g} : codes'[k] = codes[k]
      /\ \A d \in AuthCalls \ {c} : authCall'[d] = authCall[d] /\ authCall[d].at \notin Locking
      /\ authCall'[c].at = "idle" /\ phoneLock' = NoCall
      /\ UNCHANGED <<tokens, guesses>> /\ recent' = recent \cup {g}
  BY <1>2 DEF InsertCode, CallEnds, NotCalling, SignInTypeOK, LockIsHeld, Locking
<1>4. Cardinality(recent') <= MaxSends
  <2>1. Cardinality(recent) < MaxSends
    BY DEF InsertCode, ReadIsTrue
  <2>2. IsFiniteSet(recent) /\ Cardinality(recent) \in Nat
    BY RecentFinite
  <2>3. Cardinality(recent \cup {g}) =
           IF g \in recent THEN Cardinality(recent) ELSE Cardinality(recent) + 1
    BY <2>2, FS_AddElement
  <2> QED  BY <1>3, <2>1, <2>2, <2>3, SignInAssumption
<1>5. HasLast'
  <2>1. Asked' = Asked \cup {g}
    BY <1>2, <1>3 DEF Asked
  <2>2. \A k \in Asked : k <= g
    BY <1>1, <1>2 DEF Asked, Codes, HasLast, Latest
  <2> QED  BY <1>2, <2>1, <2>2 DEF HasLast, Codes
<1> HIDE DEF g
<1>6. LockIsHeld' /\ ReadIsTrue'
  BY <1>3, SignInAssumption DEF LockIsHeld, ReadIsTrue, Locking
<1>7. OneIssue' /\ GuessesCounted'
  BY <1>2, <1>3 DEF OneIssue, GuessesCounted
<1> QED
  BY <1>4, <1>5, <1>6, <1>7

(* A wrong code is counted by the one call that compares it.               *)
LEMMA GuessStep ==
    ASSUME CodeInv, SignInTypeOK', NEW c \in AuthCalls, CountGuess(c)
    PROVE  CodeInv'
<1> USE DEF CodeInv, CallAt
<1> DEFINE g == authCall[c].gen
<1>1. g \in Codes /\ codes[g].status \in {"VALID", "EXPIRED"} /\ phoneLock = c
  BY DEF CountGuess, ReadIsTrue, LockIsHeld, Locking
<1>2. /\ codes'[g].status = codes[g].status /\ codes'[g].attempts = codes[g].attempts + 1
      /\ \A k \in Codes \ {g} : codes'[k] = codes[k] /\ guesses'[k] = guesses[k]
      /\ guesses'[g] = guesses[g] + 1
      /\ \A d \in AuthCalls \ {c} : authCall'[d] = authCall[d] /\ authCall[d].at \notin Locking
      /\ authCall'[c].at = "idle" /\ phoneLock' = NoCall
      /\ UNCHANGED <<tokens, recent>>
  BY <1>1 DEF CountGuess, CallEnds, NotCalling, SignInTypeOK, LockIsHeld, Locking
<1> HIDE DEF g
<1>3. Latest' = Latest /\ HasLast'
  BY <1>2, SameLatest
<1>4. LockIsHeld' /\ ReadIsTrue'
  BY <1>2, SignInAssumption DEF LockIsHeld, ReadIsTrue, Locking
<1>5. OneIssue'
  <2>1. \A k \in Codes : codes'[k].status = codes[k].status
    BY <1>2
  <2> QED  BY <1>2, <2>1 DEF OneIssue
<1>6. GuessesCounted'
  BY <1>1, <1>2 DEF GuessesCounted
<1> QED
  BY <1>2, <1>3, <1>4, <1>5, <1>6

(* A right code is used up with the lock, before its token is issued.      *)
LEMMA UseStep ==
    ASSUME CodeInv, SignInTypeOK', NEW c \in AuthCalls, UseCode(c)
    PROVE  CodeInv'
<1> USE DEF CodeInv, CallAt
<1> DEFINE g == authCall[c].gen
<1>1. g \in Codes /\ codes[g].status \in {"VALID", "EXPIRED"} /\ phoneLock = c
  BY DEF UseCode, ReadIsTrue, LockIsHeld, Locking
<1>2. /\ codes'[g].status = "USED" /\ codes'[g].attempts = codes[g].attempts
      /\ \A k \in Codes \ {g} : codes'[k] = codes[k]
      /\ \A d \in AuthCalls \ {c} : authCall'[d] = authCall[d] /\ authCall[d].at \notin Locking
      /\ authCall'[c].at = "issue" /\ authCall'[c].gen = g /\ phoneLock' = NoCall
      /\ UNCHANGED <<tokens, recent, guesses>>
  BY <1>1 DEF UseCode, SignInTypeOK, LockIsHeld, Locking
<1>3. tokens[g] = 0 /\ \A d \in AuthCalls : authCall[d].at = "issue" => authCall[d].gen # g
  BY <1>1 DEF OneIssue
<1> HIDE DEF g
<1>4. Latest' = Latest /\ HasLast'
  BY <1>1, <1>2, SameLatest
<1>5. LockIsHeld' /\ ReadIsTrue'
  BY <1>2, SignInAssumption DEF LockIsHeld, ReadIsTrue, Locking
<1>6. OneIssue'
  BY <1>1, <1>2, <1>3 DEF OneIssue
<1>7. GuessesCounted'
  BY <1>2 DEF GuessesCounted
<1> QED
  BY <1>2, <1>4, <1>5, <1>6, <1>7

LEMMA IssueStep ==
    ASSUME CodeInv, SignInTypeOK', NEW c \in AuthCalls, IssueToken(c)
    PROVE  CodeInv'
<1> USE DEF CodeInv, CallAt
<1> DEFINE g == authCall[c].gen
<1>1. g \in Codes /\ codes[g].status = "USED" /\ tokens[g] = 0
  BY DEF IssueToken, OneIssue
<1>2. /\ tokens'[g] \in {0, 1} /\ \A k \in Codes \ {g} : tokens'[k] = tokens[k]
      /\ \A d \in AuthCalls \ {c} : authCall'[d] = authCall[d]
      /\ authCall'[c].at = "idle" /\ UNCHANGED <<codes, recent, guesses, phoneLock>>
  BY <1>1 DEF IssueToken, CallEnds, NotCalling, SignInTypeOK
<1>3. authCall[c].at = "issue"
  BY DEF IssueToken
<1>4. Latest' = Latest /\ HasLast'
  BY <1>2, SameLatest
<1>5. OneIssue'
  BY <1>1, <1>2, <1>3 DEF OneIssue
<1> HIDE DEF g
<1>6. LockIsHeld' /\ ReadIsTrue' /\ GuessesCounted'
  BY <1>2, <1>3, <1>4 DEF LockIsHeld, ReadIsTrue, Locking, GuessesCounted
<1> QED
  BY <1>2, <1>4, <1>5, <1>6

(* Time passes: a code expires, or leaves the window.                      *)
LEMMA TimeStep ==
    ASSUME CodeInv, SignInTypeOK', NEW g \in Codes, CodeExpires(g) \/ WindowMoves(g)
    PROVE  CodeInv'
<1> USE DEF CodeInv, CallAt
<1>1. /\ UNCHANGED <<phoneLock, authCall, tokens, guesses>> /\ recent' \subseteq recent
      /\ \A k \in Codes : /\ codes'[k].attempts = codes[k].attempts
                          /\ \/ codes'[k].status = codes[k].status
                             \/ codes[k].status = "VALID" /\ codes'[k].status = "EXPIRED"
  BY DEF CodeExpires, WindowMoves, SignInTypeOK
<1>2. Cardinality(recent') <= Cardinality(recent)
  BY <1>1, RecentFinite, FS_Subset
<1>3. Cardinality(recent) \in Nat /\ Cardinality(recent') \in Nat
  BY <1>1, RecentFinite, FS_Subset, FS_CardinalityType
<1>4. Latest' = Latest /\ HasLast'
  BY <1>1, SameLatest
<1>5. LockIsHeld' /\ OneIssue' /\ GuessesCounted'
  BY <1>1 DEF LockIsHeld, OneIssue, GuessesCounted
<1>6. ReadIsTrue'
  BY <1>1, <1>2, <1>3, <1>4, SignInAssumption DEF ReadIsTrue
<1> QED
  BY <1>2, <1>3, <1>4, <1>5, <1>6, SignInAssumption

LEMMA CodeInvStep == CodeInv /\ [SignInNext]_signInVars => CodeInv'
<1> SUFFICES ASSUME CodeInv, [SignInNext]_signInVars PROVE CodeInv'
  OBVIOUS
<1>1. SignInTypeOK' /\ authCall \in [AuthCalls ->
         [at : {"idle", "send", "insert", "verify", "wrong", "right", "issue"},
          gen : Codes \cup {0}, barred : BOOLEAN]]
  BY SignInTypeStep DEF CodeInv, SignInTypeOK
<1>2. ASSUME UNCHANGED codeVars PROVE CodeInv'
  <2>1. UNCHANGED <<codes, recent, phoneLock, authCall, tokens, guesses>>
    BY <1>2 DEF codeVars
  <2>2. Latest' = Latest /\ HasLast'
    BY <2>1, SameLatest DEF CodeInv
  <2>3. LockIsHeld' /\ ReadIsTrue' /\ OneIssue' /\ GuessesCounted' /\ Cardinality(recent') <= MaxSends
    BY <2>1, <2>2 DEF CodeInv, LockIsHeld, ReadIsTrue, OneIssue, GuessesCounted, CallAt
  <2> QED  BY <1>1, <2>2, <2>3 DEF CodeInv
<1>3. ASSUME NEW c \in AuthCalls, AskOrVerify(c) \/ CallDies(c) \/ CountSends(c) \/ ReadCode(c)
      PROVE  CodeInv'
  <2>1. CASE phoneLock' = c /\ (CountSends(c) \/ ReadCode(c))
    BY <1>1, <2>1, LockTaken
  <2>2. CASE (CountSends(c) \/ ReadCode(c)) /\ phoneLock' # c
    <3>1. CallEnds(c) /\ UNCHANGED <<phoneLock, codes, recent, tokens, guesses>>
      BY <2>2 DEF CountSends, ReadCode
    <3> QED  BY <1>1, <2>2, <3>1, CallMoves DEF CallEnds, NotCalling
  <2>3. CASE AskOrVerify(c)
    <3>1. phoneLock # c
      BY <2>3 DEF AskOrVerify, CallAt, CodeInv, LockIsHeld, Locking
    <3> QED  BY <1>1, <2>3, <3>1, CallMoves DEF AskOrVerify
  <2>4. CASE CallDies(c)
    BY <1>1, <2>4, CallMoves DEF CallDies, CallEnds, NotCalling
  <2> QED  BY <1>3, <2>1, <2>2, <2>3, <2>4
<1>4. ASSUME NEW c \in AuthCalls, InsertCode(c) \/ CountGuess(c) \/ UseCode(c) \/ IssueToken(c)
      PROVE  CodeInv'
  BY <1>1, <1>4, InsertStep, GuessStep, UseStep, IssueStep
<1>5. ASSUME NEW g \in Codes, CodeExpires(g) \/ WindowMoves(g) PROVE CodeInv'
  BY <1>1, <1>5, TimeStep
<1>6. ASSUME NEW k \in Sockets, Handshake(k) \/ JoinRoom(k) \/ CloseSocket(k) PROVE CodeInv'
  BY <1>2, <1>6 DEF Handshake, JoinRoom, CloseSocket
<1>7. CASE BlockUser \/ DisconnectUser \/ BlockDies \/ UnblockUser
  BY <1>2, <1>7 DEF BlockUser, DisconnectUser, BlockDies, UnblockUser
<1>8. CASE UNCHANGED signInVars
  BY <1>2, <1>8 DEF signInVars, codeVars
<1> QED
  BY <1>3, <1>4, <1>5, <1>6, <1>7, <1>8 DEF SignInNext

(* So many codes in a window, so many wrong answers and one token per code, *)
(* whatever requestCode and verifyCode run at once or die.                  *)
THEOREM LimitsStayExact == SignInSpec => []LimitsAreExact
<1>1. CodeInv => LimitsAreExact
  <2> SUFFICES ASSUME CodeInv PROVE LimitsAreExact
    OBVIOUS
  <2>1. \A g \in Codes : guesses[g] <= MaxGuesses
    BY SignInAssumption DEF CodeInv, GuessesCounted, SignInTypeOK
  <2> QED
    BY <2>1 DEF CodeInv, LimitsAreExact, OneIssue, ReadIsTrue
<1> QED
  BY <1>1, CodeInvInit, CodeInvStep, PTL DEF SignInSpec

-----------------------------------------------------------------------------
(* The block *)

(* While the user is blocked: a socket whose handshake is through but not  *)
(* its room was so when the block came; until disconnectUser has run, the  *)
(* sockets of the room are still to be closed.                             *)
BlockInv ==
    /\ socket \in [Sockets -> {"closed", "authenticated", "joined"}]
    /\ spared \subseteq Sockets
    /\ blocked => \A k \in Sockets : socket[k] = "authenticated" => k \in spared
    /\ BlockedIsDisconnected

LEMMA BlockInvStep == BlockInv /\ [SignInNext]_signInVars => BlockInv'
<1> SUFFICES ASSUME BlockInv, [SignInNext]_signInVars PROVE BlockInv'
  OBVIOUS
<1> USE DEF BlockInv, BlockedIsDisconnected
<1>1. ASSUME NEW k \in Sockets, Handshake(k) PROVE BlockInv'
  BY <1>1 DEF Handshake, Authenticates
<1>2. ASSUME NEW k \in Sockets, JoinRoom(k) PROVE BlockInv'
  BY <1>2 DEF JoinRoom
<1>3. ASSUME NEW k \in Sockets, CloseSocket(k) PROVE BlockInv'
  BY <1>3 DEF CloseSocket
<1>4. CASE BlockUser
  BY <1>4 DEF BlockUser
<1>5. CASE DisconnectUser
  BY <1>5 DEF DisconnectUser, InRoom
<1>6. CASE BlockDies
  BY <1>6 DEF BlockDies
<1>7. CASE UnblockUser
  BY <1>7 DEF UnblockUser
<1>8. CASE UNCHANGED signInVars
  BY <1>8 DEF signInVars
<1>9. ASSUME NEW c \in AuthCalls,
             \/ AskOrVerify(c) \/ CountSends(c) \/ InsertCode(c) \/ ReadCode(c)
             \/ CountGuess(c) \/ UseCode(c) \/ IssueToken(c) \/ CallDies(c)
      PROVE  BlockInv'
  <2>1. UNCHANGED <<blocked, socket, kicking, spared>>
    BY <1>9 DEF AskOrVerify, CountSends, InsertCode, ReadCode, CountGuess, UseCode, IssueToken,
                CallDies, socketVars
  <2> QED  BY <2>1
<1>10. ASSUME NEW g \in Codes, CodeExpires(g) \/ WindowMoves(g) PROVE BlockInv'
  BY <1>10 DEF CodeExpires, WindowMoves, socketVars
<1> QED
  BY <1>1, <1>2, <1>3, <1>4, <1>5, <1>6, <1>7, <1>8, <1>9, <1>10 DEF SignInNext

(* The sockets that outlive a block are those of a handshake that the      *)
(* block overtook, and of a block that died before disconnectUser.         *)
THEOREM BlockDisconnects == SignInSpec => []BlockedIsDisconnected
<1>1. SignInInit => BlockInv
  BY DEF SignInInit, BlockInv, BlockedIsDisconnected
<1>2. BlockInv => BlockedIsDisconnected
  BY DEF BlockInv
<1> QED
  BY <1>1, <1>2, BlockInvStep, PTL DEF SignInSpec

-----------------------------------------------------------------------------
(* Alerts: the inductive invariant *)

AlertRow == [status : {"NONE", "RESOLVED"} \cup Unresolved,
             severity : {"WARNING", "HIGH", "CRITICAL"}, level : 0..2, late : BOOLEAN]
DeliveryRow == [status : {"NONE", "PENDING", "SENDING", "SENT", "FAILED", "EXHAUSTED"},
                posts : 0..MaxPosts]
SenderRow == [at : {"idle", "claimed", "post", "ok", "error"},
              key : (Alerts \cup {NoAlert}) \X Reasons, severity : {"WARNING", "HIGH", "CRITICAL"}]

(* A delivery that is posted is in SENDING, one process posts it, and what  *)
(* the webhook has answered it has been told.                              *)
SendersHold ==
    /\ \A s \in Senders : sender[s].at # "idle" =>
          sender[s].key \in Keys /\ delivery[sender[s].key].status = "SENDING"
    /\ \A s \in Senders : sender[s].at = "ok" => <<sender[s].key[1], sender[s].severity>> \in posted
    /\ OneSenderPerDelivery

(* An alert that is not there has no deliveries, and one that was never    *)
(* raised to CRITICAL has not announced that.                              *)
NoneTooEarly ==
    \A a \in Alerts :
        /\ alert[a].status = "NONE" =>
              alert[a].severity = "WARNING" /\ \A r \in Reasons : delivery[<<a, r>>].status = "NONE"
        /\ alert[a].severity # "CRITICAL" => delivery[<<a, "SEVERITY_UPGRADE">>].status = "NONE"

(* An escalation in progress meets an alert that is late, or answered.     *)
CandidatesLate ==
    \A e \in Escalators : LET c == escalator[e]
                          IN  c.alert \in Alerts =>
                                /\ alert[c.alert].status # "NONE"
                                /\ c.status = "ACKNOWLEDGED" => alert[c.alert].status # "OPEN"
                                /\ alert[c.alert].status = c.status => alert[c.alert].late

AlertsInv == AlertsTypeOK /\ SendersHold /\ NoneTooEarly /\ CriticalIsAnnounced /\ CandidatesLate

LEMMA Ranks == DOMAIN Rank = {"WARNING", "HIGH", "CRITICAL"}
  BY DEF Rank

LEMMA RankOrder ==
    ASSUME NEW x \in {"WARNING", "HIGH", "CRITICAL"}, NEW y \in {"WARNING", "HIGH", "CRITICAL"},
           Rank[x] > Rank[y]
    PROVE  y # "CRITICAL"
  BY DEF Rank

LEMMA AlertTypes ==
    AlertsTypeOK <=>
        /\ alert \in [Alerts -> AlertRow] /\ delivery \in [Keys -> DeliveryRow]
        /\ sender \in [Senders -> SenderRow]
        /\ escalator \in [Escalators -> [alert : Alerts \cup {NoAlert}, status : Unresolved]]
        /\ posted \subseteq Alerts \X {"WARNING", "HIGH", "CRITICAL"} /\ dropped \subseteq Keys
  BY Ranks DEF AlertsTypeOK, AlertRow, DeliveryRow, SenderRow

(* Queueing changes the one delivery, and only where there was none.       *)
LEMMA Queueing ==
    ASSUME AlertsTypeOK, NEW key \in Keys
    PROVE  /\ Queued(key) \in [Keys -> DeliveryRow]
           /\ Queued(key)[key].status # "NONE"
           /\ delivery[key].status = "NONE" => Queued(key)[key].status = "PENDING"
           /\ \A k \in Keys : k # key \/ delivery[k].status # "NONE" => Queued(key)[k] = delivery[k]
<1>1. delivery \in [Keys -> DeliveryRow]
  BY AlertTypes
<1>2. [delivery[key] EXCEPT !.status = "PENDING"] \in DeliveryRow
  BY <1>1 DEF DeliveryRow
<1>3. [delivery[key] EXCEPT !.status = "PENDING"].status = "PENDING"
  BY <1>1 DEF DeliveryRow
<1> QED
  BY <1>1, <1>2, <1>3 DEF Queued

-----------------------------------------------------------------------------
(* What the steps keep *)

(* Steps of events, operators and escalations: no sender moves, deliveries *)
(* are only added, and a critical alert is one that was or that queues.    *)
OnlyQueues ==
    /\ UNCHANGED <<sender, posted, dropped>>
    /\ delivery' \in [Keys -> DeliveryRow]
    /\ \A k \in Keys : delivery[k].status # "NONE" => delivery'[k] = delivery[k]
    /\ alert' \in [Alerts -> AlertRow]
    /\ \A a \in Alerts : alert'[a].severity = "CRITICAL" =>
          \/ alert[a].severity = "CRITICAL"
          \/ \E r \in Reasons : delivery'[<<a, r>>].status = "PENDING"

LEMMA QueueingKeeps ==
    ASSUME AlertsInv, OnlyQueues
    PROVE  SendersHold' /\ CriticalIsAnnounced'
<1>1. /\ alert \in [Alerts -> AlertRow] /\ delivery \in [Keys -> DeliveryRow]
      /\ sender \in [Senders -> SenderRow]
  BY AlertTypes DEF AlertsInv
<1>2. SendersHold'
  BY <1>1 DEF OnlyQueues, AlertsInv, SendersHold, OneSenderPerDelivery
<1>3. ASSUME NEW a \in Alerts, alert'[a].severity = "CRITICAL", alert[a].severity = "CRITICAL",
             <<a, "CRITICAL">> \notin posted'
      PROVE  \E r \in Reasons :
              \/ delivery'[<<a, r>>].status \in {"PENDING", "FAILED", "EXHAUSTED"}
              \/ <<a, r>> \in dropped'
              \/ \E s \in Senders :
                    /\ sender'[s].key = <<a, r>> /\ sender'[s].at # "idle"
                    /\ sender'[s].at = "claimed" \/ sender'[s].severity = "CRITICAL"
  <2>1. PICK r \in Reasons :
              \/ delivery[<<a, r>>].status \in {"PENDING", "FAILED", "EXHAUSTED"}
              \/ <<a, r>> \in dropped
              \/ \E s \in Senders :
                    /\ sender[s].key = <<a, r>> /\ sender[s].at # "idle"
                    /\ sender[s].at = "claimed" \/ sender[s].severity = "CRITICAL"
    BY <1>3 DEF AlertsInv, CriticalIsAnnounced, OnlyQueues
  <2>2. <<a, r>> \in Keys
    BY DEF Keys
  <2> QED  BY <2>1, <2>2 DEF OnlyQueues
<1>4. CriticalIsAnnounced'
  BY <1>3 DEF OnlyQueues, CriticalIsAnnounced
<1> QED
  BY <1>2, <1>4

(* No escalation starts.                                                   *)
Forgets ==
    /\ escalator' \in [Escalators -> [alert : Alerts \cup {NoAlert}, status : Unresolved]]
    /\ \A e \in Escalators : escalator'[e] \in {escalator[e], NotEscalating}

(* The row of one alert is written.                                        *)
Writes(a, row) ==
    /\ row \in AlertRow /\ alert' = [alert EXCEPT ![a] = row] /\ row.status # "NONE"
    /\ Forgets /\ UNCHANGED <<sender, posted, dropped>>

(* Whatever is written to an alert, who has read it as late still finds it *)
(* late or answered: the deadline is reset by an answer alone.             *)
LEMMA WritesKeepLate ==
    ASSUME AlertsInv, NEW a \in Alerts, NEW row, Writes(a, row),
           \/ alert[a].status = "NONE"
           \/ row.status = alert[a].status /\ (row.late = alert[a].late \/ row.late)
           \/ alert[a].status = "OPEN" /\ row.status = "ACKNOWLEDGED"
           \/ row.status = "RESOLVED"
    PROVE  CandidatesLate'
<1>1. /\ alert \in [Alerts -> AlertRow]
      /\ escalator \in [Escalators -> [alert : Alerts \cup {NoAlert}, status : Unresolved]]
  BY AlertTypes DEF AlertsInv
<1>2. ASSUME NEW e \in Escalators, escalator'[e].alert \in Alerts
      PROVE  LET c == escalator'[e]
             IN  /\ alert'[c.alert].status # "NONE"
                 /\ c.status = "ACKNOWLEDGED" => alert'[c.alert].status # "OPEN"
                 /\ alert'[c.alert].status = c.status => alert'[c.alert].late
  <2>0. escalator'[e] = escalator[e] /\ escalator[e].alert \in Alerts
    BY <1>2, AlertsAssumption DEF Writes, Forgets, NotEscalating
  <2>1. /\ alert[escalator[e].alert].status # "NONE"
        /\ escalator[e].status = "ACKNOWLEDGED" => alert[escalator[e].alert].status # "OPEN"
        /\ alert[escalator[e].alert].status = escalator[e].status => alert[escalator[e].alert].late
        /\ escalator[e].status \in {"OPEN", "ACKNOWLEDGED"}
    BY <1>1, <2>0 DEF AlertsInv, CandidatesLate, Unresolved
  <2>2. CASE escalator[e].alert = a
    <3>1. alert'[a] = row
      BY <1>1 DEF Writes
    <3> QED  BY <2>0, <2>1, <2>2, <3>1 DEF Writes
  <2>3. CASE escalator[e].alert # a
    BY <1>1, <2>0, <2>1, <2>3 DEF Writes
  <2> QED  BY <2>2, <2>3
<1> QED
  BY <1>2 DEF CandidatesLate

(* A write that queues what it owes leaves no alert with a delivery before *)
(* its time, and no critical one without.                                  *)
LEMMA WritesQueue ==
    ASSUME AlertsInv, NEW a \in Alerts, NEW row, Writes(a, row), NEW key \in Keys, key[1] = a,
           delivery' = delivery \/ delivery' = Queued(key),
           key[2] = "SEVERITY_UPGRADE" /\ delivery' # delivery => row.severity = "CRITICAL",
           alert[a].severity = "CRITICAL" => row.severity = "CRITICAL",
           row.severity = "CRITICAL" =>
               \/ alert[a].severity = "CRITICAL"
               \/ delivery' = Queued(key) /\ delivery[key].status = "NONE"
    PROVE  OnlyQueues /\ NoneTooEarly'
<1>1. alert \in [Alerts -> AlertRow] /\ delivery \in [Keys -> DeliveryRow]
  BY AlertTypes DEF AlertsInv
<1>2. /\ delivery' \in [Keys -> DeliveryRow]
      /\ \A k \in Keys : k # key \/ delivery[k].status # "NONE" => delivery'[k] = delivery[k]
      /\ delivery' # delivery /\ delivery[key].status = "NONE" => delivery'[key].status = "PENDING"
      /\ delivery' = Queued(key) /\ delivery[key].status = "NONE" => delivery'[key].status = "PENDING"
  <2>1. CASE delivery' = delivery /\ delivery' # Queued(key)
    BY <1>1, <2>1
  <2>2. CASE delivery' = Queued(key)
    BY <2>2, Queueing DEF AlertsInv
  <2> QED  BY <2>1, <2>2
<1>3. alert' \in [Alerts -> AlertRow] /\ alert'[a] = row /\ \A b \in Alerts : b # a => alert'[b] = alert[b]
  BY <1>1 DEF Writes
<1>4. PICK q \in Reasons : key = <<a, q>>
  BY DEF Keys
<1>5. \A b \in Alerts : alert'[b].severity = "CRITICAL" =>
          \/ alert[b].severity = "CRITICAL"
          \/ \E r \in Reasons : delivery'[<<b, r>>].status = "PENDING"
  BY <1>2, <1>3, <1>4
<1>6. OnlyQueues
  BY <1>2, <1>3, <1>5 DEF OnlyQueues, Writes
<1>7. ASSUME NEW b \in Alerts
      PROVE  /\ alert'[b].status = "NONE" =>
                   alert'[b].severity = "WARNING" /\ \A r \in Reasons : delivery'[<<b, r>>].status = "NONE"
             /\ alert'[b].severity # "CRITICAL" => delivery'[<<b, "SEVERITY_UPGRADE">>].status = "NONE"
  <2>1. "SEVERITY_UPGRADE" \in Reasons /\ \A r \in Reasons : <<b, r>> \in Keys
    BY DEF Keys, Reasons
  <2>2. CASE b # a
    <3>1. \A r \in Reasons : delivery'[<<b, r>>] = delivery[<<b, r>>]
      BY <1>2, <1>4, <2>1, <2>2
    <3> QED  BY <1>3, <2>1, <2>2, <3>1 DEF AlertsInv, NoneTooEarly
  <2>3. CASE b = a
    <3>1. delivery'[<<a, "SEVERITY_UPGRADE">>] = delivery[<<a, "SEVERITY_UPGRADE">>] \/ row.severity = "CRITICAL"
      BY <1>2, <1>4, <2>1, <2>3
    <3> QED  BY <1>3, <2>3, <3>1 DEF AlertsInv, NoneTooEarly, Writes
  <2> QED  BY <2>2, <2>3
<1>8. NoneTooEarly'
  BY <1>7 DEF NoneTooEarly
<1> QED
  BY <1>6, <1>8

(* Types, where only alerts and deliveries are written.                    *)
LEMMA QueueTypes ==
    ASSUME AlertsTypeOK, OnlyQueues,
           escalator' \in [Escalators -> [alert : Alerts \cup {NoAlert}, status : Unresolved]]
    PROVE  AlertsTypeOK'
  BY Ranks DEF AlertsTypeOK, OnlyQueues, AlertRow, DeliveryRow

Kept == OnlyQueues /\ NoneTooEarly' /\ CandidatesLate' /\ AlertsTypeOK'

LEMMA RewritesKeep ==
    ASSUME AlertsInv, NEW a \in Alerts, NEW row, Writes(a, row), row.severity = alert[a].severity,
           delivery' = delivery,
           \/ row.status = alert[a].status /\ row.late
           \/ alert[a].status = "OPEN" /\ row.status = "ACKNOWLEDGED"
           \/ row.status = "RESOLVED"
    PROVE  Kept
<1>1. <<a, "INITIAL">> \in Keys /\ AlertsTypeOK
  BY DEF Keys, Reasons, AlertsInv
<1>2. OnlyQueues /\ NoneTooEarly'
  BY <1>1, WritesQueue
<1>3. CandidatesLate'
  BY WritesKeepLate
<1>4. escalator' \in [Escalators -> [alert : Alerts \cup {NoAlert}, status : Unresolved]]
  BY DEF Writes, Forgets
<1> QED
  BY <1>1, <1>2, <1>3, <1>4, QueueTypes DEF Kept

LEMMA EventSteps ==
    ASSUME AlertsInv, NEW a \in Alerts,
           \/ \E severity \in Severities : OpenAlert(a, severity) \/ RaiseAlert(a, severity)
           \/ AcknowledgeAlert(a) \/ ResolveAlert(a) \/ DeadlinePasses(a)
           \/ \E r \in Retries : RetryAlert(a, r)
    PROVE  Kept
<1>0. /\ alert \in [Alerts -> AlertRow] /\ alert[a] \in AlertRow
      /\ escalator \in [Escalators -> [alert : Alerts \cup {NoAlert}, status : Unresolved]]
      /\ AlertsTypeOK /\ <<a, "INITIAL">> \in Keys /\ <<a, "SEVERITY_UPGRADE">> \in Keys
      /\ Severities \subseteq {"WARNING", "HIGH", "CRITICAL"}
      /\ \A r \in Reasons : alert[a].status = "NONE" => delivery[<<a, r>>].status = "NONE"
      /\ alert[a].severity # "CRITICAL" => delivery[<<a, "SEVERITY_UPGRADE">>].status = "NONE"
      /\ alert[a].status = "NONE" => alert[a].severity = "WARNING"
  BY AlertTypes, AlertsAssumption DEF AlertsInv, Keys, Reasons, NoneTooEarly
<1>1. ASSUME NEW severity \in Severities, OpenAlert(a, severity) PROVE Kept
  <2> DEFINE row == [alert[a] EXCEPT !.status = "OPEN", !.severity = severity]
  <2>1. /\ Writes(a, row) /\ row.severity = severity /\ alert[a].status = "NONE"
        /\ severity # "WARNING" => delivery' = Queued(<<a, "INITIAL">>)
        /\ severity = "WARNING" => delivery' = delivery
    BY <1>0, <1>1 DEF OpenAlert, AlertRow, Unresolved, Writes, Forgets
  <2> HIDE DEF row
  <2>2. "INITIAL" \in Reasons
    BY DEF Reasons
  <2>3. OnlyQueues /\ NoneTooEarly'
    BY <1>0, <2>1, <2>2, WritesQueue
  <2>4. CandidatesLate'
    BY <2>1, WritesKeepLate
  <2> QED  BY <1>0, <2>1, <2>3, <2>4, QueueTypes DEF Writes, Forgets, Kept
<1>2. ASSUME NEW severity \in Severities, RaiseAlert(a, severity) PROVE Kept
  <2> DEFINE row == [alert[a] EXCEPT !.severity = severity]
  <2>1. /\ Writes(a, row) /\ row.severity = severity /\ row.status = alert[a].status /\ row.late = alert[a].late
        /\ severity = "CRITICAL" => delivery' = Queued(<<a, "SEVERITY_UPGRADE">>)
        /\ severity # "CRITICAL" => delivery' = delivery
    BY <1>0, <1>2 DEF RaiseAlert, AnnouncesUpgrade, OpenAlerts, AlertRow, Unresolved, Writes, Forgets
  <2>2. alert[a].severity # "CRITICAL"
    BY <1>0, <1>2, RankOrder DEF RaiseAlert, AlertRow
  <2> HIDE DEF row
  <2>3. OnlyQueues /\ NoneTooEarly'
    BY <1>0, <2>1, <2>2, WritesQueue
  <2>4. CandidatesLate'
    BY <2>1, WritesKeepLate
  <2> QED  BY <1>0, <2>1, <2>3, <2>4, QueueTypes DEF Writes, Forgets, Kept
<1>3. ASSUME AcknowledgeAlert(a) \/ ResolveAlert(a) \/ DeadlinePasses(a) PROVE Kept
  <2>1. CASE AcknowledgeAlert(a)
    <3> DEFINE row == [alert[a] EXCEPT !.status = "ACKNOWLEDGED", !.late = FALSE]
    <3>1. row \in AlertRow /\ row.status # "NONE" /\ row.severity = alert[a].severity /\ row.status = "ACKNOWLEDGED" /\ alert[a].status = "OPEN"
      BY <1>0, <2>1 DEF AcknowledgeAlert, AlertRow, Unresolved
    <3>2. alert' = [alert EXCEPT ![a] = row] /\ UNCHANGED <<delivery, sender, escalator, posted, dropped>>
      BY <1>0, <2>1 DEF AcknowledgeAlert
    <3> HIDE DEF row
    <3>3. Writes(a, row)
      BY <1>0, <3>1, <3>2 DEF Writes, Forgets
    <3> QED  BY <3>1, <3>2, <3>3, RewritesKeep
  <2>2. CASE ResolveAlert(a)
    <3> DEFINE row == [alert[a] EXCEPT !.status = "RESOLVED", !.late = FALSE]
    <3>1. row \in AlertRow /\ row.status # "NONE" /\ row.severity = alert[a].severity /\ row.status = "RESOLVED"
      BY <1>0, <2>2 DEF ResolveAlert, AlertRow, Unresolved
    <3>2. alert' = [alert EXCEPT ![a] = row] /\ UNCHANGED <<delivery, sender, escalator, posted, dropped>>
      BY <1>0, <2>2 DEF ResolveAlert
    <3> HIDE DEF row
    <3>3. Writes(a, row)
      BY <1>0, <3>1, <3>2 DEF Writes, Forgets
    <3> QED  BY <3>1, <3>2, <3>3, RewritesKeep
  <2>3. CASE DeadlinePasses(a)
    <3> DEFINE row == [alert[a] EXCEPT !.late = TRUE]
    <3>1. row \in AlertRow /\ row.status # "NONE" /\ row.severity = alert[a].severity /\ row.status = alert[a].status /\ row.late
      BY <1>0, <2>3 DEF DeadlinePasses, AlertRow, Unresolved
    <3>2. alert' = [alert EXCEPT ![a] = row] /\ UNCHANGED <<delivery, sender, escalator, posted, dropped>>
      BY <1>0, <2>3 DEF DeadlinePasses
    <3> HIDE DEF row
    <3>3. Writes(a, row)
      BY <1>0, <3>1, <3>2 DEF Writes, Forgets
    <3> QED  BY <3>1, <3>2, <3>3, RewritesKeep
  <2> QED  BY <1>3, <2>1, <2>2, <2>3
<1>4. ASSUME NEW r \in Retries, RetryAlert(a, r) PROVE Kept
  <2>1. <<a, r>> \in Keys /\ r # "SEVERITY_UPGRADE"
    BY AlertsAssumption DEF Keys, Reasons
  <2>2. /\ Writes(a, alert[a]) /\ delivery' = Queued(<<a, r>>)
    BY <1>0, <1>4 DEF RetryAlert, Writes, Forgets
  <2>3. OnlyQueues /\ NoneTooEarly'
    BY <1>0, <2>1, <2>2, WritesQueue
  <2>4. CandidatesLate'
    BY <2>2, WritesKeepLate
  <2> QED  BY <1>0, <2>2, <2>3, <2>4, QueueTypes DEF Writes, Forgets, Kept
<1> QED
  BY <1>1, <1>2, <1>3, <1>4

LEMMA EscalationSteps ==
    ASSUME AlertsInv, NEW e \in Escalators,
           EscalateOne(e) \/ EscalatorDies(e) \/ \E a \in Alerts : ReadOverdue(e, a)
    PROVE  Kept
<1> DEFINE c == escalator[e]
<1>1. /\ alert \in [Alerts -> AlertRow] /\ delivery \in [Keys -> DeliveryRow] /\ AlertsTypeOK
      /\ escalator \in [Escalators -> [alert : Alerts \cup {NoAlert}, status : Unresolved]]
      /\ NoAlert \notin Alerts /\ NoneTooEarly /\ CandidatesLate
  BY AlertTypes, AlertsAssumption DEF AlertsInv
<1>2. escalator' = [escalator EXCEPT ![e] = NotEscalating] => Forgets
  BY <1>1 DEF Forgets, NotEscalating, Unresolved
<1>3. ASSUME UNCHANGED <<alert, delivery, sender, posted, dropped>>,
             escalator' \in [Escalators -> [alert : Alerts \cup {NoAlert}, status : Unresolved]],
             CandidatesLate'
      PROVE  Kept
  <2>1. OnlyQueues /\ NoneTooEarly'
    BY <1>1, <1>3 DEF OnlyQueues, NoneTooEarly
  <2> QED  BY <1>1, <1>3, <2>1, QueueTypes DEF Kept
<1>4. ASSUME UNCHANGED <<alert, delivery, sender, posted, dropped>>,
             escalator' = [escalator EXCEPT ![e] = NotEscalating]
      PROVE  Kept
  <2>1. CandidatesLate'
    BY <1>1, <1>2, <1>4 DEF CandidatesLate, Forgets, NotEscalating
  <2> QED  BY <1>2, <1>3, <1>4, <2>1 DEF Forgets
<1>5. ASSUME NEW a \in Alerts, ReadOverdue(e, a) PROVE Kept
  <2>1. /\ escalator' = [escalator EXCEPT ![e] = [alert |-> a, status |-> alert[a].status]]
        /\ alert[a].status \in Unresolved /\ alert[a].late
    BY <1>5 DEF ReadOverdue
  <2>2. /\ escalator' \in [Escalators -> [alert : Alerts \cup {NoAlert}, status : Unresolved]]
        /\ escalator'[e] = [alert |-> a, status |-> alert[a].status]
        /\ \A f \in Escalators : f # e => escalator'[f] = escalator[f]
    BY <1>1, <2>1
  <2>3. CandidatesLate'
    BY <1>1, <1>5, <2>1, <2>2 DEF CandidatesLate, ReadOverdue, Unresolved
  <2> QED  BY <1>3, <1>5, <2>2, <2>3 DEF ReadOverdue
<1>6. CASE EscalatorDies(e)
  BY <1>4, <1>6 DEF EscalatorDies
<1>7. CASE EscalateOne(e) /\ ~Escalates(c)
  BY <1>4, <1>7 DEF EscalateOne
<1>8. CASE EscalateOne(e) /\ Escalates(c)
  <2> DEFINE row == [alert[c.alert] EXCEPT !.level = TargetLevel(c.status)]
             key == <<c.alert, Breach(c.status)>>
  <2>1. c.alert \in Alerts /\ c.status \in Unresolved /\ alert[c.alert] \in AlertRow
    BY <1>1, <1>8 DEF EscalateOne
  <2>2. key \in Keys /\ key[1] = c.alert /\ key[2] # "SEVERITY_UPGRADE"
    BY <2>1 DEF Keys, Reasons, Breach
  <2>3. TargetLevel(c.status) \in 0..2
    BY DEF TargetLevel
  <2>4. /\ row \in AlertRow /\ row.severity = alert[c.alert].severity
        /\ row.status = alert[c.alert].status /\ row.late = alert[c.alert].late
    BY <2>1, <2>3 DEF AlertRow
  <2>5. row.status # "NONE"
    BY <1>1, <2>1, <2>4 DEF CandidatesLate
  <2>6. /\ alert' = [alert EXCEPT ![c.alert] = row] /\ delivery' = Queued(key)
        /\ escalator' = [escalator EXCEPT ![e] = NotEscalating]
        /\ UNCHANGED <<sender, posted, dropped>>
    BY <1>1, <1>8, <2>1 DEF EscalateOne
  <2> HIDE DEF row, key
  <2>7. Writes(c.alert, row)
    BY <1>2, <2>4, <2>5, <2>6 DEF Writes
  <2> HIDE DEF c
  <2>8. OnlyQueues /\ NoneTooEarly'
    BY <2>1, <2>2, <2>4, <2>6, <2>7, WritesQueue
  <2>9. CandidatesLate'
    BY <2>1, <2>4, <2>7, WritesKeepLate
  <2> QED  BY <1>1, <2>7, <2>8, <2>9, QueueTypes DEF Writes, Forgets, Kept
<1> QED
  BY <1>5, <1>6, <1>7, <1>8

-----------------------------------------------------------------------------
(* The steps of the senders *)

(* The delivery of an alert that is still to tell it as critical.          *)
WillTell(key, d, sn, dr) ==
    \/ d[key].status \in {"PENDING", "FAILED", "EXHAUSTED"}
    \/ key \in dr
    \/ \E s \in Senders : sn[s].key = key /\ sn[s].at # "idle"
                          /\ (sn[s].at = "claimed" \/ sn[s].severity = "CRITICAL")

TellsNow(key) == WillTell(key, delivery, sender, dropped)
TellsNext(key) == WillTell(key, delivery', sender', dropped')

(* One sender goes on with its delivery, which is no other sender's: it    *)
(* is enough that the delivery still tells what it would have told.        *)
SenderMoves(s, row, key) ==
    /\ row \in SenderRow /\ sender' = [sender EXCEPT ![s] = row]
    /\ alert' = alert /\ escalator' = escalator
    /\ delivery' \in [Keys -> DeliveryRow] /\ delivery[key].status # "NONE"
    /\ \A k \in Keys : k # key => delivery'[k] = delivery[k]
    /\ posted \subseteq posted' /\ posted' \subseteq Alerts \X {"WARNING", "HIGH", "CRITICAL"}
    /\ dropped \subseteq dropped' /\ dropped' \subseteq Keys
    /\ \A t \in Senders : t # s /\ sender[t].at # "idle" => sender[t].key # key
    /\ sender[s].at # "idle" => sender[s].key = key
    /\ row.at # "idle" => row.key = key /\ delivery'[key].status = "SENDING"
    /\ row.at = "ok" => <<row.key[1], row.severity>> \in posted'
    /\ alert[key[1]].severity = "CRITICAL" /\ TellsNow(key) =>
          <<key[1], "CRITICAL">> \in posted' \/ TellsNext(key)

LEMMA SenderGoesOn ==
    ASSUME AlertsInv, NEW s \in Senders, NEW row, NEW key \in Keys, SenderMoves(s, row, key)
    PROVE  AlertsInv'
<1>1. /\ AlertsTypeOK /\ SendersHold /\ NoneTooEarly /\ CriticalIsAnnounced /\ CandidatesLate
      /\ sender \in [Senders -> SenderRow] /\ alert \in [Alerts -> AlertRow]
  BY AlertTypes DEF AlertsInv
<1>2. sender'[s] = row /\ \A t \in Senders : t # s => sender'[t] = sender[t]
  BY <1>1 DEF SenderMoves
<1>3. AlertsTypeOK'
  <2>1. sender' \in [Senders -> SenderRow]
    BY <1>1 DEF SenderMoves
  <2> QED  BY <1>1, <2>1, Ranks DEF SenderMoves, AlertsTypeOK, SenderRow, DeliveryRow
<1>4. SendersHold'
  BY <1>1, <1>2 DEF SenderMoves, SendersHold, OneSenderPerDelivery
<1>5. NoneTooEarly'
  <2>1. \A k \in Keys : delivery[k].status = "NONE" => delivery'[k].status = "NONE"
    BY DEF SenderMoves
  <2>2. "SEVERITY_UPGRADE" \in Reasons /\ \A a \in Alerts, r \in Reasons : <<a, r>> \in Keys
    BY DEF Keys, Reasons
  <2> QED  BY <1>1, <2>1, <2>2 DEF SenderMoves, NoneTooEarly
<1>6. ASSUME NEW a \in Alerts, alert'[a].severity = "CRITICAL", <<a, "CRITICAL">> \notin posted'
      PROVE  \E r \in Reasons : TellsNext(<<a, r>>)
  <2>1. PICK r \in Reasons : TellsNow(<<a, r>>)
    BY <1>1, <1>6 DEF SenderMoves, CriticalIsAnnounced, WillTell, TellsNow, TellsNext
  <2>2. <<a, r>> \in Keys
    BY DEF Keys
  <2>3. CASE <<a, r>> = key
    BY <1>6, <2>1, <2>3 DEF SenderMoves
  <2>4. CASE <<a, r>> # key
    BY <1>2, <2>1, <2>2, <2>4 DEF SenderMoves, WillTell, TellsNow, TellsNext
  <2> QED  BY <2>3, <2>4
<1>7. CriticalIsAnnounced'
  BY <1>6 DEF CriticalIsAnnounced, WillTell, TellsNow, TellsNext
<1>8. CandidatesLate'
  BY <1>1 DEF SenderMoves, CandidatesLate
<1> QED
  BY <1>3, <1>4, <1>5, <1>7, <1>8 DEF AlertsInv

(* The outcome of a post goes to the delivery in SENDING.                  *)
LEMMA Outcomes ==
    ASSUME AlertsInv, NEW s \in Senders, sender[s].at # "idle",
           NEW status \in {"SENT", "FAILED", "EXHAUSTED"}
    PROVE  /\ Outcome(s, status) \in [Keys -> DeliveryRow]
           /\ Outcome(s, status)[sender[s].key].status = status
           /\ \A k \in Keys : k # sender[s].key => Outcome(s, status)[k] = delivery[k]
<1>1. delivery \in [Keys -> DeliveryRow] /\ sender[s].key \in Keys /\ delivery[sender[s].key].status = "SENDING"
  BY AlertTypes DEF AlertsInv, SendersHold
<1>2. [delivery[sender[s].key] EXCEPT !.status = status] \in DeliveryRow
  BY <1>1 DEF DeliveryRow
<1>3. [delivery[sender[s].key] EXCEPT !.status = status].status = status
  BY <1>1 DEF DeliveryRow
<1> QED
  BY <1>1, <1>2, <1>3 DEF Outcome

LEMMA SenderSteps ==
    ASSUME AlertsInv, NEW s \in Senders,
           SenderStep(s) \/ SenderDies(s) \/ \E key \in Keys : ClaimDelivery(s, key)
    PROVE  AlertsInv'
<1>0. PICK k : k = sender[s].key
  OBVIOUS
<1>1. /\ sender \in [Senders -> SenderRow] /\ delivery \in [Keys -> DeliveryRow]
      /\ posted \subseteq Alerts \X {"WARNING", "HIGH", "CRITICAL"} /\ dropped \subseteq Keys
      /\ alert \in [Alerts -> AlertRow] /\ SendersHold /\ OneSenderPerDelivery
      /\ sender[s] \in SenderRow
  BY AlertTypes DEF AlertsInv, SendersHold
<1>2. MaxPosts \in Nat \ {0}
  BY AlertsAssumption
<1>3. NotSending \in SenderRow /\ NotSending.at = "idle"
  BY DEF NotSending, SenderRow, Reasons
<1>4. ASSUME NEW key \in Keys, ClaimDelivery(s, key) PROVE AlertsInv'
  <2> DEFINE row == [sender[s] EXCEPT !.at = "claimed", !.key = key]
             claim == [status |-> "SENDING", posts |-> delivery[key].posts + 1]
  <2>1. /\ sender[s].at = "idle" /\ delivery[key].status \in {"PENDING", "FAILED"}
        /\ delivery[key].posts < MaxPosts
        /\ delivery' = [delivery EXCEPT ![key] = claim]
        /\ sender' = [sender EXCEPT ![s].at = "claimed", ![s].key = key]
        /\ UNCHANGED <<alert, escalator, posted, dropped>>
    BY <1>4 DEF ClaimDelivery, SenderAt, Claimed
  <2>2. claim \in DeliveryRow /\ claim.status = "SENDING"
    BY <1>1, <1>2, <2>1 DEF DeliveryRow
  <2>3. row \in SenderRow /\ row.at = "claimed" /\ row.key = key
    BY <1>1 DEF SenderRow, Keys
  <2>4. sender' = [sender EXCEPT ![s] = row]
    BY <1>1, <2>1
  <2> HIDE DEF row, claim
  <2>5. /\ delivery' \in [Keys -> DeliveryRow] /\ delivery'[key].status = "SENDING"
        /\ \A j \in Keys : j # key => delivery'[j] = delivery[j]
    BY <1>1, <2>1, <2>2
  <2>6. \A t \in Senders : t # s /\ sender[t].at # "idle" => sender[t].key # key
    BY <1>1, <2>1 DEF SendersHold
  <2>7. TellsNext(key)
    BY <1>0, <1>1, <2>3, <2>4 DEF WillTell, TellsNow, TellsNext
  <2>8. SenderMoves(s, row, key)
    BY <1>0, <1>1, <2>1, <2>3, <2>4, <2>5, <2>6, <2>7 DEF SenderMoves
  <2> QED  BY <2>8, SenderGoesOn
<1>5. ASSUME sender[s].at # "idle"
      PROVE  /\ k \in Keys /\ delivery[k].status = "SENDING"
             /\ \A t \in Senders : t # s /\ sender[t].at # "idle" => sender[t].key # k
             /\ TellsNow(k) => sender[s].at = "claimed" \/ sender[s].severity = "CRITICAL" \/ k \in dropped
             /\ k[1] \in Alerts
  BY <1>0, <1>1, <1>5 DEF SendersHold, OneSenderPerDelivery, WillTell, TellsNow, Keys
<1>6. CASE ReadAlert(s)
  <2> DEFINE row == [sender[s] EXCEPT !.at = "post", !.severity = alert[k[1]].severity]
  <2>1. /\ sender[s].at = "claimed"
        /\ sender' = [sender EXCEPT ![s].at = "post", ![s].severity = alert[k[1]].severity]
        /\ UNCHANGED <<alert, delivery, escalator, posted, dropped>>
    BY <1>0, <1>6 DEF ReadAlert, SenderAt
  <2>2. alert[k[1]].severity \in {"WARNING", "HIGH", "CRITICAL"}
    BY <1>1, <1>5, <2>1 DEF AlertRow
  <2>3. /\ row \in SenderRow /\ row.at = "post" /\ row.key = k /\ row.severity = alert[k[1]].severity
    BY <1>0, <1>1, <2>2 DEF SenderRow
  <2>4. sender' = [sender EXCEPT ![s] = row]
    BY <1>1, <2>1
  <2> HIDE DEF row
  <2>5. alert[k[1]].severity = "CRITICAL" => TellsNext(k)
    BY <1>0, <1>1, <2>3, <2>4 DEF WillTell, TellsNow, TellsNext
  <2>6. k \in Keys /\ SenderMoves(s, row, k)
    BY <1>0, <1>1, <1>5, <2>1, <2>3, <2>4, <2>5 DEF SenderMoves
  <2> QED  BY <2>6, SenderGoesOn
<1>7. ASSUME NEW at \in {"ok", "error"}, sender[s].at \in {"post", "ok"},
             sender' = [sender EXCEPT ![s].at = at],
             UNCHANGED <<alert, delivery, escalator, dropped>>,
             posted' = posted \/ posted' = posted \cup {<<k[1], sender[s].severity>>},
             at = "ok" => <<k[1], sender[s].severity>> \in posted'
      PROVE  AlertsInv'
  <2> DEFINE row == [sender[s] EXCEPT !.at = at]
  <2>1. row \in SenderRow /\ row.at = at /\ row.key = k /\ row.severity = sender[s].severity
    BY <1>0, <1>1 DEF SenderRow
  <2>2. sender' = [sender EXCEPT ![s] = row]
    BY <1>1, <1>7
  <2>3. posted \subseteq posted' /\ posted' \subseteq Alerts \X {"WARNING", "HIGH", "CRITICAL"}
    BY <1>1, <1>5, <1>7 DEF SenderRow
  <2> HIDE DEF row
  <2>4. TellsNow(k) => TellsNext(k)
    BY <1>0, <1>1, <1>5, <1>7, <2>1, <2>2 DEF WillTell, TellsNow, TellsNext
  <2>5. k \in Keys /\ SenderMoves(s, row, k)
    BY <1>0, <1>1, <1>5, <1>7, <2>1, <2>2, <2>3, <2>4 DEF SenderMoves
  <2> QED  BY <2>5, SenderGoesOn
<1>8. CASE PostAlert(s)
  BY <1>0, <1>7, <1>8 DEF PostAlert, SenderAt
<1>9. ASSUME NEW status \in {"SENT", "FAILED", "EXHAUSTED"}, sender[s].at \in {"ok", "error"},
             delivery' = Outcome(s, status), sender' = [sender EXCEPT ![s] = NotSending],
             UNCHANGED <<alert, escalator, posted, dropped>>,
             status = "SENT" => <<k[1], sender[s].severity>> \in posted
      PROVE  AlertsInv'
  <2>1. /\ delivery' \in [Keys -> DeliveryRow] /\ delivery'[k].status = status
        /\ \A j \in Keys : j # k => delivery'[j] = delivery[j]
    BY <1>0, <1>9, Outcomes
  <2>2. TellsNow(k) => <<k[1], "CRITICAL">> \in posted' \/ TellsNext(k)
    BY <1>0, <1>5, <1>9, <2>1 DEF WillTell, TellsNow, TellsNext
  <2>3. k \in Keys /\ SenderMoves(s, NotSending, k)
    BY <1>0, <1>1, <1>3, <1>5, <1>9, <2>1, <2>2 DEF SenderMoves
  <2> QED  BY <2>3, SenderGoesOn
<1>10. CASE MarkSent(s)
  <2>1. /\ sender[s].at = "ok" /\ <<k[1], sender[s].severity>> \in posted
        /\ UNCHANGED <<alert, escalator, posted, dropped>>
    BY <1>0, <1>1, <1>10 DEF MarkSent, SenderAt, SendersHold
  <2>2. CASE delivery' = Outcome(s, "SENT") /\ sender' = [sender EXCEPT ![s] = NotSending]
    BY <1>9, <2>1, <2>2
  <2>3. CASE sender' = [sender EXCEPT ![s].at = "error"] /\ UNCHANGED delivery
    BY <1>7, <2>1, <2>3
  <2> QED  BY <1>10, <2>2, <2>3 DEF MarkSent
<1>11. CASE MarkFailure(s)
  BY <1>0, <1>9, <1>11 DEF MarkFailure, SenderAt
<1>12. CASE SenderDies(s)
  <2>1. /\ sender[s].at # "idle" /\ sender' = [sender EXCEPT ![s] = NotSending]
        /\ dropped' = dropped \cup {k} /\ UNCHANGED <<alert, delivery, escalator, posted>>
    BY <1>0, <1>12 DEF SenderDies, SenderAt
  <2>2. TellsNext(k)
    BY <2>1 DEF WillTell, TellsNow, TellsNext
  <2>3. k \in Keys /\ SenderMoves(s, NotSending, k)
    BY <1>0, <1>1, <1>3, <1>5, <2>1, <2>2 DEF SenderMoves
  <2> QED  BY <2>3, SenderGoesOn
<1> QED
  BY <1>4, <1>6, <1>8, <1>10, <1>11, <1>12 DEF SenderStep

-----------------------------------------------------------------------------
(* Theorems about alerts *)

LEMMA AlertsInvInit == AlertsInit => AlertsInv
<1> SUFFICES ASSUME AlertsInit PROVE AlertsInv
  OBVIOUS
<1>1. /\ alert \in [Alerts -> AlertRow] /\ \A a \in Alerts : alert[a].severity = "WARNING"
  BY DEF AlertsInit, AlertRow, Unresolved
<1>2. delivery \in [Keys -> DeliveryRow] /\ \A k \in Keys : delivery[k].status = "NONE"
  BY AlertsAssumption DEF AlertsInit, DeliveryRow, NoDelivery
<1>3. sender \in [Senders -> SenderRow] /\ \A s \in Senders : sender[s].at = "idle"
  BY DEF AlertsInit, SenderRow, NotSending, Reasons
<1>4. /\ escalator \in [Escalators -> [alert : Alerts \cup {NoAlert}, status : Unresolved]]
      /\ \A e \in Escalators : escalator[e].alert = NoAlert
  BY DEF AlertsInit, NotEscalating, Unresolved
<1>5. AlertsTypeOK
  BY <1>1, <1>2, <1>3, <1>4, AlertTypes DEF AlertsInit
<1>6. SendersHold
  BY <1>3 DEF SendersHold, OneSenderPerDelivery
<1>7. NoneTooEarly
  <2>1. "SEVERITY_UPGRADE" \in Reasons /\ \A a \in Alerts, r \in Reasons : <<a, r>> \in Keys
    BY DEF Keys, Reasons
  <2> QED  BY <1>1, <1>2, <2>1 DEF NoneTooEarly
<1>8. CriticalIsAnnounced /\ CandidatesLate
  BY <1>1, <1>4, AlertsAssumption DEF CriticalIsAnnounced, CandidatesLate
<1> QED
  BY <1>5, <1>6, <1>7, <1>8 DEF AlertsInv

LEMMA AlertsInvStep == AlertsInv /\ [AlertsNext]_alertVars => AlertsInv'
<1> SUFFICES ASSUME AlertsInv, [AlertsNext]_alertVars PROVE AlertsInv'
  OBVIOUS
<1>1. CASE UNCHANGED alertVars
  <2>1. AlertsTypeOK' /\ SendersHold'
    BY <1>1 DEF AlertsInv, AlertsTypeOK, SendersHold, OneSenderPerDelivery, alertVars
  <2>2. NoneTooEarly' /\ CandidatesLate'
    BY <1>1 DEF AlertsInv, NoneTooEarly, CandidatesLate, alertVars
  <2>3. CriticalIsAnnounced'
    BY <1>1 DEF AlertsInv, CriticalIsAnnounced, alertVars
  <2> QED  BY <2>1, <2>2, <2>3 DEF AlertsInv
<1>2. ASSUME Kept PROVE AlertsInv'
  BY <1>2, QueueingKeeps DEF Kept, AlertsInv
<1>3. ASSUME NEW a \in Alerts,
             \/ \E severity \in Severities : OpenAlert(a, severity) \/ RaiseAlert(a, severity)
             \/ AcknowledgeAlert(a) \/ ResolveAlert(a) \/ DeadlinePasses(a)
             \/ \E r \in Retries : RetryAlert(a, r)
      PROVE  AlertsInv'
  BY <1>2, <1>3, EventSteps
<1>4. ASSUME NEW e \in Escalators,
             EscalateOne(e) \/ EscalatorDies(e) \/ \E a \in Alerts : ReadOverdue(e, a)
      PROVE  AlertsInv'
  BY <1>2, <1>4, EscalationSteps
<1> QED
  BY <1>1, <1>3, <1>4, SenderSteps DEF AlertsNext

(* A critical alert is announced as critical, and two processes never post *)
(* one delivery at once, whatever events, answers and deliveries come in   *)
(* whatever order (triggers of the alert and the claim of a delivery).     *)
THEOREM AlertsStayTold == AlertsSpec => []AlertsAreTold
<1>1. AlertsInv => AlertsAreTold
  BY DEF AlertsInv, SendersHold, AlertsAreTold
<1> QED
  BY <1>1, AlertsInvInit, AlertsInvStep, PTL DEF AlertsSpec

(* The level of an alert moves by an escalation, and its candidate is late. *)
LEMMA EscalationStep ==
    ASSUME AlertsInv, [AlertsNext]_alertVars, NEW a \in Alerts, alert'[a].level # alert[a].level
    PROVE  /\ alert[a].late /\ alert[a].status \in Unresolved
           /\ alert'[a].level = TargetLevel(alert[a].status)
           /\ delivery'[<<a, Breach(alert[a].status)>>].status # "NONE"
<1>1. /\ alert \in [Alerts -> AlertRow] /\ AlertsTypeOK /\ CandidatesLate
      /\ escalator \in [Escalators -> [alert : Alerts \cup {NoAlert}, status : Unresolved]]
  BY AlertTypes DEF AlertsInv
<1>2. ASSUME NEW b \in Alerts, NEW severity \in Severities, OpenAlert(b, severity)
      PROVE  FALSE
  BY <1>1, <1>2 DEF OpenAlert, AlertRow
<1>3. ASSUME NEW b \in Alerts, NEW severity \in Severities, RaiseAlert(b, severity)
      PROVE  FALSE
  BY <1>1, <1>3 DEF RaiseAlert, AlertRow
<1>4. ASSUME NEW b \in Alerts, AcknowledgeAlert(b) \/ ResolveAlert(b) \/ DeadlinePasses(b)
      PROVE  FALSE
  BY <1>1, <1>4 DEF AcknowledgeAlert, ResolveAlert, DeadlinePasses, AlertRow
<1>5. ~UNCHANGED alert
  OBVIOUS
<1>6. PICK e \in Escalators : EscalateOne(e)
  BY <1>2, <1>3, <1>4, <1>5
     DEF AlertsNext, alertVars, SenderStep, ReadAlert, PostAlert, MarkSent, MarkFailure, SenderDies,
         ClaimDelivery, RetryAlert, ReadOverdue, EscalatorDies
<1> DEFINE c == escalator[e]
<1>7. /\ Escalates(c) /\ alert' = [alert EXCEPT ![c.alert].level = TargetLevel(c.status)]
      /\ delivery' = Queued(<<c.alert, Breach(c.status)>>)
      /\ c.alert \in Alerts /\ c.status \in Unresolved
  BY <1>1, <1>5, <1>6 DEF EscalateOne
<1>8. c.alert = a
  BY <1>1, <1>7
<1>9. alert[a].status = c.status /\ alert[a].late
  BY <1>1, <1>7, <1>8 DEF CandidatesLate, Escalates
<1>10. alert'[a].level = TargetLevel(c.status)
  BY <1>1, <1>7, <1>8 DEF AlertRow
<1>11. <<a, Breach(c.status)>> \in Keys
  BY DEF Keys, Reasons, Breach
<1> QED
  BY <1>1, <1>7, <1>8, <1>9, <1>10, <1>11, Queueing

(* An alert is escalated only past its deadline, to the level in force,    *)
(* and never without its delivery, whatever operators do meanwhile         *)
(* (escalateOverdue, escalateOne, transition).                             *)
THEOREM EscalationIsDue == AlertsSpec => EscalatedOnlyOnBreach
<1>1. AlertsInv /\ [AlertsNext]_alertVars =>
        [\A a \in Alerts : alert'[a].level # alert[a].level =>
          /\ alert[a].late /\ alert[a].status \in Unresolved
          /\ alert'[a].level = TargetLevel(alert[a].status)
          /\ delivery'[<<a, Breach(alert[a].status)>>].status # "NONE"]_alertVars
  BY EscalationStep
<1> QED
  BY <1>1, AlertsInvInit, AlertsInvStep, PTL DEF AlertsSpec, EscalatedOnlyOnBreach

-----------------------------------------------------------------------------
(* Types *)

(* Every variable of SignIn keeps its type.                                *)
THEOREM SignInTypeCorrect == SignInSpec => []SignInTypeOK
<1>1. CodeInv => SignInTypeOK
  BY DEF CodeInv
<1> QED
  BY <1>1, CodeInvInit, CodeInvStep, PTL DEF SignInSpec

(* Every variable of SecurityAlerts keeps its type.                        *)
THEOREM AlertsTypeCorrect == AlertsSpec => []AlertsTypeOK
<1>1. AlertsInv => AlertsTypeOK
  BY DEF AlertsInv
<1> QED
  BY <1>1, AlertsInvInit, AlertsInvStep, PTL DEF AlertsSpec
=============================================================================
