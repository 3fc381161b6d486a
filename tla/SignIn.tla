------------------------------- MODULE SignIn -------------------------------
(***************************************************************************)
(* Signing in with one phone number, and being shut out: AuthService asks  *)
(* for codes and verifies them under an advisory lock on the number,       *)
(* AccessTokenService issues a token and authenticates it at each request  *)
(* and at the handshake of each socket, AdminUsersService blocks the user, *)
(* RealtimeGateway then disconnects the sockets of the user's room.        *)
(***************************************************************************)
EXTENDS Integers, FiniteSets

CONSTANTS
    MaxCodes,      \* bound: generations of SmsCode
    AuthCalls,     \* bound: how many requests run at once
    Sockets,       \* bound: sockets the user may open
    MaxSends,      \* MAX_SENDS_PER_WINDOW
    MaxGuesses,    \* MAX_VERIFY_ATTEMPTS
    NoCall

ASSUME SignInAssumption ==
    /\ MaxCodes \in Nat \ {0}
    /\ MaxSends \in Nat \ {0} /\ MaxGuesses \in Nat \ {0} /\ NoCall \notin AuthCalls

VARIABLES
    codes,      \* per generation: its row, NONE before it is asked for
    recent,     \* generations created in the last ten minutes
    phoneLock,  \* the call whose transaction has the advisory lock
    authCall,   \* the calls in progress
    blocked,    \* User.isBlocked
    tokens,     \* per generation: tokens issued for it
    guesses,    \* history: wrong codes answered as such, per generation
    socket,     \* per socket: what the handshake has reached
    kicking,    \* a block is committed, its disconnectUser not yet called
    spared      \* history: open sockets that the last block could not or did not close

signInVars == <<codes, recent, phoneLock, authCall, blocked, tokens, guesses, socket, kicking, spared>>
codeVars == <<codes, recent, phoneLock, authCall, tokens, guesses>>
socketVars == <<socket, kicking, spared>>

-----------------------------------------------------------------------------
Codes == 1..MaxCodes
NotCalling == [at |-> "idle", gen |-> 0, barred |-> FALSE]
Asked == {g \in Codes : codes[g].status # "NONE"}
Latest == IF Asked = {} THEN 0 ELSE CHOOSE g \in Asked : \A k \in Asked : k <= g

SignInTypeOK ==
    /\ codes \in [Codes -> [status : {"NONE", "VALID", "EXPIRED", "USED"}, attempts : 0..MaxGuesses]]
    /\ recent \subseteq Codes
    /\ phoneLock \in AuthCalls \cup {NoCall}
    /\ authCall \in [AuthCalls -> [at : {"idle", "send", "insert", "verify", "wrong", "right", "issue"},
                                   gen : Codes \cup {0}, barred : BOOLEAN]]
    /\ blocked \in BOOLEAN /\ kicking \in BOOLEAN
    /\ tokens \in [Codes -> Nat] /\ guesses \in [Codes -> Nat]
    /\ socket \in [Sockets -> {"closed", "authenticated", "joined"}]
    /\ spared \subseteq Sockets

SignInInit ==
    /\ codes = [g \in Codes |-> [status |-> "NONE", attempts |-> 0]]
    /\ recent = {} /\ phoneLock = NoCall
    /\ authCall = [c \in AuthCalls |-> NotCalling]
    /\ blocked = FALSE /\ kicking = FALSE
    /\ tokens = [g \in Codes |-> 0] /\ guesses = [g \in Codes |-> 0]
    /\ socket = [k \in Sockets |-> "closed"] /\ spared = {}

-----------------------------------------------------------------------------
(* Codes *)

CallAt(c, statement) == authCall[c].at = statement
CallEnds(c) == authCall' = [authCall EXCEPT ![c] = NotCalling]

AskOrVerify(c) ==
    /\ CallAt(c, "idle")
    /\ \E statement \in {"send", "verify"} : authCall' = [authCall EXCEPT ![c].at = statement]
    /\ UNCHANGED <<codes, recent, phoneLock, tokens, guesses, blocked, socketVars>>

BugNoPhoneLock == TRUE
\* pg_advisory_xact_lock waits for the transaction that has it.
PhoneFree == phoneLock = NoCall

\* requestCode counts the codes of the window, and inserts the next one.
CountSends(c) ==
    /\ CallAt(c, "send") /\ PhoneFree
    /\ IF Cardinality(recent) < MaxSends
       THEN phoneLock' = c /\ authCall' = [authCall EXCEPT ![c].at = "insert"]
       ELSE CallEnds(c) /\ UNCHANGED phoneLock
    /\ UNCHANGED <<codes, recent, tokens, guesses, blocked, socketVars>>

InsertCode(c) ==
    LET g == Latest + 1
    IN  /\ CallAt(c, "insert")
        /\ g \in Codes    \* bound
        /\ codes' = [codes EXCEPT ![g].status = "VALID"]
        /\ recent' = recent \cup {g}
        /\ phoneLock' = NoCall /\ CallEnds(c)
        /\ UNCHANGED <<tokens, guesses, blocked, socketVars>>

\* Its messages may be late: what is typed is any code, right for one generation.
\* Only the latest one is compared, if it can still be used.
ReadCode(c) ==
    /\ CallAt(c, "verify") /\ PhoneFree
    /\ IF Latest \in Codes /\ codes[Latest].status = "VALID" /\ codes[Latest].attempts < MaxGuesses
       THEN /\ phoneLock' = c
            /\ \E result \in {"right", "wrong"} :
                  authCall' = [authCall EXCEPT ![c].at = result, ![c].gen = Latest]
       ELSE CallEnds(c) /\ UNCHANGED phoneLock
    /\ UNCHANGED <<codes, recent, tokens, guesses, blocked, socketVars>>

\* The attempt is committed with the answer: "wrong" is no exception.
CountGuess(c) ==
    LET g == authCall[c].gen
    IN  /\ CallAt(c, "wrong")
        /\ codes' = [codes EXCEPT ![g].attempts = codes[g].attempts + 1]
        /\ guesses' = [guesses EXCEPT ![g] = guesses[g] + 1]
        /\ phoneLock' = NoCall /\ CallEnds(c)
        /\ UNCHANGED <<recent, tokens, blocked, socketVars>>

\* The user row comes with the transaction; it is looked at after the commit.
UseCode(c) ==
    LET g == authCall[c].gen
    IN  /\ CallAt(c, "right")
        /\ codes' = [codes EXCEPT ![g].status = "USED"]
        /\ authCall' = [authCall EXCEPT ![c].at = "issue", ![c].barred = blocked]
        /\ phoneLock' = NoCall
        /\ UNCHANGED <<recent, tokens, guesses, blocked, socketVars>>

IssueToken(c) ==
    LET g == authCall[c].gen
    IN  /\ CallAt(c, "issue")
        /\ tokens' = IF authCall[c].barred THEN tokens ELSE [tokens EXCEPT ![g] = tokens[g] + 1]
        /\ CallEnds(c)
        /\ UNCHANGED <<codes, recent, phoneLock, guesses, blocked, socketVars>>

\* The process dies, or the transaction is rolled back.
CallDies(c) ==
    /\ ~CallAt(c, "idle")
    /\ CallEnds(c)
    /\ phoneLock' = IF phoneLock = c THEN NoCall ELSE phoneLock
    /\ UNCHANGED <<codes, recent, tokens, guesses, blocked, socketVars>>

\* Five minutes, and ten: a code has expired when it leaves the window.
CodeExpires(g) ==
    /\ codes[g].status = "VALID"
    /\ codes' = [codes EXCEPT ![g].status = "EXPIRED"]
    /\ UNCHANGED <<recent, phoneLock, authCall, tokens, guesses, blocked, socketVars>>

WindowMoves(g) ==
    /\ g \in recent /\ codes[g].status # "VALID" /\ \A k \in recent : g <= k
    /\ recent' = recent \ {g}
    /\ UNCHANGED <<codes, phoneLock, authCall, tokens, guesses, blocked, socketVars>>

-----------------------------------------------------------------------------
(* Sockets and the block *)

HasToken == \E g \in Codes : tokens[g] > 0

BugHandshakeUnchecked == HasToken
Authenticates == HasToken /\ ~blocked

\* authenticate in the handshake, and then the room of the user
Handshake(k) ==
    /\ socket[k] = "closed" /\ Authenticates
    /\ socket' = [socket EXCEPT ![k] = "authenticated"]
    /\ UNCHANGED <<codeVars, blocked, kicking, spared>>

JoinRoom(k) ==
    /\ socket[k] = "authenticated"
    /\ socket' = [socket EXCEPT ![k] = "joined"]
    /\ UNCHANGED <<codeVars, blocked, kicking, spared>>

CloseSocket(k) ==
    /\ socket[k] # "closed"
    /\ socket' = [socket EXCEPT ![k] = "closed"] /\ spared' = spared \ {k}
    /\ UNCHANGED <<codeVars, blocked, kicking>>

\* block: the row, and then disconnectUser.
BlockUser ==
    /\ ~kicking
    /\ blocked' = TRUE /\ kicking' = TRUE
    /\ spared' = spared \cup {k \in Sockets : socket[k] = "authenticated"}
    /\ UNCHANGED <<codeVars, socket>>

InRoom(k) == socket[k] = "joined"

DisconnectUser ==
    /\ kicking
    /\ kicking' = FALSE
    /\ socket' = [k \in Sockets |-> IF InRoom(k) THEN "closed" ELSE socket[k]]
    /\ spared' = {k \in spared : ~InRoom(k)}
    /\ UNCHANGED <<codeVars, blocked>>

\* The process dies between the two.
BlockDies ==
    /\ kicking
    /\ kicking' = FALSE
    /\ spared' = spared \cup {k \in Sockets : socket[k] # "closed"}
    /\ UNCHANGED <<codeVars, blocked, socket>>

UnblockUser ==
    /\ blocked
    /\ blocked' = FALSE /\ spared' = {}
    /\ UNCHANGED <<codeVars, socket, kicking>>

-----------------------------------------------------------------------------
SignInNext ==
    \/ \E c \in AuthCalls :
          \/ AskOrVerify(c) \/ CountSends(c) \/ InsertCode(c) \/ ReadCode(c)
          \/ CountGuess(c) \/ UseCode(c) \/ IssueToken(c) \/ CallDies(c)
    \/ \E g \in Codes : CodeExpires(g) \/ WindowMoves(g)
    \/ \E k \in Sockets : Handshake(k) \/ JoinRoom(k) \/ CloseSocket(k)
    \/ BlockUser \/ DisconnectUser \/ BlockDies \/ UnblockUser

SignInSpec == SignInInit /\ [][SignInNext]_signInVars

-----------------------------------------------------------------------------
(* Properties *)

\* Whatever runs at once, the limits of requestCode and verifyCode are exact: so
\* many codes in a window, so many wrong answers per code, one session per code,
\* and never a code beside a newer one.
LimitsAreExact ==
    /\ Cardinality(recent) <= MaxSends
    /\ \A g \in Codes : guesses[g] <= MaxGuesses /\ tokens[g] <= 1
    /\ \A c \in AuthCalls : authCall[c].at \in {"right", "wrong"} => authCall[c].gen = Latest

\* After a block a socket is open only if its handshake had been authenticated
\* before the block and joined the room after the disconnection, or if the block
\* died before it: otherwise "an already open socket would outlive the block"
\* (disconnectUser), and no later handshake gets through.
BlockedIsDisconnected ==
    blocked /\ ~kicking => \A k \in Sockets : socket[k] # "closed" => k \in spared
=============================================================================
