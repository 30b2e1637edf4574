------------------------------ MODULE Accounts ------------------------------
(***************************************************************************)
(* Accounts, wallets and sessions: contexts/auth with its transactions.    *)
(*                                                                         *)
(* An account is reached in three ways: by an active wallet on the chain   *)
(* whose signatures are verified, by its home address (the wallet_address  *)
(* of auth_users, which never changes), and by a linked OAuth subject.     *)
(* The API server serves one request at a time, so a request is one step.  *)
(* A rejected request raises, and its transaction is rolled back with the  *)
(* status it has just saved: it changes nothing.  Ids are drawn in order,  *)
(* for the sake of fewer states.                                           *)
(***************************************************************************)
EXTENDS Integers, FiniteSets

CONSTANTS
  Users, Wallets, Sessions, Nonces, \* ids, and with them bounds
  MaxRotations,  \* sessions are refreshed until one was this often
  Addresses, Chains,
  Subjects,      \* OAuth provider and subject
  OAuthWallet,   \* the address the provider gives for a subject
  SignChain,     \* wallet_signature_chain_id
  OAuthChain,    \* the chain an OAuth sign-up binds its wallet on
  FallbackChain, \* the chain of the wallet row made for a session
  None

ASSUME AccountsConstants ==
  /\ Users \subseteq Nat /\ Wallets \subseteq Nat
  /\ Sessions \subseteq Nat /\ Nonces \subseteq Nat
  /\ MaxRotations \in Nat
  /\ OAuthWallet \in [Subjects -> Addresses]
  /\ {SignChain, OAuthChain, FallbackChain} \subseteq Chains
  /\ None \notin Users \cup Wallets \cup Addresses \cup Chains

VARIABLES
  users,     \* auth_users, and whether the user has a personal group
  wallets,   \* auth_user_wallets
  identity,  \* the active auth_oauth_identities row of a subject
  challenge, \* auth_login_challenges
  session    \* auth_sessions

vars == <<users, wallets, identity, challenge, session>>

User == [home: Addresses \cup {None}, personal: BOOLEAN]
NoUser == [home |-> None, personal |-> FALSE]

(* LINKED and PRIMARY rows are VERIFIED.  A revoked row stays, and linking *)
(* its address again makes another one.                                    *)
UserWallet == [user: Users, address: Addresses, chain: Chains,
               status: {"LINKED", "PRIMARY", "REVOKED"}]
NoWallet == [user |-> None, address |-> None, chain |-> None, status |-> "NONE"]

(* wallet: the one that was named when the subject was linked, if any.     *)
OAuthIdentity == [user: Users, wallet: Wallets \cup {None}]
NoIdentity == [user |-> None, wallet |-> None]

(* target: the user of a WALLET_LINK challenge.  A challenge for a chain   *)
(* other than SignChain never verifies, so there are none; what one was    *)
(* for is forgotten when it is used or has expired.                        *)
LoginChallenge == [status: {"ISSUED"}, address: Addresses,
                   target: Users \cup {None}]
SpentChallenge(status) == [status |-> status, address |-> None, target |-> None]
NoChallenge == SpentChallenge("NONE")

(* version: refresh_token_rotation_version of the refresh token in force.  *)
AuthSession == [status: {"ACTIVE", "ENDED"}, user: Users, wallet: Wallets,
                version: 0 .. MaxRotations]
NoSession == [status |-> "NONE", user |-> None, wallet |-> None, version |-> 0]

Init ==
  /\ users = [u \in Users |-> NoUser]
  /\ wallets = [w \in Wallets |-> NoWallet]
  /\ identity = [s \in Subjects |-> NoIdentity]
  /\ challenge = [n \in Nonces |-> NoChallenge]
  /\ session = [i \in Sessions |-> NoSession]

-----------------------------------------------------------------------------
(* What the repositories find.                                             *)
First(ids) == {i \in ids : \A j \in ids : i <= j}
NewUser == First({u \in Users : users[u].home = None})
NewWallet == First({w \in Wallets : wallets[w].status = "NONE"})
NewSession == First({i \in Sessions : session[i].status = "NONE"})
NewNonce == First({n \in Nonces : challenge[n].status = "NONE"})

is_active(w) == wallets[w].status \in {"LINKED", "PRIMARY"}

(* The partial unique index admits one active row per chain and address.   *)
get_active_by_address(chain, a) ==
  {w \in Wallets : is_active(w) /\ wallets[w].chain = chain
                   /\ wallets[w].address = a}

get_by_wallet(a) == {u \in Users : users[u].home = a}

list_for_user(u) == {w \in Wallets : wallets[w].user = u}

active_same_chain(u, chain) ==
  {w \in list_for_user(u) : is_active(w) /\ wallets[w].chain = chain}

(* Access tokens are not looked up: one that was issued is good until it   *)
(* runs out, whatever became of its session.                               *)
SignedIn(u) == u \in Users /\ \E i \in Sessions : session[i].user = u

-----------------------------------------------------------------------------
(* What requests write.                                                    *)
Registered(u, a) == [users EXCEPT ![u] = [home |-> a, personal |-> TRUE]]

(* A new row is primary if it is the user's only active one on its chain.  *)
WithWallet(w, u, chain, a) ==
  [wallets EXCEPT ![w] =
     [user |-> u, address |-> a, chain |-> chain,
      status |-> IF active_same_chain(u, chain) = {} THEN "PRIMARY"
                 ELSE "LINKED"]]

StartSession(i, u, w) ==
  session' = [session EXCEPT ![i] = [status |-> "ACTIVE", user |-> u,
                                     wallet |-> w, version |-> 0]]

Issue(n, a, target) ==
  /\ challenge' = [challenge EXCEPT ![n] = [status |-> "ISSUED", address |-> a,
                                            target |-> target]]
  /\ UNCHANGED <<users, wallets, identity, session>>

requestLoginChallenge(n, a) == Issue(n, a, None)

requestWalletLinkChallenge(n, u, a) ==
  /\ SignedIn(u)
  /\ get_active_by_address(SignChain, a) \subseteq list_for_user(u)
  /\ Issue(n, a, u)

ChallengeExpires(n) ==
  /\ challenge[n].status = "ISSUED"
  /\ challenge' = [challenge EXCEPT ![n] = SpentChallenge("EXPIRED")]
  /\ UNCHANGED <<users, wallets, identity, session>>

(* confirm_signature_verified: a nonce is good once.                       *)
Verify(n) ==
  /\ challenge[n].status = "ISSUED"
  /\ challenge' = [challenge EXCEPT ![n] = SpentChallenge("VERIFIED")]

-----------------------------------------------------------------------------
(* Signing in with a wallet.  The user is the wallet's owner, or else the  *)
(* one whose home it is, or else a new one.                                *)
login_known(n, i, w) ==
  /\ w \in get_active_by_address(SignChain, challenge[n].address)
  /\ Verify(n)
  /\ StartSession(i, wallets[w].user, w)
  /\ UNCHANGED <<users, wallets, identity>>

login_home(n, i, u) ==
  LET a == challenge[n].address IN
  /\ get_active_by_address(SignChain, a) = {}
  /\ u \in get_by_wallet(a)
  /\ Verify(n)
  /\ \E w \in NewWallet :
       /\ wallets' = WithWallet(w, u, SignChain, a)
       /\ StartSession(i, u, w)
  /\ UNCHANGED <<users, identity>>

login_register(n, i) ==
  LET a == challenge[n].address IN
  /\ get_active_by_address(SignChain, a) = {}
  /\ get_by_wallet(a) = {}
  /\ Verify(n)
  /\ \E u \in NewUser, w \in NewWallet :
       /\ users' = Registered(u, a)
       /\ wallets' = WithWallet(w, u, SignChain, a)
       /\ StartSession(i, u, w)
  /\ UNCHANGED identity

-----------------------------------------------------------------------------
(* Signing in with an OAuth subject.  The session needs a wallet row: the  *)
(* one named by the identity, or any row of the user with the home address,*)
(* revoked or not, or a new one on FallbackChain.                          *)
HomeRows(u) == {w \in list_for_user(u) : wallets[w].address = users[u].home}

FallbackWallet(i, u) ==
  \E w \in NewWallet :
    /\ get_active_by_address(FallbackChain, users[u].home) = {}
    /\ wallets' = [wallets EXCEPT ![w] =
                     [user |-> u, address |-> users[u].home,
                      chain |-> FallbackChain, status |-> "PRIMARY"]]
    /\ StartSession(i, u, w)

SessionWalletAnew(i, u, named) == \* mutant: the user's rows are not looked up
  IF named # None THEN StartSession(i, u, named) /\ UNCHANGED wallets
  ELSE FallbackWallet(i, u)

SessionWallet(i, u, named) ==
  IF named # None THEN StartSession(i, u, named) /\ UNCHANGED wallets
  ELSE IF HomeRows(u) = {} THEN FallbackWallet(i, u)
  ELSE \E w \in HomeRows(u) : StartSession(i, u, w) /\ UNCHANGED wallets

oauth_linked(s, i) ==
  /\ identity[s].user # None
  /\ SessionWallet(i, identity[s].user, identity[s].wallet)
  /\ UNCHANGED <<users, identity, challenge>>

Linked(s, u, w) == [identity EXCEPT ![s] = [user |-> u, wallet |-> w]]

oauth_home(s, i, u) ==
  /\ identity[s].user = None
  /\ u \in get_by_wallet(OAuthWallet[s])
  /\ identity' = Linked(s, u, None)
  /\ SessionWallet(i, u, None)
  /\ UNCHANGED <<users, challenge>>

(* A new user gets a wallet on OAuthChain, unless somebody else has it     *)
(* there; then the one on FallbackChain.                                   *)
oauth_register(s, i) ==
  LET a == OAuthWallet[s]
      taken == get_active_by_address(OAuthChain, a) # {}
  IN
  /\ identity[s].user = None
  /\ get_by_wallet(a) = {}
  /\ taken => get_active_by_address(FallbackChain, a) = {}
  /\ \E u \in NewUser, w \in NewWallet :
       /\ users' = Registered(u, a)
       /\ wallets' = WithWallet(w, u, IF taken THEN FallbackChain
                                      ELSE OAuthChain, a)
       /\ identity' = Linked(s, u, None)
       /\ StartSession(i, u, w)
  /\ UNCHANGED challenge

linkOAuthAnyWallet(u, s, w) == \* mutant: a wallet of anybody may be named
  /\ SignedIn(u)
  /\ w # None => wallets[w].status # "NONE"
  /\ identity[s].user = None
  /\ identity' = Linked(s, u, w)
  /\ UNCHANGED <<users, wallets, challenge, session>>

linkOAuthIdentity(u, s, w) ==
  /\ SignedIn(u)
  /\ w # None => w \in list_for_user(u)
  /\ identity[s].user = None
  /\ identity' = Linked(s, u, w)
  /\ UNCHANGED <<users, wallets, challenge, session>>

revokeHalfway(u, s) == \* mutant: the wallet named by the identity stays
  /\ SignedIn(u)
  /\ identity[s].user = u
  /\ identity' = [identity EXCEPT ![s].user = None]
  /\ UNCHANGED <<users, wallets, challenge, session>>

revokeOAuthIdentity(u, s) ==
  /\ SignedIn(u)
  /\ identity[s].user = u
  /\ \/ \E t \in Subjects \ {s} : identity[t].user = u
     \/ \E w \in list_for_user(u) : is_active(w)
  /\ identity' = [identity EXCEPT ![s] = NoIdentity]
  /\ UNCHANGED <<users, wallets, challenge, session>>

-----------------------------------------------------------------------------
(* Wallets of a signed-in user.                                            *)
linkWallet(n, u) ==
  LET a == challenge[n].address
      owners == get_active_by_address(SignChain, a)
  IN
  /\ SignedIn(u)
  /\ challenge[n].target = u
  /\ owners \subseteq list_for_user(u)
  /\ Verify(n)
  /\ IF owners # {} THEN UNCHANGED wallets
     ELSE \E w \in NewWallet : wallets' = WithWallet(w, u, SignChain, a)
  /\ UNCHANGED <<users, identity, session>>

setPrimaryWallet(u, w) ==
  /\ SignedIn(u)
  /\ w \in list_for_user(u)
  /\ is_active(w)
  /\ wallets' = [x \in Wallets |->
                   IF x = w THEN [wallets[x] EXCEPT !.status = "PRIMARY"]
                   ELSE IF x \in active_same_chain(u, wallets[w].chain)
                   THEN [wallets[x] EXCEPT !.status = "LINKED"]
                   ELSE wallets[x]]
  /\ UNCHANGED <<users, identity, challenge, session>>

revokeCountingRows(u, w) == \* mutant: revoked rows count as wallets
  /\ SignedIn(u)
  /\ w \in list_for_user(u)
  /\ is_active(w)
  /\ list_for_user(u) # {w}
  /\ wallets' = [wallets EXCEPT ![w].status = "REVOKED"]
  /\ UNCHANGED <<users, identity, challenge, session>>

(* Not the last active one.  The chain may be left without a primary one.  *)
revokeWallet(u, w) ==
  /\ SignedIn(u)
  /\ w \in list_for_user(u)
  /\ is_active(w)
  /\ \E x \in list_for_user(u) \ {w} : is_active(x)
  /\ wallets' = [wallets EXCEPT ![w].status = "REVOKED"]
  /\ UNCHANGED <<users, identity, challenge, session>>

-----------------------------------------------------------------------------
(* Sessions.  refreshSession and switchSession take the refresh token of   *)
(* the version in force; neither looks at the session's wallet.            *)
refreshSession(i, v) ==
  /\ session[i].status = "ACTIVE"
  /\ v = session[i].version
  /\ \A j \in Sessions : session[j].version < MaxRotations
  /\ session' = [session EXCEPT ![i].version = v + 1]
  /\ UNCHANGED <<users, wallets, identity, challenge>>

(* logout, or expires_at.                                                  *)
EndSession(i) ==
  /\ session[i].status = "ACTIVE"
  /\ session' = [session EXCEPT ![i].status = "ENDED"]
  /\ UNCHANGED <<users, wallets, identity, challenge>>

(* The catalogue's createOrReuseStoreUser: a user with a home and nothing  *)
(* else, neither wallet nor personal group.                                *)
createStoreUser(a) ==
  /\ get_by_wallet(a) = {}
  /\ \E u \in NewUser : users' = [users EXCEPT ![u].home = a]
  /\ UNCHANGED <<wallets, identity, challenge, session>>

-----------------------------------------------------------------------------
Challenge ==
  \/ \E n \in NewNonce, a \in Addresses :
       \/ requestLoginChallenge(n, a)
       \/ \E u \in Users : requestWalletLinkChallenge(n, u, a)
  \/ \E n \in Nonces : ChallengeExpires(n)

SignIn ==
  \E i \in NewSession :
    \/ \E n \in Nonces :
         \/ \E w \in Wallets : login_known(n, i, w)
         \/ \E u \in Users : login_home(n, i, u)
         \/ login_register(n, i)
    \/ \E s \in Subjects :
         \/ oauth_linked(s, i)
         \/ \E u \in Users : oauth_home(s, i, u)
         \/ oauth_register(s, i)

Manage ==
  \E u \in Users :
    \/ \E s \in Subjects :
         \/ \E w \in Wallets \cup {None} : linkOAuthIdentity(u, s, w)
         \/ revokeOAuthIdentity(u, s)
    \/ \E n \in Nonces : linkWallet(n, u)
    \/ \E w \in Wallets : setPrimaryWallet(u, w) \/ revokeWallet(u, w)

Keep ==
  \/ \E i \in Sessions :
       \/ \E v \in 0 .. MaxRotations : refreshSession(i, v)
       \/ EndSession(i)
  \/ \E a \in Addresses : createStoreUser(a)

Next == Challenge \/ SignIn \/ Manage \/ Keep

Spec == Init /\ [][Next]_vars

-----------------------------------------------------------------------------
(* Every row has its columns.                                              *)
TypeOK ==
  /\ users \in [Users -> User]
  /\ wallets \in [Wallets -> UserWallet \cup {NoWallet}]
  /\ identity \in [Subjects -> OAuthIdentity \cup {NoIdentity}]
  /\ challenge \in [Nonces -> LoginChallenge \cup
       {SpentChallenge(status) : status \in {"NONE", "VERIFIED", "EXPIRED"}}]
  /\ session \in [Sessions -> AuthSession \cup {NoSession}]

(* A user has one primary wallet on a chain at most, though three requests *)
(* make wallet rows and one of them, the row made for an OAuth session, is *)
(* primary without a look at the others.                                   *)
OnePrimary ==
  \A w1, w2 \in Wallets :
    /\ wallets[w1].status = "PRIMARY"
    /\ wallets[w2].status = "PRIMARY"
    /\ wallets[w1].user = wallets[w2].user
    /\ wallets[w1].chain = wallets[w2].chain
    => w1 = w2

(* A user who has signed in keeps an active wallet, whatever is linked,    *)
(* revoked, and linked again.                                              *)
KeepsAWallet ==
  \A u \in Users :
    SignedIn(u) => \E w \in list_for_user(u) : is_active(w)

(* An address is one user's on each chain, and the wallet a session was    *)
(* opened with, perhaps through an identity linked long before, is its     *)
(* user's.                                                                 *)
SessionWalletIsOwn ==
  /\ \A w1, w2 \in Wallets :
       /\ is_active(w1) /\ is_active(w2)
       /\ wallets[w1].address = wallets[w2].address
       /\ wallets[w1].chain = wallets[w2].chain
       => w1 = w2
  /\ \A i \in Sessions :
       session[i].status # "NONE" =>
         wallets[session[i].wallet].user = session[i].user
=============================================================================
