------------------------------ MODULE Accounts ------------------------------
(***************************************************************************)
(* What a user of the panel becomes in an inbound: api/account.go, the     *)
(* first part of user.go, the client lists of config.go and the passwords  *)
(* of common/helper.go.  There are two ways in: SyncUser asks              *)
(* isActiveInbound for one account, SyncUsers makes the whole list.        *)
(*                                                                         *)
(* A pointer or a proxy that may be nil is a set of at most one element.   *)
(* A secret is a sequence: the text the panel sent, then a number for      *)
(* every time EnsureBase64Password has hashed it, the length of the key.   *)
(***************************************************************************)
EXTENDS Lists

CONSTANT Decoded    \* Decoded[t]: bytes that t decodes to as base64, 0 if it does not

ASSUME DecodedAssumption == Decoded \in [DOMAIN Decoded -> Nat]

BadId == <<"bad">>      \* an id that uuid.Parse refuses

(* The code takes every method with the prefix 2022-blake3 for Shadowsocks *)
(* 2022.  These are all that the core has: users cannot be added to an     *)
(* inbound with another, so it is assumed that the panel sends none.       *)
Aes128 == "2022-blake3-aes-128-gcm"
Methods2022 == {Aes128, "2022-blake3-aes-256-gcm", "2022-blake3-chacha20-poly1305"}

CipherTypes == {"aes-128-gcm", "aes-256-gcm", "chacha20-poly1305", "chacha20-ietf-poly1305",
                "xchacha20-poly1305", "xchacha20-ietf-poly1305", "none"}

(* The records of this module; "detail" is a flow or a cipher.             *)
Texts == {secret \in Seq(STRING) : Len(secret) = 1}       \* as the panel sends it
Secrets == Seq(STRING \cup Nat)
AccountTypes == {"vmess", "vless", "trojan", "shadowsocks", "shadowsocks2022"}
AccountSet == [type : AccountTypes, email : STRING, level : Nat, secret : Secrets,
               detail : STRING \cup {""} \cup CipherTypes]
AtMostOne(S) == \A x, y \in S : x = y
UserSet ==
  {u \in [email : STRING, inbounds : SUBSET STRING, vmess : SUBSET [id : Texts],
          vless : SUBSET [id : Texts, flow : STRING], trojan : SUBSET [password : Texts],
          shadowsocks : SUBSET [password : Texts, method : STRING]] :
     AtMostOne(u.vmess) /\ AtMostOne(u.vless) /\ AtMostOne(u.trojan) /\ AtMostOne(u.shadowsocks)}

Account(type, user, secret, detail) ==
  [type |-> type, email |-> user.email, level |-> 0, secret |-> secret, detail |-> detail]

(* The nil pointer, as an element of a list.                               *)
NilAccount == [type |-> "nil", email |-> "", level |-> 0, secret |-> <<>>, detail |-> ""]

InboundSet == [tag : STRING, protocol : STRING, settings : BOOLEAN, method : STRING,
               network : STRING, security : STRING, raw : STRING, tcp : STRING,
               exclude : BOOLEAN, clients : Seq(AccountSet \cup {NilAccount})]

-----------------------------------------------------------------------------
DecodedLength(password) ==
  IF Len(password) = 1 THEN Decoded[Head(password)] ELSE Last(password)

KeyLength(method) == IF method = Aes128 THEN 16 ELSE 32

(* Only keys of 16 bytes are taken for keys, whatever the method.          *)
EnsureKeyOf16(password, method) ==                              \* mutant
  IF DecodedLength(password) = 16 THEN password
                                  ELSE Append(password, KeyLength(method))
(* A password that is a key of the right length stays, any other is hashed.*)
EnsureBase64Password(password, method) ==
  IF DecodedLength(password) = KeyLength(method) THEN password
                                                 ELSE Append(password, KeyLength(method))

NewVmessAccounts(user) ==
  {Account("vmess", user, p.id, "") : p \in {q \in user.vmess : q.id # BadId}}

NewVlessAccounts(user) ==
  {Account("vless", user, p.id, p.flow) : p \in {q \in user.vless : q.id # BadId}}

NewTrojanAccounts(user) == {Account("trojan", user, p.password, "") : p \in user.trojan}

NewShadowsocksAccounts(user) ==
  {Account("shadowsocks2022", user, p.password, "") : p \in user.shadowsocks}

NewShadowsocksTcpAccounts(user) ==
  {Account("shadowsocks", user, p.password,
           IF p.method \in CipherTypes THEN p.method ELSE "none") : p \in user.shadowsocks}

(* A flow stays only where xtls can work: a stream with TLS and no header. *)
(* rawSettings hides tcpSettings, and the key of the header is "Type".     *)
Header(i) == IF i.raw # "absent" THEN i.raw ELSE i.tcp
TakesFlow(i) == /\ i.network \in {"tcp", "raw", "kcp"}
                /\ i.security \in {"tls", "reality"}
                /\ Header(i) # "Type: http"
CheckVless(i, account) == [account EXCEPT !.detail = IF TakesFlow(i) THEN @ ELSE ""]

CheckShadowsocks2022(i, account) ==
  [account EXCEPT !.secret = EnsureBase64Password(@, i.method)]

Has2022(i) == i.method \in Methods2022

-----------------------------------------------------------------------------
(* isActiveInbound on what setupUserAccount has made of the user: the      *)
(* account he has in the inbound, if any.  An invalid id makes none.       *)
ActiveAccounts(i, user) ==
  IF i.tag \notin user.inbounds THEN {}
  ELSE CASE i.protocol = "vless" -> {CheckVless(i, a) : a \in NewVlessAccounts(user)}
         [] i.protocol = "vmess" -> NewVmessAccounts(user)
         [] i.protocol = "trojan" -> NewTrojanAccounts(user)
         [] i.protocol = "shadowsocks" ->
              IF Has2022(i)
                THEN {CheckShadowsocks2022(i, a) : a \in NewShadowsocksAccounts(user)}
                ELSE NewShadowsocksTcpAccounts(user)
         [] OTHER -> {}

(* Inbound.syncUsers: what one user adds to the list.  An invalid VMess id *)
(* adds the nil account.                                                   *)
VmessListed(user) ==
  IF \E p \in user.vmess : p.id = BadId THEN {NilAccount} ELSE NewVmessAccounts(user)
VlessUnchecked(i, user) == NewVlessAccounts(user)               \* mutant
VlessListed(i, user) == {CheckVless(i, a) : a \in NewVlessAccounts(user)}
ShadowsocksListed(i, user) ==
  IF Has2022(i) THEN {CheckShadowsocks2022(i, a) : a \in NewShadowsocksAccounts(user)}
                ELSE NewShadowsocksTcpAccounts(user)

Listed(i, user) ==
  IF i.tag \notin user.inbounds THEN {}
  ELSE CASE i.protocol = "vmess" -> VmessListed(user)
         [] i.protocol = "vless" -> VlessListed(i, user)
         [] i.protocol = "trojan" -> NewTrojanAccounts(user)
         [] i.protocol = "shadowsocks" -> ShadowsocksListed(i, user)

KnownProtocols == {"vmess", "vless", "trojan", "shadowsocks"}

(* An inbound without settings has no map to put the clients in; a bad     *)
(* VLESS id of a user who is to have the inbound is dereferenced.          *)
SyncUsersPanics(i, users) ==
  \/ i.protocol \in KnownProtocols /\ ~i.settings
  \/ /\ i.protocol = "vless"
     /\ \E k \in DOMAIN users : /\ i.tag \in users[k].inbounds
                                /\ \E p \in users[k].vless : p.id = BadId

SyncUsersIn(i, users) ==
  LET listed == Omit(users, {u \in Range(users) : Listed(i, u) = {}})
  IN  IF i.protocol \in KnownProtocols
        THEN [i EXCEPT !.clients =
                   [k \in DOMAIN listed |-> CHOOSE a \in Listed(i, listed[k]) : TRUE]]
        ELSE i

-----------------------------------------------------------------------------
(* updateUser and removeUser look at the email of every client up to the   *)
(* first that matches, which a nil account does not survive.               *)
ScanPanics(i, email) ==
  \E k \in DOMAIN i.clients :
    /\ i.clients[k] = NilAccount
    /\ \A j \in 1..(k - 1) : i.clients[j].email # email

(* updateUser normalises a Shadowsocks 2022 password once more.            *)
UpdateUser(i, account) ==
  LET a == IF account.type = "shadowsocks2022" THEN CheckShadowsocks2022(i, account)
                                               ELSE account
  IN  [i EXCEPT !.clients = Append(WithoutClient(i.clients, account.email), a)]

RemoveUser(i, email) ==
  IF i.protocol \in KnownProtocols THEN [i EXCEPT !.clients = WithoutClient(@, email)] ELSE i

(* What SyncUser makes of the config of an inbound that is not excluded.   *)
SyncUserIn(i, user) ==
  LET active == ActiveAccounts(i, user)
  IN  IF active = {} THEN RemoveUser(i, user.email)
                     ELSE UpdateUser(i, CHOOSE a \in active : TRUE)
=============================================================================
