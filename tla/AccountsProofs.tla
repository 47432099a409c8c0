--------------------------- MODULE AccountsProofs ---------------------------
(***************************************************************************)
(* What holds of the accounts made for a user, whatever he and the inbound *)
(* are: both ways into a client list give him the same account.            *)
(***************************************************************************)
EXTENDS Accounts, ListsProofs

(* Passwords: sequences that are not empty.                                *)
Passwords == {p \in Seq(STRING \cup Nat) : Len(p) > 0}

LEMMA HashedLength ==
  ASSUME NEW password \in Passwords, NEW method \in Methods2022
  PROVE  DecodedLength(Append(password, KeyLength(method))) = KeyLength(method)
<1>1. /\ password \in Seq(STRING \cup Nat) /\ Len(password) \in Nat /\ Len(password) > 0
      /\ KeyLength(method) \in STRING \cup Nat
  BY DEF Passwords, KeyLength
<1> DEFINE p == Append(password, KeyLength(method))
<1>2. Len(p) = Len(password) + 1 /\ p[Len(p)] = KeyLength(method)
  BY <1>1
<1>3. Len(p) # 1 /\ Last(p) = KeyLength(method)
  BY <1>1, <1>2 DEF Last
<1> QED BY <1>3 DEF DecodedLength

(* common/helper.go:39-65: the password an inbound is given is a key of    *)
(* the length its cipher needs, whatever the panel sent.                   *)
THEOREM PasswordFitsCipher ==
  ASSUME NEW password \in Passwords, NEW method \in Methods2022
  PROVE  DecodedLength(EnsureBase64Password(password, method)) = KeyLength(method)
<1>1. CASE DecodedLength(password) = KeyLength(method)
  BY <1>1 DEF EnsureBase64Password
<1>2. CASE DecodedLength(password) # KeyLength(method)
  BY <1>2, HashedLength DEF EnsureBase64Password
<1> QED BY <1>1, <1>2

(* user.go:115 and config.go:226 both normalise the password of a client   *)
(* that SyncUser adds: doing it twice is doing it once, so the key in the  *)
(* running core is the one that a restart reads from the config.           *)
THEOREM NormalisedOnce ==
  ASSUME NEW i, i.method \in Methods2022,
         NEW a \in AccountSet, a.secret \in Passwords
  PROVE  CheckShadowsocks2022(i, CheckShadowsocks2022(i, a)) = CheckShadowsocks2022(i, a)
<1> DEFINE s == EnsureBase64Password(a.secret, i.method)
<1>0. a.secret \in Passwords
  OBVIOUS
<1>1. DecodedLength(s) = KeyLength(i.method)
  BY <1>0, PasswordFitsCipher
<1>2. EnsureBase64Password(s, i.method) = s
  BY <1>1 DEF EnsureBase64Password
<1>3. CheckShadowsocks2022(i, a).secret = s
  BY DEF CheckShadowsocks2022, AccountSet
<1> QED BY <1>2, <1>3 DEF CheckShadowsocks2022, AccountSet

(* user.go:88-126 and config.go:64-144: for a user whose ids are valid,    *)
(* isActiveInbound and syncUsers make the same accounts in every inbound.  *)
THEOREM TwoWaysAgree ==
  ASSUME NEW i, i.protocol \in KnownProtocols, NEW user,
         \A p \in user.vmess : p.id # BadId
  PROVE  ActiveAccounts(i, user) = Listed(i, user)
BY DEF ActiveAccounts, Listed, KnownProtocols, VmessListed, VlessListed, ShadowsocksListed

-----------------------------------------------------------------------------
LEMMA TextIsPassword ==
  ASSUME NEW t \in Texts
  PROVE  t \in Passwords /\ t \in Secrets
BY DEF Texts, Passwords, Secrets

LEMMA EnsureType ==
  ASSUME NEW password \in Passwords, NEW method \in Methods2022
  PROVE  EnsureBase64Password(password, method) \in Passwords
<1>1. password \in Seq(STRING \cup Nat) /\ KeyLength(method) \in STRING \cup Nat
  BY DEF Passwords, KeyLength
<1>2. Append(password, KeyLength(method)) \in Passwords
  BY <1>1 DEF Passwords
<1> QED BY <1>2 DEF EnsureBase64Password

(* What syncUsers makes of one user in an inbound whose protocol it knows: *)
(* one account at most, of his, at level 0, or the nil account if his id   *)
(* is invalid.                                                             *)
OwnAccount(a, u) == a \in AccountSet /\ a.email = u.email /\ a.level = 0

LEMMA NilIsNoAccount == NilAccount \notin AccountSet
BY DEF NilAccount, AccountSet, AccountTypes

LEMMA VmessAccounts ==
  ASSUME NEW u \in UserSet
  PROVE  /\ \A a \in NewVmessAccounts(u) : OwnAccount(a, u)
         /\ AtMostOne(NewVmessAccounts(u))
         /\ (\E p \in u.vmess : p.id = BadId) => NewVmessAccounts(u) = {}
<1>1. u.email \in STRING /\ u.vmess \subseteq [id : Texts] /\ AtMostOne(u.vmess)
  BY DEF UserSet
<1>2. ASSUME NEW p \in u.vmess
      PROVE  OwnAccount(Account("vmess", u, p.id, ""), u)
  <2>1. p.id \in Texts
    BY <1>1
  <2>2. p.id \in Secrets
    BY <2>1, TextIsPassword
  <2> QED BY <1>1, <2>2 DEF Account, OwnAccount, AccountSet, AccountTypes, CipherTypes
<1> QED BY <1>1, <1>2 DEF NewVmessAccounts, AtMostOne

LEMMA VlessAccounts ==
  ASSUME NEW i, NEW u \in UserSet
  PROVE  /\ \A a \in VlessListed(i, u) : OwnAccount(a, u)
         /\ AtMostOne(VlessListed(i, u))
<1>1. u.email \in STRING /\ u.vless \subseteq [id : Texts, flow : STRING] /\ AtMostOne(u.vless)
  BY DEF UserSet
<1>2. ASSUME NEW p \in u.vless
      PROVE  OwnAccount(CheckVless(i, Account("vless", u, p.id, p.flow)), u)
  <2>1. p.id \in Texts /\ p.flow \in STRING
    BY <1>1
  <2>2. p.id \in Secrets
    BY <2>1, TextIsPassword
  <2>3. Account("vless", u, p.id, p.flow) \in AccountSet
    BY <1>1, <2>1, <2>2 DEF Account, AccountSet, AccountTypes
  <2>4. CheckVless(i, Account("vless", u, p.id, p.flow)) \in AccountSet
    BY <2>3 DEF CheckVless, AccountSet
  <2> QED BY <2>3, <2>4 DEF Account, OwnAccount, CheckVless
<1> QED BY <1>1, <1>2 DEF VlessListed, NewVlessAccounts, AtMostOne

LEMMA TrojanAccounts ==
  ASSUME NEW u \in UserSet
  PROVE  /\ \A a \in NewTrojanAccounts(u) : OwnAccount(a, u)
         /\ AtMostOne(NewTrojanAccounts(u))
<1>1. u.email \in STRING /\ u.trojan \subseteq [password : Texts] /\ AtMostOne(u.trojan)
  BY DEF UserSet
<1>2. ASSUME NEW p \in u.trojan
      PROVE  OwnAccount(Account("trojan", u, p.password, ""), u)
  <2>1. p.password \in Secrets
    BY <1>1, TextIsPassword
  <2> QED BY <1>1, <2>1 DEF Account, OwnAccount, AccountSet, AccountTypes, CipherTypes
<1> QED BY <1>1, <1>2 DEF NewTrojanAccounts, AtMostOne

LEMMA ShadowsocksAccounts ==
  ASSUME NEW i, NEW u \in UserSet
  PROVE  /\ \A a \in ShadowsocksListed(i, u) : OwnAccount(a, u)
         /\ AtMostOne(ShadowsocksListed(i, u))
<1>1. /\ u.email \in STRING /\ u.shadowsocks \subseteq [password : Texts, method : STRING]
      /\ AtMostOne(u.shadowsocks)
  BY DEF UserSet
<1>2. CASE Has2022(i)
  <2>1. ASSUME NEW p \in u.shadowsocks
        PROVE  OwnAccount(CheckShadowsocks2022(i, Account("shadowsocks2022", u, p.password, "")), u)
    <3> DEFINE a == Account("shadowsocks2022", u, p.password, "")
    <3>1. p.password \in Passwords /\ p.password \in Secrets
      BY <1>1, TextIsPassword
    <3>2. EnsureBase64Password(p.password, i.method) \in Secrets
      BY <1>2, <3>1, EnsureType DEF Has2022, Passwords, Secrets
    <3>3. a \in AccountSet /\ a.secret = p.password
      BY <1>1, <3>1 DEF Account, AccountSet, AccountTypes
    <3>4. /\ CheckShadowsocks2022(i, a) \in AccountSet
          /\ CheckShadowsocks2022(i, a).email = a.email
          /\ CheckShadowsocks2022(i, a).level = a.level
          /\ CheckShadowsocks2022(i, a).type = a.type
      <4> HIDE DEF a
      <4> QED BY <3>2, <3>3 DEF CheckShadowsocks2022, AccountSet
    <3> QED BY <3>4 DEF Account, OwnAccount
  <2> QED BY <1>1, <1>2, <2>1 DEF ShadowsocksListed, NewShadowsocksAccounts, AtMostOne
<1>3. CASE ~Has2022(i)
  <2>1. ASSUME NEW p \in u.shadowsocks
        PROVE  OwnAccount(Account("shadowsocks", u, p.password,
                                  IF p.method \in CipherTypes THEN p.method ELSE "none"), u)
    <3>1. p.password \in Secrets /\ p.method \in STRING
      BY <1>1, TextIsPassword
    <3> QED BY <1>1, <3>1 DEF Account, OwnAccount, AccountSet, AccountTypes, CipherTypes
  <2> QED BY <1>1, <1>3, <2>1 DEF ShadowsocksListed, NewShadowsocksTcpAccounts, AtMostOne
<1> QED BY <1>2, <1>3

LEMMA ListedAccounts ==
  ASSUME NEW i, i.protocol \in KnownProtocols, NEW u \in UserSet
  PROVE  /\ \A a \in Listed(i, u) : OwnAccount(a, u) \/ a = NilAccount
         /\ AtMostOne(Listed(i, u))
         /\ NilAccount \in Listed(i, u) => \E p \in u.vmess : p.id = BadId
         /\ Listed(i, u) \ {NilAccount} = ActiveAccounts(i, u)
<1>0. ~OwnAccount(NilAccount, u)
  BY NilIsNoAccount DEF OwnAccount
<1>1. CASE i.tag \notin u.inbounds
  BY <1>1 DEF Listed, ActiveAccounts, AtMostOne
<1>2. CASE i.tag \in u.inbounds /\ i.protocol = "vmess"
  <2>1. Listed(i, u) = VmessListed(u) /\ ActiveAccounts(i, u) = NewVmessAccounts(u)
    BY <1>2 DEF Listed, ActiveAccounts
  <2>2. CASE \E p \in u.vmess : p.id = BadId
    BY <2>1, <2>2, VmessAccounts DEF VmessListed, AtMostOne
  <2>3. CASE ~\E p \in u.vmess : p.id = BadId
    BY <1>0, <2>1, <2>3, VmessAccounts DEF VmessListed
  <2> QED BY <2>2, <2>3
<1>3. CASE i.tag \in u.inbounds /\ i.protocol = "vless"
  <2>1. Listed(i, u) = VlessListed(i, u) /\ ActiveAccounts(i, u) = VlessListed(i, u)
    BY <1>3 DEF Listed, ActiveAccounts, VlessListed
  <2> QED BY <1>0, <2>1, VlessAccounts
<1>4. CASE i.tag \in u.inbounds /\ i.protocol = "trojan"
  <2>1. Listed(i, u) = NewTrojanAccounts(u) /\ ActiveAccounts(i, u) = NewTrojanAccounts(u)
    BY <1>4 DEF Listed, ActiveAccounts
  <2> QED BY <1>0, <2>1, TrojanAccounts
<1>5. CASE i.tag \in u.inbounds /\ i.protocol = "shadowsocks"
  <2>1. Listed(i, u) = ShadowsocksListed(i, u) /\ ActiveAccounts(i, u) = ShadowsocksListed(i, u)
    BY <1>5 DEF Listed, ActiveAccounts, ShadowsocksListed
  <2> QED BY <1>0, <2>1, ShadowsocksAccounts
<1> QED BY <1>1, <1>2, <1>3, <1>4, <1>5 DEF KnownProtocols

-----------------------------------------------------------------------------
(* A client list, and that it has no two accounts of one user.             *)
ClientLists == Seq(AccountSet \cup {NilAccount})
Distinct(clients) ==
  \A j, k \in DOMAIN clients :
    clients[j] # NilAccount /\ clients[k] # NilAccount /\ clients[j].email = clients[k].email
      => j = k

OnePerEmail(us) == \A j, k \in DOMAIN us : us[j].email = us[k].email => j = k

(* Only the clients of an inbound change.                                  *)
WithClients(i, clients) == [i EXCEPT !.clients = clients]

LEMMA WithClientsType ==
  ASSUME NEW i \in InboundSet, NEW clients \in ClientLists
  PROVE  WithClients(i, clients) \in InboundSet /\ WithClients(i, clients).clients = clients
BY DEF WithClients, InboundSet, ClientLists

(* config.go:64-144: the list that SyncUsers makes has the accounts of its *)
(* users and no others, and each user once.                                *)
LEMMA SyncUsersClients ==
  ASSUME NEW i \in InboundSet, i.protocol \in KnownProtocols,
         NEW us \in Seq(UserSet), OnePerEmail(us)
  PROVE  \E clients \in ClientLists :
           /\ SyncUsersIn(i, us) = WithClients(i, clients)
           /\ Range(clients) = UNION {Listed(i, u) : u \in Range(us)}
           /\ Distinct(clients)
<1> DEFINE none == {u \in Range(us) : Listed(i, u) = {}}
           kept == Omit(us, none)
           n == Len(kept)
           clients == [k \in DOMAIN kept |-> CHOOSE a \in Listed(i, kept[k]) : TRUE]
<1>1. kept \in Seq(UserSet) /\ n \in Nat /\ DOMAIN kept = 1..n
  BY OmitPlaces
<1>2. PICK place : Places(us, none, kept, Len(us), place)
  BY OmitPlaces
<1>3. SyncUsersIn(i, us) = WithClients(i, clients)
  BY DEF SyncUsersIn, WithClients
<1> HIDE DEF kept, n, none
<1>4. /\ place \in [1..n -> 1..Len(us)]
      /\ \A j, k \in 1..n : j < k => place[j] < place[k]
      /\ \A k \in 1..n : kept[k] = us[place[k]] /\ us[place[k]] \notin none
      /\ \A m \in 1..Len(us) : us[m] \notin none => \E k \in 1..n : place[k] = m
  BY <1>2 DEF Places, n
<1>5. /\ Len(us) \in Nat /\ DOMAIN us = 1..Len(us) /\ us \in [1..Len(us) -> UserSet]
      /\ Range(us) = {us[k] : k \in 1..Len(us)}
  BY SeqIsFunction
<1>6. ASSUME NEW k \in 1..n
      PROVE  /\ kept[k] \in UserSet /\ kept[k] \in Range(us) /\ clients[k] \in Listed(i, kept[k])
             /\ Listed(i, kept[k]) \ {clients[k]} = {}
             /\ clients[k] = NilAccount \/ OwnAccount(clients[k], kept[k])
  <2>1. kept[k] \in UserSet /\ kept[k] \in Range(us)
    BY <1>4, <1>5
  <2>2. Listed(i, kept[k]) # {}
    BY <1>4, <2>1 DEF none
  <2>3. clients[k] \in Listed(i, kept[k])
    BY <1>1, <2>2
  <2> HIDE DEF clients
  <2> QED BY <2>1, <2>3, ListedAccounts DEF AtMostOne
<1>7. clients \in [1..n -> AccountSet \cup {NilAccount}]
  <2>1. clients = [k \in 1..n |-> clients[k]]
    BY <1>1
  <2>2. \A k \in 1..n : clients[k] \in AccountSet \cup {NilAccount}
    BY <1>6 DEF OwnAccount
  <2> HIDE DEF clients
  <2> QED BY <2>1, <2>2
<1> HIDE DEF clients
<1>8. clients \in ClientLists /\ DOMAIN clients = 1..n /\ Range(clients) = {clients[k] : k \in 1..n}
  <2>1. clients \in Seq(AccountSet \cup {NilAccount}) /\ Len(clients) = n
    BY <1>1, <1>7, FunctionIsSeq
  <2> QED BY <2>1, SeqIsFunction DEF ClientLists
<1>9. Range(clients) = UNION {Listed(i, u) : u \in Range(us)}
  <2>1. ASSUME NEW u \in Range(us), NEW a \in Listed(i, u)
        PROVE  a \in Range(clients)
    <3>1. PICK m \in 1..Len(us) : u = us[m]
      BY <1>5
    <3>2. u \notin none
      BY <2>1 DEF none
    <3>3. PICK k \in 1..n : place[k] = m
      BY <1>4, <3>1, <3>2
    <3>4. kept[k] = u
      BY <1>4, <3>1, <3>3
    <3>5. a = clients[k]
      BY <1>6, <3>4
    <3> QED BY <1>8, <3>5
  <2>2. ASSUME NEW a \in Range(clients)
        PROVE  \E u \in Range(us) : a \in Listed(i, u)
    BY <1>6, <1>8
  <2> QED BY <2>1, <2>2
<1>10. Distinct(clients)
  <2> SUFFICES ASSUME NEW j \in 1..n, NEW k \in 1..n,
                      clients[j] # NilAccount, clients[k] # NilAccount,
                      clients[j].email = clients[k].email
               PROVE  j = k
    BY <1>8 DEF Distinct
  <2>1. kept[j].email = kept[k].email
    BY <1>6 DEF OwnAccount
  <2>2. place[j] = place[k]
    BY <1>4, <1>5, <2>1 DEF OnePerEmail
  <2> QED BY <1>1, <1>4, <2>2
<1> QED BY <1>3, <1>8, <1>9, <1>10

(* config.go:158-163: what is left of a list once the user is gone.        *)
LEMMA ClientsLeft ==
  ASSUME NEW clients \in ClientLists, Distinct(clients), NEW e,
         ~\E k \in DOMAIN clients : /\ clients[k] = NilAccount
                                    /\ \A j \in 1..(k - 1) : clients[j].email # e
  PROVE  LET left == WithoutClient(clients, e)
         IN  /\ left \in ClientLists /\ Distinct(left)
             /\ Range(left) \ {NilAccount} = {c \in Range(clients) \ {NilAccount} : c.email # e}
             /\ NilAccount \in Range(left) => NilAccount \in Range(clients)
<1> DEFINE n == Len(clients)
           left == WithoutClient(clients, e)
           T == AccountSet \cup {NilAccount}
<1>0. clients \in Seq(T) /\ n \in Nat /\ DOMAIN clients = 1..n
      /\ Range(clients) = {clients[k] : k \in 1..n}
  BY SeqIsFunction DEF ClientLists
<1> HIDE DEF n, left, T
<1>3. \/ left = clients /\ \A k \in 1..n : clients[k].email # e
      \/ \E m \in 1..n :
           /\ clients[m].email = e /\ \A k \in 1..(m - 1) : clients[k].email # e
           /\ left \in Seq(T) /\ Len(left) = n - 1
           /\ \A k \in 1..(n - 1) : left[k] = IF k < m THEN clients[k] ELSE clients[k + 1]
  <2>1. clients \in Seq(T)
    BY <1>0
  <2> QED BY <2>1, WithoutClientAt DEF left, n
<1>1. CASE left = clients /\ \A k \in 1..n : clients[k].email # e
  BY <1>0, <1>1 DEF left
<1>2. CASE \E m \in 1..n :
             /\ clients[m].email = e /\ \A k \in 1..(m - 1) : clients[k].email # e
             /\ left \in Seq(T) /\ Len(left) = n - 1
             /\ \A k \in 1..(n - 1) : left[k] = IF k < m THEN clients[k] ELSE clients[k + 1]
  <2>1. PICK m \in 1..n :
          /\ clients[m].email = e /\ \A k \in 1..(m - 1) : clients[k].email # e
          /\ left \in Seq(T) /\ Len(left) = n - 1
          /\ \A k \in 1..(n - 1) : left[k] = IF k < m THEN clients[k] ELSE clients[k + 1]
    BY <1>2
  <2>2. clients[m] # NilAccount
    BY <1>0, <2>1
  <2>3. DOMAIN left = 1..(n - 1) /\ Range(left) = {left[k] : k \in 1..(n - 1)}
    BY <2>1, SeqIsFunction
  <2> DEFINE Old(k) == IF k < m THEN k ELSE k + 1
  <2>4. \A k \in 1..(n - 1) : Old(k) \in 1..n /\ Old(k) # m /\ left[k] = clients[Old(k)]
    BY <1>0, <2>1
  <2>5. \A j, k \in 1..(n - 1) : Old(j) = Old(k) => j = k
    BY <1>0
  <2>6. \A j \in 1..n : j # m => \E k \in 1..(n - 1) : Old(k) = j
    <3> SUFFICES ASSUME NEW j \in 1..n, j # m
                 PROVE  \E k \in 1..(n - 1) : Old(k) = j
      OBVIOUS
    <3>1. CASE j < m
      <4>1. j \in 1..(n - 1) /\ Old(j) = j
        BY <1>0, <3>1
      <4> QED BY <4>1
    <3>2. CASE m < j
      <4>1. j - 1 \in 1..(n - 1) /\ Old(j - 1) = j
        BY <1>0, <3>2
      <4> QED BY <4>1
    <3> QED BY <1>0, <3>1, <3>2
  <2> HIDE DEF Old
  <2>7. Distinct(left)
    <3> SUFFICES ASSUME NEW j \in 1..(n - 1), NEW k \in 1..(n - 1),
                        left[j] # NilAccount, left[k] # NilAccount,
                        left[j].email = left[k].email
                 PROVE  j = k
      BY <2>3 DEF Distinct
    <3>1. Old(j) = Old(k)
      BY <1>0, <2>4 DEF Distinct
    <3> QED BY <2>5, <3>1
  <2>8. ASSUME NEW k \in 1..(n - 1), left[k] # NilAccount
        PROVE  left[k].email # e
    <3> SUFFICES ASSUME left[k].email = e PROVE FALSE
      OBVIOUS
    <3>1. Old(k) \in 1..n /\ Old(k) # m /\ left[k] = clients[Old(k)]
      BY <2>4
    <3>2. /\ clients[Old(k)] # NilAccount /\ clients[Old(k)].email = clients[m].email
          /\ Old(k) \in DOMAIN clients /\ m \in DOMAIN clients
      BY <1>0, <2>1, <2>8, <3>1
    <3> QED BY <2>2, <3>1, <3>2 DEF Distinct
  <2>9. ASSUME NEW c \in Range(clients), c.email # e
        PROVE  c \in Range(left)
    <3>1. PICK j \in 1..n : c = clients[j]
      BY <1>0
    <3>2. j # m
      BY <2>1, <2>9, <3>1
    <3>3. PICK k \in 1..(n - 1) : Old(k) = j
      BY <2>6, <3>2
    <3> QED BY <2>3, <2>4, <3>1, <3>3
  <2>10. Range(left) \subseteq Range(clients)
    BY <1>0, <2>3, <2>4
  <2>11. Range(left) \ {NilAccount} = {c \in Range(clients) \ {NilAccount} : c.email # e}
    BY <2>3, <2>8, <2>9, <2>10
  <2> QED BY <2>1, <2>7, <2>10, <2>11 DEF left, T, ClientLists
<1> QED BY <1>1, <1>2, <1>3

(* An account of the node's making is normalised already.                  *)
LEMMA ActiveNormalised ==
  ASSUME NEW i, i.protocol \in KnownProtocols, NEW u \in UserSet, NEW a \in ActiveAccounts(i, u),
         a.type = "shadowsocks2022"
  PROVE  CheckShadowsocks2022(i, a) = a
<1>1. i.tag \in u.inbounds
  BY DEF ActiveAccounts
<1>2. CASE i.protocol = "shadowsocks" /\ Has2022(i)
  <2>1. PICK p \in u.shadowsocks :
          a = CheckShadowsocks2022(i, Account("shadowsocks2022", u, p.password, ""))
    BY <1>1, <1>2 DEF ActiveAccounts, NewShadowsocksAccounts
  <2> DEFINE b == Account("shadowsocks2022", u, p.password, "")
  <2>2. p.password \in Texts /\ u.email \in STRING
    BY DEF UserSet
  <2>3. p.password \in Passwords /\ p.password \in Secrets
    BY <2>2, TextIsPassword
  <2>4. b \in AccountSet /\ b.secret \in Passwords
    BY <2>2, <2>3 DEF Account, AccountSet, AccountTypes
  <2> HIDE DEF b
  <2> QED BY <1>2, <2>1, <2>4, NormalisedOnce DEF Has2022, b
<1>3. CASE i.protocol = "shadowsocks" /\ ~Has2022(i)
  <2>1. \E p \in u.shadowsocks : \E cipher : a = Account("shadowsocks", u, p.password, cipher)
    BY <1>1, <1>3 DEF ActiveAccounts, NewShadowsocksTcpAccounts
  <2> QED BY <2>1 DEF Account
<1>4. CASE i.protocol = "vless"
  <2>1. PICK p \in u.vless : a = CheckVless(i, Account("vless", u, p.id, p.flow))
    BY <1>1, <1>4 DEF ActiveAccounts, NewVlessAccounts
  <2> QED BY <2>1 DEF CheckVless, Account
<1>5. CASE i.protocol = "vmess"
  <2>1. PICK p \in u.vmess : a = Account("vmess", u, p.id, "")
    BY <1>1, <1>5 DEF ActiveAccounts, NewVmessAccounts
  <2> QED BY <2>1 DEF Account
<1>6. CASE i.protocol = "trojan"
  <2>1. PICK p \in u.trojan : a = Account("trojan", u, p.password, "")
    BY <1>1, <1>6 DEF ActiveAccounts, NewTrojanAccounts
  <2> QED BY <2>1 DEF Account
<1> QED BY <1>2, <1>3, <1>4, <1>5, <1>6 DEF KnownProtocols

(* config.go:146-314: the list that SyncUser leaves has the account the    *)
(* user is to have now, and those of all others as they were.              *)
LEMMA SyncUserClients ==
  ASSUME NEW i \in InboundSet, i.protocol \in KnownProtocols, NEW u \in UserSet,
         Distinct(i.clients), ~ScanPanics(i, u.email)
  PROVE  \E clients \in ClientLists :
           /\ SyncUserIn(i, u) = WithClients(i, clients)
           /\ Range(clients) \ {NilAccount} =
                {c \in Range(i.clients) \ {NilAccount} : c.email # u.email}
                   \cup ActiveAccounts(i, u)
           /\ Distinct(clients)
           /\ NilAccount \in Range(clients) => NilAccount \in Range(i.clients)
<1> DEFINE left == WithoutClient(i.clients, u.email)
           as == ActiveAccounts(i, u)
<1>1. i.clients \in ClientLists
  BY DEF InboundSet, ClientLists
<1>2. /\ left \in ClientLists /\ Distinct(left)
      /\ Range(left) \ {NilAccount} =
           {c \in Range(i.clients) \ {NilAccount} : c.email # u.email}
      /\ NilAccount \in Range(left) => NilAccount \in Range(i.clients)
  BY <1>1, ClientsLeft DEF ScanPanics
<1>3. AtMostOne(as) /\ \A a \in as : OwnAccount(a, u)
  <2>1. as = Listed(i, u) \ {NilAccount}
    BY ListedAccounts
  <2> HIDE DEF as
  <2> QED BY <2>1, ListedAccounts DEF AtMostOne
<1> HIDE DEF left, as
<1>4. CASE as = {}
  <2>1. SyncUserIn(i, u) = WithClients(i, left)
    BY <1>4 DEF SyncUserIn, RemoveUser, WithClients, left, as
  <2> QED BY <1>2, <1>4, <2>1 DEF as
<1>5. CASE as # {}
  <2> DEFINE a == CHOOSE x \in as : TRUE
             clients == Append(left, a)
             n == Len(left)
  <2>1. a \in as /\ as = {a}
    BY <1>3, <1>5 DEF AtMostOne
  <2>2. a.type = "shadowsocks2022" => CheckShadowsocks2022(i, a) = a
    BY <2>1, ActiveNormalised DEF as
  <2>3. SyncUserIn(i, u) = UpdateUser(i, a)
    BY <1>5 DEF SyncUserIn, as
  <2> HIDE DEF a
  <2>4. OwnAccount(a, u) /\ a \in AccountSet /\ a.email = u.email /\ a # NilAccount
    BY <1>3, <2>1, NilIsNoAccount DEF OwnAccount
  <2>5. UpdateUser(i, a) = WithClients(i, clients)
    BY <2>2, <2>4 DEF UpdateUser, WithClients, left
  <2>6. /\ left \in Seq(AccountSet \cup {NilAccount}) /\ n \in Nat
        /\ DOMAIN left = 1..n /\ Range(left) = {left[k] : k \in 1..n}
    BY <1>2, SeqIsFunction DEF ClientLists
  <2>7. /\ clients \in ClientLists /\ DOMAIN clients = 1..(n + 1)
        /\ \A k \in 1..n : clients[k] = left[k]
        /\ clients[n + 1] = a
    BY <2>4, <2>6 DEF ClientLists
  <2>8. Range(clients) = {clients[k] : k \in 1..(n + 1)}
    BY <2>7 DEF Range
  <2> HIDE DEF clients, n
  <2>9. \A k \in 1..(n + 1) : k \in 1..n \/ k = n + 1
    BY <2>6
  <2>10. n + 1 \in 1..(n + 1) /\ 1..n \subseteq 1..(n + 1)
    BY <2>6
  <2>11. Range(clients) = Range(left) \cup {a}
    BY <2>6, <2>7, <2>8, <2>9, <2>10
  <2>12. \A k \in 1..n : left[k] # NilAccount => left[k].email # u.email
    BY <1>2, <2>6
  <2>13. Distinct(clients)
    BY <1>2, <2>4, <2>6, <2>7, <2>9, <2>12 DEF Distinct
  <2>14. Range(clients) \ {NilAccount} =
           {c \in Range(i.clients) \ {NilAccount} : c.email # u.email} \cup as
    BY <1>2, <2>1, <2>4, <2>11
  <2> QED BY <1>2, <2>3, <2>4, <2>5, <2>7, <2>11, <2>13, <2>14 DEF as
<1> QED BY <1>4, <1>5

(* An inbound of any other protocol stays as it is.                        *)
LEMMA OtherProtocols ==
  ASSUME NEW i, i.protocol \notin KnownProtocols, NEW u, NEW us
  PROVE  /\ SyncUserIn(i, u) = i /\ SyncUsersIn(i, us) = i
         /\ ActiveAccounts(i, u) = {} /\ ~SyncUsersPanics(i, us)
<1>1. /\ i.protocol # "vless" /\ i.protocol # "vmess" /\ i.protocol # "trojan"
      /\ i.protocol # "shadowsocks"
  BY DEF KnownProtocols
<1>2. ActiveAccounts(i, u) = {}
  BY <1>1 DEF ActiveAccounts
<1> QED BY <1>1, <1>2 DEF SyncUserIn, SyncUsersIn, RemoveUser, SyncUsersPanics

=============================================================================
