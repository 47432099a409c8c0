---------------------------- MODULE MCProvisioning ----------------------------
(* Provisioning for TLC.                                                   *)
EXTENDS Provisioning

(* "key16" and "key32" are base64 of keys, the other texts are not.        *)
MCDecoded == [t \in {"pw", "key16", "key32", "id"} |->
                CASE t = "key16" -> 16 [] t = "key32" -> 32 [] OTHER -> 0]

MCEndsIn == {<<"superuser", "user">>}

-----------------------------------------------------------------------------
In(tag, protocol) == [ApiInbound EXCEPT !.tag = tag, !.protocol = protocol]

Foreign == [type |-> "vmess", email |-> "foreign", level |-> 0, secret |-> <<"id">>, detail |-> ""]
Guest == [Foreign EXCEPT !.email = "guest", !.level = 1]

Own == In(ApiTag, "dokodemo-door")
Tro == In("trojan", "trojan")
Soc == In("socks", "socks")
Tls == [In("tls", "vless") EXCEPT !.network = "tcp", !.security = "tls"]
Http == [Tls EXCEPT !.tag = "http", !.tcp = "Type: http"]
Vme == In("vmess", "vmess")
Old == [In("old", "vmess") EXCEPT !.clients = <<Foreign, Guest>>]
Ss == In("ss", "shadowsocks")
Ss16 == [In("ss16", "shadowsocks") EXCEPT !.method = Aes128]
Ss32 == [In("ss32", "shadowsocks") EXCEPT !.method = "2022-blake3-aes-256-gcm"]

Plain == [inbounds |-> <<Tro>>, router |-> {}, policy |-> {}, log |-> TRUE,
          outbounds |-> {"direct"}]

Policy(zero, inbound) ==
  {[levels |-> [l \in {0, 1} |-> IF l = 0 THEN zero ELSE NoLevel],
    system |-> {[inbound |-> inbound, outbound |-> FALSE]}]}

(* Every sequence of up to three inbounds where API inbounds can be, and   *)
(* some with a null.                                                       *)
Shapes == {[Plain EXCEPT !.inbounds = is] :
             is \in SeqOf({Own, Tro, Soc}, 3) \cup SeqOf({NilInbound, Tro}, 2)}

Routers == {{}} \cup {{rs} : rs \in {<<>>, <<"a", StaleRule, "b">>, <<ApiRule, StaleRule, "a">>,
                                   <<"a", BadRule, StaleRule>>}}
NullOne == {[levels |-> [l \in {1} |-> NullLevel], system |-> {}]}
Policies == {{}, {NoPolicy}, NullOne, Policy(NoLevel, TRUE),
             Policy([NoLevel EXCEPT !.online = TRUE], FALSE), Policy(NullLevel, FALSE)}
Sections == {[Plain EXCEPT !.router = r, !.outbounds = {"superuser"}] : r \in Routers} \cup
            {[Plain EXCEPT !.policy = p, !.log = l] : p \in Policies, l \in BOOLEAN}

Rich == {[Plain EXCEPT !.inbounds = is] :
           is \in {<<Tls, Http, Vme>>, <<Old, Vme, Tro>>, <<Ss, Ss16, Ss32>>,
                   <<Vme, [Tro EXCEPT !.settings = FALSE]>>,
                   <<Tro, [Soc EXCEPT !.settings = FALSE]>>}}

-----------------------------------------------------------------------------
User(email, tags, vmess, vless, password, method) ==
  [email |-> email, inbounds |-> tags,
   vmess |-> {[id |-> vmess]}, vless |-> {[id |-> vless, flow |-> "vision"]},
   trojan |-> {[password |-> password]},
   shadowsocks |-> {[password |-> password, method |-> method]}]

All == {"trojan", "socks", "tls", "http", "vmess", "old", "ss", "ss16", "ss32"}
Good == User("ann", All, <<"id">>, <<"id">>, <<"pw">>, "aes-128-gcm")
Keyed == User("ann", All, <<"id">>, <<"id">>, <<"key16">>, "rot13")
Some == User("ann", {"http", "ss32"}, <<"id">>, <<"id">>, <<"key32">>, "none")
Bob == User("bob", All, <<"id">>, <<"id">>, <<"key32">>, "none")
BadVmess == User("bob", All, BadId, <<"id">>, <<"pw">>, "none")
BadVless == User("bob", All, <<"id">>, BadId, <<"pw">>, "none")
Bare == [Bob EXCEPT !.vmess = {}, !.vless = {}, !.trojan = {}, !.shadowsocks = {}]

MCUsers == {Keyed, Some, Bob, BadVmess, BadVless, Bare}
MCUserLists == {<<Good, Bob>>, <<BadVmess, Good>>, <<BadVless>>}

From(configs, excludes, userLists) ==
  {[config |-> c, exclude |-> x, users |-> us] : c \in configs, x \in excludes, us \in userLists}
MCStarts == From(Shapes \cup Sections, {{}}, {<<Good>>}) \cup
            From(Rich, {{}, {"old", ApiTag}}, MCUserLists)
=============================================================================
