------------------------ MODULE MCCommandEnvironment ------------------------
(***************************************************************************)
(* Small instances of CommandEnvironment: every combination of a few       *)
(* variables, texts and values that set, copy or drop one key, and of a    *)
(* URL's texts with values that hold what a URL's reader stops at.         *)
(***************************************************************************)
EXTENDS CommandEnvironment

CONSTANT Absent   \* a variable that isn't set, or a setting that isn't written

MCSize ==
  [word \in {"ke", "y1"} |-> 10] @@ [word \in {"pass", "p%ss", "host"} |-> 20] @@
  [word \in {"Bearer "} |-> 7] @@ [word \in {"s", "http", "://", "/", "@", ":", ",", "=", "trace"} |-> 1]
MCDecodes == "p%ss" :> "pass"
MCContextVariables == {"TRACEPARENT", "BAGGAGE"}
MCFields == {"TRACEPARENT"}
MCTraceContext == <<"trace">>

TheKey == <<"ke", "y1">>
Short == <<"s">>

Stating(f) == Restrict(f, {x \in DOMAIN f : f[x] # Absent})

\* A key, a copy of it under another name, and a context variable.
KeyVariables ==
  {Stating([KEY |-> key, COPY |-> copy, TRACEPARENT |-> trace]) :
     key \in {Absent, <<>>, TheKey, Short}, copy \in {Absent, Short \o TheKey},
     trace \in {Absent, TheKey, Short}}

KeyWritten ==
  {Stating(ApiKey :> key @@ Credential("TOKEN") :> token @@ Env("EXTRA") :> extra @@
          Env("TRACEPARENT") :> trace) :
     key \in {Absent, <<Reference("KEY")>>, <<ReferenceOr("KEY", Short)>>, <<WrittenOut(TheKey)>>},
     token \in {Absent, <<Reference("KEY")>>, <<ReferenceOr("COPY", <<>>)>>},
     extra \in {Absent, <<ReferenceOr("COPY", <<>>)>>, <<Reference("KEY")>>,
                <<WrittenOut(<<"ke">>), ReferenceOr("NONE", <<>>), WrittenOut(<<"y1">>)>>},
     trace \in {Absent, <<WrittenOut(Short)>>}}

KeyConfigs ==
  {[variables |-> variables, base |-> base.set, handsBase |-> base.hands, written |-> written,
    code |-> code, needsKey |-> TRUE] :
     variables \in KeyVariables, written \in KeyWritten,
     code \in {<<>>, ApiKey :> TheKey},
     base \in {[hands |-> FALSE, set |-> <<>>], [hands |-> TRUE, set |-> [PATH |-> Short]]}}
  \union
  {[variables |-> variables, base |-> variables, handsBase |-> TRUE, written |-> written,
    code |-> code, needsKey |-> TRUE] :
     variables \in KeyVariables, written \in KeyWritten, code \in {<<>>, ApiKey :> TheKey}}

\* A URL's user and password, each a variable, a text or both, another URL
\* and a plain setting, headers, and a copy of what one of them holds.
UrlVariables ==
  {Stating([USER |-> user, PASS |-> pass, COPY |-> copy]) :
     user \in {<<"s">>, <<"s", "/">>, <<"s", ":", "s">>},
     pass \in {<<>>, <<"pass">>, <<"p%ss">>, <<"pass", "@">>, <<"s", "/", "pass">>, <<"pass", ",", "s">>},
     copy \in {Absent, <<"pass">>, <<"p%ss">>, <<"s", "@", "pass">>}}

User == <<Reference("USER"), WrittenOut(<<":">>)>>
AtHost(rest) == <<WrittenOut(<<"@">>)>> \o rest
Host == <<WrittenOut(<<"host">>)>>
Scheme == ReferenceOr("COPY", <<"http", "://">>)
CodesUrl == Url("model") :> <<"http", "://", "s", "@", "host">>

UrlTexts ==
  {<<WrittenOut(<<"http", "://">>)>> \o rest : rest \in
     {Host, <<Reference("COPY")>>, AtHost(Host), <<WrittenOut(Short)>> \o AtHost(Host),
      Host \o <<WrittenOut(<<"/">>), Reference("PASS")>>,
      User \o <<Reference("PASS")>> \o AtHost(Host),
      User \o <<ReferenceOr("PASS", Short)>> \o AtHost(Host),
      User \o <<Reference("PASS")>> \o AtHost(<<Reference("COPY")>>),
      User \o <<Reference("PASS")>> \o AtHost(Host \o <<WrittenOut(<<"/">>), Reference("PASS")>>)}}

UrlWritten ==
  {Stating(Url("model") :> url @@ Url("otlp") :> other @@ Plain :> plain) :
     url \in {Absent} \union UrlTexts,
     other \in {Absent, Host \o <<WrittenOut(<<"/">>), Reference("USER")>>,
                <<Reference("PASS")>> \o AtHost(Host)},
     plain \in {Absent, <<Reference("PASS")>>, <<Reference("COPY")>>}}

HeaderWritten ==
  {Stating(key :> header @@ Plain :> plain) :
     key \in {Header("x")}, plain \in {Absent, <<Reference("PASS")>>},
     header \in {<<WrittenOut(<<"Bearer ">>), Reference("PASS")>>, <<WrittenOut(<<"pass">>)>>,
                 <<ReferenceOr("PASS", <<>>)>>}}
  \union
  {Stating(key :> header @@ Plain :> plain) :
     key \in {HeadersText}, plain \in {Absent, <<Reference("PASS")>>},
     header \in {<<WrittenOut(<<"s", "=", "Bearer ">>), Reference("PASS")>>,
                 <<WrittenOut(<<"s", "=">>), Reference("PASS"), WrittenOut(<<",", "s", "=", "pass">>)>>,
                 <<WrittenOut(<<"s", "=">>), Reference("PASS"), WrittenOut(<<",", "s", "=">>), Reference("USER")>>,
                 <<ReferenceOr("PASS", <<>>)>>}}

\* The key's variable fills a URL too, whose @ a default writes.
DefaultConfigs ==
  {[variables |-> [USER |-> user, COPY |-> copy], base |-> <<>>, handsBase |-> TRUE, code |-> <<>>,
    written |-> ApiKey :> <<Reference("USER")>> @@ Url("model") :>
      <<WrittenOut(<<"http", "://">>), Reference("USER"), ReferenceOr("COPY", <<"@">>)>> \o Host,
    needsKey |-> TRUE] :
     user \in {<<"pass">>, <<"s">>}, copy \in {<<>>, <<"s">>, <<"@">>}}

\* Defaults of a URL's scheme and path, and code's URL over the text's.
MovedConfigs ==
  {[variables |-> variables, base |-> variables, handsBase |-> TRUE, code |-> code,
    written |-> Url("model") :> url @@ ApiKey :> <<Reference("USER")>>, needsKey |-> TRUE] :
     variables \in {Stating([USER |-> user, COPY |-> copy]) :
       user \in {<<"pass">>, <<"s", ":", "s">>},
       copy \in {Absent, <<>>, <<"s">>, <<"host", "://">>, <<"s", "://", "s">>, <<"/", "s">>,
                  <<"://", "host", "://">>}},
     code \in {<<>>, CodesUrl},
     url \in {Host, <<Scheme>> \o Host, <<Scheme, Reference("USER")>> \o AtHost(Host),
              <<Reference("USER")>> \o AtHost(Host) \o <<ReferenceOr("COPY", <<"/">>)>>,
              <<Reference("USER")>> \o AtHost(Host) \o <<WrittenOut(<<"://">>), Scheme>>,
              <<ReferenceOr("COPY", <<>>), Reference("USER")>> \o AtHost(Host)}}

UrlConfigs ==
  {[variables |-> variables, base |-> variables, handsBase |-> TRUE, written |-> written,
    code |-> <<>>, needsKey |-> FALSE] :
     variables \in UrlVariables, written \in UrlWritten \union HeaderWritten}

MCConfigs == KeyConfigs \union UrlConfigs \union DefaultConfigs \union MovedConfigs
MCContents == {<<>>, TheKey}
=============================================================================
