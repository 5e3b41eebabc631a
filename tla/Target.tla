------------------------------- MODULE Target -------------------------------
(***************************************************************************)
(* What becomes of a target on its way from the application to the pool:   *)
(* parsed by NewClient (src/target.go, src/internal/target/parse.go),      *)
(* joined to the addresses of the endpoints by the resolver adapter        *)
(* (src/resolver_adapter.go) and taken apart again by the balancer         *)
(* (parseAddrToEndpoint in src/internal/balancer/builder.go).              *)
(*                                                                         *)
(* A text is a sequence of characters, a character a string of length one. *)
(* The text of a target is [scheme, rest], cut at its first "://"; the     *)
(* scheme of one that has no "://" is NoScheme.                            *)
(*                                                                         *)
(* Operators whose names begin with Bad are variants with a mistake; no    *)
(* specification uses them.                                                *)
(***************************************************************************)
EXTENDS Naturals, Sequences, SequencesExt

CONSTANTS Text,       \* the texts of targets that the properties are about
          Namespace,  \* default namespaces, <<>> among them
          Host,       \* addresses of endpoints
          NoScheme,
          MaxPort     \* bound: 65535 in the code

\* A namespace is a DNS label.
ASSUME TargetAssumption ==
  /\ MaxPort \in Nat \ {0}
  /\ \A text \in Text : text.rest \in Seq(STRING)
  /\ \A n \in Namespace : n \in Seq(STRING) /\ \A i \in DOMAIN n : n[i] # "/"
  /\ Host \subseteq Seq(STRING)

(***************************************************************************)
(* The library functions used: strings.Index, LastIndex, TrimLeft, SplitN  *)
(* at a position, strconv.Atoi and Itoa.                                   *)
(***************************************************************************)
Index(s, c) == SelectInSeq(s, LAMBDA x : x = c)
LastIndex(s, c) == SelectLastInSeq(s, LAMBDA x : x = c)
Before(s, i) == SubSeq(s, 1, i - 1)
After(s, i) == SubSeq(s, i + 1, Len(s))

\* s from its first character that is no "/".
TrimSlashes(s) ==
  LET i == SelectInSeq(s, LAMBDA x : x # "/")
  IN IF i = 0 THEN <<>> ELSE After(s, i - 1)

Digit == <<"0", "1", "2", "3", "4", "5", "6", "7", "8", "9">>
IsDigit(x) == x \in ToSet(Digit)

\* The number that the first i characters stand for.
Value(s) ==
  LET value[i \in 0..Len(s)] ==
        IF i = 0 THEN 0 ELSE 10 * value[i - 1] + Index(Digit, s[i]) - 1
  IN value

Atoi(s) == Value(s)[Len(s)]
Itoa[n \in Nat] ==
  IF n < 10 THEN <<Digit[n + 1]>> ELSE Append(Itoa[n \div 10], Digit[(n % 10) + 1])

(***************************************************************************)
(* internal/target.  A function that fails returns an error.               *)
(***************************************************************************)
Error(name) == [error |-> name]
IsError(x) == "error" \in DOMAIN x

BadParsePort(s) ==
  LET numeric == \A i \in DOMAIN s : IsDigit(s[i])
  IN CASE s = <<>> -> Error("ErrTargetInvalid")
       [] numeric /\ Atoi(s) > MaxPort -> Error("ErrTargetInvalid")
       [] OTHER -> IF numeric THEN [number |-> Atoi(s), name |-> <<>>]
                   ELSE [number |-> 0, name |-> s]

ParsePort(s) ==
  LET numeric == \A i \in DOMAIN s : IsDigit(s[i])
  IN CASE s = <<>> -> Error("ErrTargetInvalid")
       [] numeric /\ Atoi(s) \notin 1..MaxPort -> Error("ErrTargetInvalid")
       [] OTHER -> IF numeric THEN [number |-> Atoi(s), name |-> <<>>]
                   ELSE [number |-> 0, name |-> s]

\* "[<namespace>/]<service>:<port>" and "<host>:<port>", cut at the last colon
\* and the first slash.
SplitDNSPath(path) ==
  LET s == TrimSlashes(path)
      colon == LastIndex(s, ":")
  IN IF colon <= 1 THEN Error("ErrTargetInvalid")
     ELSE [service |-> Before(s, colon), port |-> After(s, colon)]

SplitK8sPath(path) ==
  LET s == TrimSlashes(path)
      colon == LastIndex(s, ":")
      name == Before(s, colon)
      slash == Index(name, "/")
  IN IF colon = 0 \/ slash = Len(name) THEN Error("ErrTargetInvalid")
     ELSE [namespace |-> Before(name, slash), service |-> After(name, slash),
           port |-> After(s, colon)]

PortString(p) == IF p.number # 0 THEN Itoa[p.number] ELSE p.name

(***************************************************************************)
(* ParseTarget and Target.String.                                          *)
(***************************************************************************)
ParseDns(rest) ==
  LET parts == SplitDNSPath(rest)
      port == ParsePort(parts.port)
  IN CASE IsError(parts) -> parts
       [] IsError(port) -> port
       [] OTHER -> [scheme |-> "dns", namespace |-> <<>>, service |-> parts.service,
                    port |-> port]

ParseK8s(rest, default) ==
  LET parts == SplitK8sPath(rest)
      namespace == IF parts.namespace = <<>> THEN default ELSE parts.namespace
      port == ParsePort(parts.port)
  IN CASE IsError(parts) -> parts
       [] namespace = <<>> -> Error("ErrMissingNamespace")
       [] IsError(port) -> port
       [] OTHER -> [scheme |-> "k8s", namespace |-> namespace, service |-> parts.service,
                    port |-> port]

ParseTarget(text, default) ==
  CASE text.scheme = NoScheme -> Error("ErrTargetInvalid")
    [] text.scheme = "k8s" -> ParseK8s(text.rest, default)
    [] text.scheme = "dns" -> ParseDns(text.rest)
    [] OTHER -> Error("ErrUnsupportedScheme")

\* String of a target that ParseTarget returns.
TargetString(t) ==
  [scheme |-> t.scheme,
   rest |-> <<"/">> \o (IF t.namespace = <<>> THEN <<>> ELSE t.namespace \o <<"/">>)
              \o t.service \o <<":">> \o PortString(t.port)]

(***************************************************************************)
(* The address of an endpoint: written by the adapter, read by the         *)
(* balancer, which skips the addresses it cannot read.                     *)
(***************************************************************************)
FormatAddr(host, port) == host \o <<":">> \o Itoa[port]

BadParseAddr(s) ==
  LET colon == Index(s, ":")
      end == SelectInSeq(After(s, colon), LAMBDA x : ~IsDigit(x))
      digits == IF end = 0 THEN After(s, colon) ELSE Before(After(s, colon), end)
  IN IF colon = 0 \/ digits = <<>> \/ Atoi(digits) \notin 1..MaxPort THEN {}
     ELSE {<<Before(s, colon), Atoi(digits)>>}

\* parseAddrToEndpoint: the endpoint, if there is one.  %d reads the digits at
\* the beginning of what follows the last colon.
ParseAddr(s) ==
  LET colon == LastIndex(s, ":")
      end == SelectInSeq(After(s, colon), LAMBDA x : ~IsDigit(x))
      digits == IF end = 0 THEN After(s, colon) ELSE Before(After(s, colon), end)
  IN IF colon = 0 \/ digits = <<>> \/ Atoi(digits) \notin 1..MaxPort THEN {}
     ELSE {<<Before(s, colon), Atoi(digits)>>}

\* The endpoints the balancer works with when the resolver of target t has
\* found these hosts.
EndpointsOf(t, hosts) == UNION {ParseAddr(FormatAddr(h, t.port.number)) : h \in hosts}

(***************************************************************************)
(* What holds of every text; module Client states it as properties.        *)
(***************************************************************************)
\* Every target that can be parsed is the same after it was printed and parsed
\* again.
PrintParses ==
  \A text \in Text, default \in Namespace :
    LET t == ParseTarget(text, default)
    IN ~IsError(t) => ParseTarget(TargetString(t), t.namespace) = t

\* An endpoint of a dns target comes through to the balancer with its address,
\* which may contain colons, and the port of the target if that is a number: the
\* two ends agree on the ports they take.  A named port has no number and loses
\* every endpoint.
PortsAgree ==
  \A text \in Text : text.scheme = "dns" =>
    LET t == ParseTarget(text, <<>>)
    IN ~IsError(t) =>
         \A h \in Host :
           EndpointsOf(t, {h}) = IF t.port.name = <<>> THEN {<<h, t.port.number>>} ELSE {}
=============================================================================
