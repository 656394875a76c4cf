---------------------------- MODULE FeignClient ----------------------------
(***************************************************************************)
(* module/feign: how an interface with @OpenFeignClient becomes a proxy    *)
(* and a call on it an HTTP request.  OpenFeignClientsRegister makes a     *)
(* bean definition of every interface while the context starts;            *)
(* OpenFeignClientFactoryBean makes the proxy when it is injected;         *)
(* OpenFeignClientProxy makes the request.  Each of the three puts a part  *)
(* of the URL in place.                                                    *)
(*                                                                         *)
(* A URL or a path is a sequence of tokens: a protocol, "/", or a word,    *)
(* which is a host, a segment or a variable such as "{msg}".  Placeholders *)
(* ("${client.serviceUrl}") are taken as resolved, and blanks around a     *)
(* path as trimmed.  The arguments that invoke gives the request as a form *)
(* besides, which a GET carries as a query, and the body are left out.     *)
(***************************************************************************)
EXTENDS Integers, Sequences, SequencesExt

CONSTANTS Token,        \* parts of URLs
          Client,       \* interfaces with @OpenFeignClient
          Declaration,  \* what an annotation may say: [iface, name, url, path]
          Method,       \* methods of the interfaces: [kind, path]
          Message,      \* arguments, as tokens; NullMessage for null
          NullMessage,
          NoBean,
          NoCall

VARIABLES decl,      \* [Client -> Declaration]
          left,      \* clients that are not registered yet
          boot,      \* whether the context starts, is up or failed
          bean,      \* [Client -> [url, path] \cup {NoBean}], the factory bean
          proxy,     \* [Client -> url \cup {NoBean}], the factory's product
          call       \* the last request: [client, method, msg, url, verb]

feignVars == <<decl, left, boot, bean, proxy, call>>

Http == {"http://", "https://"}

(* External: the protocols of java.net.URL, with "ftp://" for all but http *)
(* and https (ftp, file and jar).                                          *)
Handled == Http \cup {"ftp://"}

Protocol == Handled \cup {"lb://"}
Separator == Protocol \cup {"/"}
Variable == "{msg}"

StartsWith(s, tokens) == s # <<>> /\ s[1] \in tokens

(* A protocol ends with a slash, too. *)
EndsWithSlash(s) == s # <<>> /\ s[Len(s)] \in Separator

(* The words of a URL, which are what a server reads of it. *)
Words(url) == FlattenSeq([i \in 1 .. Len(url) |->
                            IF url[i] \in Separator THEN <<>> ELSE <<url[i]>>])

(* Two words side by side would be read as one. *)
Runs(url) == \E i \in 1 .. Len(url) - 1 : {url[i], url[i + 1]} \cap Separator = {}

(* The slashes at the seams are neither forgotten nor doubled. *)
Slashed(url) == \A i \in 1 .. Len(url) - 1 : url[i + 1] = "/" => url[i] \notin Separator

(* External: each part is spelled so by who annotates, with a protocol,    *)
(* one the JDK knows or not, at the beginning of a URL only; a message is  *)
(* one or more segments.                                                   *)
(* Only methods have the variable {msg}.                                   *)
Spelled(s) == /\ s \in Seq(Token) /\ ~Runs(s) /\ Slashed(s)
              /\ \A i \in 2 .. Len(s) : s[i] \notin Protocol

ASSUME FeignAssumption ==
  /\ Separator \subseteq Token
  /\ \A d \in Declaration : /\ Spelled(d.url) /\ ~StartsWith(d.url, {"/"})
                            /\ Spelled(d.path) /\ ~StartsWith(d.path, Protocol)
                            /\ ~Contains(d.url, Variable) /\ ~Contains(d.path, Variable)
  /\ \A m \in Method : Spelled(m.path) /\ ~StartsWith(m.path, Protocol)
  /\ \A msg \in Message \ {NullMessage} :
       Spelled(msg) /\ msg # <<>> /\ ~StartsWith(msg, Separator) /\ ~EndsWithSlash(msg)
  /\ NoBean \notin Seq(Token)

FeignInit == /\ decl \in [Client -> Declaration]
             /\ left = Client
             /\ boot = "scan"
             /\ bean = [c \in Client |-> NoBean]
             /\ proxy = [c \in Client |-> NoBean]
             /\ call = NoCall

-----------------------------------------------------------------------------
(* OpenFeignClientsRegister *)

(* getName: an empty name passes, one that is no host name does not. *)
LegalName(name) == name \in {"none", "host name"}

(* getUrl: a protocol is put before a URL without one, unless it is a      *)
(* bean expression, which is left alone.                                   *)
GetUrl(url) == IF url = <<>> \/ StartsWith(url, Protocol \cup {"#{}"}) THEN url
               ELSE <<"http://">> \o url

(* Mutant: new URL(url) is not tried. *)
AnyUrl(url) == TRUE

(* getUrl: new URL(url) knows the protocol, which need not be HTTP's. *)
LegalUrl(url) == url = <<>> \/ StartsWith(url, Handled \cup {"#{}"})

(* getPath: a slash in front, and none, or one less, at the end. *)
GetPath(path) ==
  LET slashed == IF StartsWith(path, {"/"}) THEN path ELSE <<"/">> \o path
  IN  IF path = <<>> THEN path
      ELSE IF EndsWithSlash(slashed) THEN Front(slashed) ELSE slashed

Registers(d) == d.iface /\ LegalName(d.name) /\ LegalUrl(GetUrl(d.url))

(* registerBeanDefinitions, eagerlyRegisterFeignClientBeanDefinition: one  *)
(* client after the other, in the order of the scan; one that is wrong     *)
(* ends the start of the context.                                          *)
Register(c) ==
  /\ boot = "scan"
  /\ c \in left
  /\ IF Registers(decl[c])
     THEN /\ bean' = [bean EXCEPT ![c] = [url |-> GetUrl(decl[c].url),
                                          path |-> GetPath(decl[c].path)]]
          /\ left' = left \ {c}
          /\ boot' = IF left' = {} THEN "up" ELSE boot
     ELSE boot' = "failed" /\ UNCHANGED <<bean, left>>
  /\ UNCHANGED <<decl, proxy, call>>

-----------------------------------------------------------------------------
(* OpenFeignClientFactoryBean *)

(* A slash is put between two parts that have none there; two that both    *)
(* have one keep both.                                                     *)
Join(url, path) == IF path = <<>> THEN url
                   ELSE IF EndsWithSlash(url) \/ StartsWith(path, {"/"}) THEN url \o path
                   ELSE url \o <<"/">> \o path

(* getObject, the URL: it replaces the one in the factory bean, and has    *)
(* http:// before any other protocol.                                      *)
Built(b) == Join(IF StartsWith(b.url, Http) THEN b.url ELSE <<"http://">> \o b.url, b.path)

(* Mutant: isSingleton returns false, every injection calls getObject.     *)
InjectAnew(c) ==
  /\ boot = "up"
  /\ Len(bean[c].url) < 12
  /\ LET url == Built(bean[c])
     IN  /\ bean' = [bean EXCEPT ![c].url = url]
         /\ proxy' = [proxy EXCEPT ![c] = url]
  /\ UNCHANGED <<decl, left, boot, call>>

(* The container injects the client: getObject runs once, since            *)
(* isSingleton returns true; later the container has its product.          *)
Inject(c) ==
  /\ boot = "up"
  /\ LET url == IF proxy[c] = NoBean THEN Built(bean[c]) ELSE proxy[c]
     IN  /\ bean' = [bean EXCEPT ![c].url = url]
         /\ proxy' = [proxy EXCEPT ![c] = url]
  /\ UNCHANGED <<decl, left, boot, call>>

-----------------------------------------------------------------------------
(* OpenFeignClientProxy *)

(* getRequest: RequestMapping's own method, GET for GetMapping, and POST   *)
(* for the others, PutMapping and DeleteMapping too.                       *)
Verb(m) == IF m.kind \in {"RequestMapping GET", "GetMapping"} THEN "GET" ELSE "POST"

(* StrUtil.format: {msg} becomes the message; null is not put in. *)
Format(url, msg) ==
  IF msg = NullMessage THEN url
  ELSE FlattenSeq([i \in 1 .. Len(url) |-> IF url[i] = Variable THEN msg ELSE <<url[i]>>])

(* invoke, the URL: only a GET has its variables put into the path. *)
RequestUrl(c, m, msg) ==
  LET url == Join(proxy[c], m.path)
  IN  IF Verb(m) = "GET" /\ Contains(m.path, Variable) THEN Format(url, msg) ELSE url

(* A method without a mapping makes no request: invoke returns null. *)
Invoke(c, m, msg) ==
  /\ boot = "up"
  /\ proxy[c] # NoBean
  /\ call' = IF m.kind = "none" THEN call
             ELSE [client |-> c, method |-> m, msg |-> msg,
                   url |-> RequestUrl(c, m, msg), verb |-> Verb(m)]
  /\ UNCHANGED <<decl, left, boot, bean, proxy>>

FeignNext == \E c \in Client : \/ Register(c)
                               \/ Inject(c)
                               \/ \E m \in Method, msg \in Message : Invoke(c, m, msg)

FeignSpec == FeignInit /\ [][FeignNext]_feignVars

-----------------------------------------------------------------------------
(* The protocol of a client's URL when the JDK knows it and HTTP is        *)
(* another one.                                                            *)
Other(d) == {p \in Handled \ Http : StartsWith(d.url, {p})}

(* getUrl, getPath, getObject and invoke together: a request of a client   *)
(* with no such protocol goes to the words of the client's URL, its path   *)
(* and the method's path, in this order, with the message in its place and *)
(* a slash between them, however each part was written; and no segment is  *)
(* empty when the client's URL is given without a slash at its end.        *)
UrlWellFormed == call # NoCall /\ Other(decl[call.client]) = {} =>
  LET d == decl[call.client]
      words == Words(d.url) \o Words(d.path) \o Words(call.method.path)
  IN  /\ Words(call.url) = IF call.verb = "GET" THEN Words(Format(words, call.msg)) ELSE words
      /\ ~Runs(call.url)
      /\ d.url # <<>> /\ ~EndsWithSlash(d.url) => Slashed(call.url)

(* getUrl: a URL whose protocol the JDK does not know ends the start, so   *)
(* that a request begins with HTTP's, and has another one behind it only   *)
(* when the client's URL has it and the JDK knows it.                      *)
CallsAreHttp == call # NoCall =>
  /\ call.url[1] \in Http
  /\ \A i \in 2 .. Len(call.url) :
       call.url[i] \in Protocol => i = 2 /\ call.url[2] \in Other(decl[call.client])

=============================================================================
