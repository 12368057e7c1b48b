----------------------------- MODULE X509Syntax -----------------------------
(***************************************************************************)
(* The name validators and parsers of x509_constraints.c: the domain       *)
(* grammar loop (x509_constraints_valid_domain_internal) and its four      *)
(* wrappers, the RFC 2821 mailbox parser and the URI host extractor.  Each *)
(* C loop over the bytes is a recursive function over the positions whose  *)
(* k-th value is the loop state after byte k, with the loop body as a      *)
(* step operator.  The libc inet_pton, which valid_host calls on a C       *)
(* string, is modelled in the same way from its published algorithm.       *)
(***************************************************************************)
EXTENDS X509Match

CONSTANTS
  DOMAIN_PART_MAX_LEN,  \* 255 in the code
  LOCAL_PART_MAX_LEN,   \* 64 in the code
  LABEL_MAX_LEN         \* the literal 63 of valid_domain_internal

ASSUME LengthAssumption ==
  /\ DOMAIN_PART_MAX_LEN \in Nat \ {0}
  /\ LOCAL_PART_MAX_LEN \in Nat \ {0}
  /\ LABEL_MAX_LEN \in Nat \ {0}

\* Bytes that are not printable characters, each as one symbol.
NUL == "NUL"
CR == "CR"
LF == "LF"
TAB == "TAB"
NONASCII == "NONASCII"   \* any byte >= 0x80
DQUOTE == "\""
BSLASH == "\\"
BACKTICK == "BACKTICK"   \* the grave accent, allowed in a local part

IsAscii(c) == c # NONASCII
Digits == {"0","1","2","3","4","5","6","7","8","9"}
HexDigits == Digits \cup {"a","b","c","d","e","f","A","B","C","D","E","F"}
Alnum == {UpperLetters[k] : k \in 1..26} \cup {LowerLetters[k] : k \in 1..26} \cup Digits
DigitValue(c) == CHOOSE v \in 0..9 : <<"0","1","2","3","4","5","6","7","8","9">>[v + 1] = c

\* What strlen sees: the bytes before the first NUL.
CString(s) ==
  IF \E k \in 1..Len(s) : s[k] = NUL
  THEN SubSeq(s, 1, (CHOOSE k \in 1..Len(s) : s[k] = NUL /\ \A j \in 1..k - 1 : s[j] # NUL) - 1)
  ELSE s

(***************************************************************************)
(* x509_constraints_valid_domain_internal.  The loop keeps the previous    *)
(* byte and the length of the current label.                              *)
(***************************************************************************)
DomainStep(p, c, first, last) ==
  IF ~p.ok THEN p
  ELSE IF \/ ~IsAscii(c) \/ c = NUL
          \/ c \notin Alnum \cup {"-", ".", "_", "*"}
          \/ c = "*" /\ ~first
          \/ c = "-" /\ (p.component = 0 \/ last)
          \/ c = "." /\ ((p.component = 0 /\ ~first) \/ last)
          \/ c = "." /\ p.c = "-"
       THEN [p EXCEPT !.ok = FALSE]
  ELSE IF c = "." THEN [ok |-> TRUE, c |-> c, component |-> 0]
  ELSE IF p.component + 1 > LABEL_MAX_LEN THEN [p EXCEPT !.ok = FALSE]
  ELSE [ok |-> TRUE, c |-> c, component |-> p.component + 1]

ValidDomainInternal(name) ==
  LET n == Len(name)
      st[k \in 0..n] ==
        IF k = 0 THEN [ok |-> TRUE, c |-> NUL, component |-> 0]
        ELSE DomainStep(st[k - 1], name[k], k = 1, k = n)
  IN n <= DOMAIN_PART_MAX_LEN /\ st[n].ok

(***************************************************************************)
(* inet_pton(AF_INET, ...) and inet_pton(AF_INET6, ...) of libc, over the  *)
(* C string they are given.                                                *)
(***************************************************************************)
Pton4Step(p, c) ==
  IF ~p.ok THEN p
  ELSE IF c \in Digits
       THEN IF p.cur * 10 + DigitValue(c) > 255 \/ (~p.saw /\ p.octets = 4)
            THEN [p EXCEPT !.ok = FALSE]
            ELSE [p EXCEPT !.cur = p.cur * 10 + DigitValue(c), !.saw = TRUE,
                           !.octets = IF p.saw THEN p.octets ELSE p.octets + 1]
  ELSE IF c = "." /\ p.saw /\ p.octets # 4
       THEN [p EXCEPT !.cur = 0, !.saw = FALSE]
  ELSE [p EXCEPT !.ok = FALSE]

InetPton4(s) ==
  LET st[k \in 0..Len(s)] ==
        IF k = 0 THEN [ok |-> TRUE, saw |-> FALSE, octets |-> 0, cur |-> 0]
        ELSE Pton4Step(st[k - 1], s[k])
  IN st[Len(s)].ok /\ st[Len(s)].octets = 4

Pton6Step(p, s, j) ==
  LET c == s[j] IN
  IF p.st # "run" THEN p
  ELSE IF c \in HexDigits
       THEN IF p.cnt >= 4 THEN [p EXCEPT !.st = "fail"]
            ELSE [p EXCEPT !.saw = TRUE, !.cnt = p.cnt + 1]
  ELSE IF c = ":"
       THEN IF ~p.saw
            THEN IF p.colonp THEN [p EXCEPT !.st = "fail"]
                 ELSE [p EXCEPT !.colonp = TRUE, !.curtok = j + 1]
            ELSE IF j = Len(s) \/ p.groups + 1 > 8 THEN [p EXCEPT !.st = "fail"]
            ELSE [p EXCEPT !.groups = p.groups + 1, !.saw = FALSE, !.cnt = 0,
                           !.curtok = j + 1]
  ELSE IF c = "." /\ p.groups + 2 <= 8 /\ InetPton4(SubSeq(s, p.curtok, Len(s)))
       THEN [p EXCEPT !.st = "v4", !.groups = p.groups + 2, !.saw = FALSE]
  ELSE [p EXCEPT !.st = "fail"]

InetPton6(s) ==
  LET start == IF Len(s) > 0 /\ s[1] = ":" THEN 2 ELSE 1
      st[k \in 0..Len(s)] ==
        IF k = 0 THEN [st |-> "run", saw |-> FALSE, cnt |-> 0, groups |-> 0,
                       colonp |-> FALSE, curtok |-> start]
        ELSE IF k < start THEN st[k - 1]
        ELSE Pton6Step(st[k - 1], s, k)
      r == st[Len(s)]
      groups == IF r.saw THEN r.groups + 1 ELSE r.groups
  IN /\ ~(Len(s) > 0 /\ s[1] = ":" /\ (Len(s) = 1 \/ s[2] # ":"))
     /\ r.st # "fail"
     /\ groups <= 8
     /\ IF r.colonp THEN groups < 8 ELSE groups = 8

(***************************************************************************)
(* The wrappers.  valid_host hands its buffer to inet_pton as a C string,  *)
(* so it reads up to the next NUL, which is cstr, not only the len bytes   *)
(* of name.                                                                *)
(***************************************************************************)
ValidDomain(name) ==
  /\ Len(name) > 0
  /\ name[1] # "*"
  /\ ~(Len(name) < 3 /\ name[1] = ".")
  /\ ValidDomainInternal(name)

ValidHost(name, cstr) ==
  /\ Len(name) > 0
  /\ name[1] \notin {"*", "."}
  /\ ~InetPton4(cstr)
  /\ ~InetPton6(cstr)
  /\ ValidDomainInternal(name)

ValidSandns(name) ==
  /\ Len(name) > 0
  /\ name[1] # "."
  /\ ~(Len(name) < 4 /\ name[1] = "*")
  /\ ~(Len(name) >= 4 /\ name[1] = "*" /\ name[2] # ".")
  /\ ValidDomainInternal(name)

ValidDomainConstraint(c) ==
  \/ Len(c) = 0
  \/ /\ c[1] # "*"
     /\ ~(Len(c) < 3 /\ c[1] = ".")
     /\ ValidDomainInternal(c)

LocalPartOk(c) ==
  c \in Alnum \cup {"!","#","$","%","&","'","*","+","-","/","=","?","^",
                    "_",BACKTICK,"{","|","}","~","."}

(***************************************************************************)
(* x509_constraints_parse_mailbox.  working is the buffer (wi its length), *)
(* local and domain the strdup'ed parts (<<>> while NULL).  When the       *)
(* domain part fills all DOMAIN_PART_MAX_LEN + 1 bytes of working, no NUL  *)
(* is left for strdup to stop at: overread records that read past the      *)
(* array.                                                                  *)
(***************************************************************************)
MailboxStep(p, s, k) ==
  LET c == s[k]
      wi == Len(p.working)
      q == p.quoted \/ (k = 1 /\ c = DQUOTE)
      bad == [p EXCEPT !.st = "bad"]
      put == p.working \o <<c>>
  IN
  IF p.st # "run" THEN p
  ELSE IF ~IsAscii(c) \/ c \in {CR, LF, NUL} THEN bad
  ELSE IF k = 1 /\ c = "." THEN bad
  ELSE IF wi > DOMAIN_PART_MAX_LEN THEN bad
  ELSE IF p.accept THEN [p EXCEPT !.quoted = q, !.working = put, !.accept = FALSE]
  ELSE IF p.local # <<>>
       THEN [p EXCEPT !.quoted = q, !.working = put,
                      !.domain = IF k = Len(s) THEN put ELSE p.domain,
                      !.overread = k = Len(s) /\ wi + 1 > DOMAIN_PART_MAX_LEN]
  ELSE IF wi > LOCAL_PART_MAX_LEN THEN [p EXCEPT !.st = "break"]
  ELSE IF q
       THEN IF c = BSLASH THEN [p EXCEPT !.quoted = q, !.accept = TRUE]
            ELSE IF c = DQUOTE /\ k # 1 /\ (k = Len(s) \/ s[k + 1] # "@") THEN bad
            ELSE IF c = TAB THEN bad
            ELSE [p EXCEPT !.quoted = ~(c = DQUOTE /\ k # 1), !.working = put]
  ELSE IF c = "@"
       THEN IF wi = 0 THEN bad ELSE [p EXCEPT !.local = p.working, !.working = <<>>]
  ELSE IF c = BSLASH /\ (k = Len(s) \/ ~LocalPartOk(s[k + 1])) THEN bad
  ELSE IF ~LocalPartOk(c) THEN bad
  ELSE [p EXCEPT !.working = put, !.accept = c = BSLASH]

ParseMailbox(s) ==
  LET st[k \in 0..Len(s)] ==
        IF k = 0 THEN [st |-> "run", accept |-> FALSE, quoted |-> FALSE,
                       local |-> <<>>, domain |-> <<>>, working |-> <<>>,
                       overread |-> FALSE]
        ELSE MailboxStep(st[k - 1], s, k)
      r == st[Len(s)]
      fits == Len(s) <= LOCAL_PART_MAX_LEN + DOMAIN_PART_MAX_LEN + 1
  IN [ok |-> /\ fits /\ r.st = "run"
             /\ r.local # <<>> /\ r.domain # <<>>
             /\ ValidHost(r.domain, r.domain),
      local |-> r.local, domain |-> r.domain, overread |-> fits /\ r.overread]

(***************************************************************************)
(* x509_constraints_uri_host: the authority starts after the first "//";   *)
(* the host starts there or after one '@' and ends at the end or at one of *)
(* ':', '/', '?', '#'.  A second '@' ends the scan with an empty host.     *)
(***************************************************************************)
UriHostStep(p, c, j) ==
  IF p.st # "run" THEN p
  ELSE IF ~IsAscii(c) THEN [p EXCEPT !.st = "fail"]
  ELSE IF c = "@"
       THEN IF p.host # 0 THEN [p EXCEPT !.st = "stop", !.hostlen = 0]
            ELSE [p EXCEPT !.host = j + 1, !.hostlen = 0]
  ELSE IF c \in {":", "/", "?", "#"} THEN [p EXCEPT !.st = "stop"]
  ELSE [p EXCEPT !.hostlen = p.hostlen + 1]

UriHost(uri) ==
  LET n == Len(uri)
      slashes == {k \in 1..n - 1 : uri[k] = "/" /\ uri[k + 1] = "/"}
      a == (CHOOSE k \in slashes : \A j \in slashes : k <= j) + 2
      st[m \in 0..n - a + 1] ==
        IF m = 0 THEN [st |-> "run", host |-> 0, hostlen |-> 0]
        ELSE UriHostStep(st[m - 1], uri[a + m - 1], a + m - 1)
      r == st[n - a + 1]
      h == IF r.host = 0 THEN a ELSE r.host
  IN IF n < 3 \/ slashes = {} \/ \E j \in 1..a - 2 : ~IsAscii(uri[j])
     THEN [ok |-> FALSE, host |-> <<>>]
     ELSE [ok |-> /\ r.st # "fail" /\ r.hostlen > 0
                  /\ ValidHost(SubSeq(uri, h, h + r.hostlen - 1), SubSeq(uri, h, n)),
           host |-> SubSeq(uri, h, h + r.hostlen - 1)]
=============================================================================
