--------------------------- MODULE EndpointConfig ---------------------------
(***************************************************************************)
(* try_parse_endpoint_config(): the loop over the arguments that follow    *)
(* those of EAL.  One step is one turn of the loop, which reads a flag and *)
(* the argument after it; the arguments are chosen as the loop reaches     *)
(* them, and none is read twice.  Any command line can be written.         *)
(*                                                                         *)
(* A text is abstracted to what the parser tells apart: a flag, any other  *)
(* text that begins with "--", a decimal number, an IPv4 address, seventeen *)
(* characters laid out as a MAC address, or another text.  Numbers beyond  *)
(* MaxSlots and MaxPort stand for those that overflow the type of the      *)
(* member they are parsed for; a negative octet for one that is not        *)
(* hexadecimal.                                                            *)
(***************************************************************************)
EXTENDS Integers, Sequences

CONSTANTS Numbers,   \* the numbers that may be written
          Addresses, \* the IPv4 addresses that may be written
          Macs,      \* the MAC addresses that may be written: 6 octets
          SlotBits,  \* width of the slot count: 32
          MaxPort,   \* the largest port: 65535
          MaxBatching \* bound on how often --batching is repeated

ASSUME ParserAssumption ==
  /\ Numbers \subseteq Nat /\ SlotBits \in Nat /\ MaxPort \in Nat /\ MaxBatching \in Nat
  /\ Macs \subseteq [1..6 -> Int] /\ \A m \in Macs, k \in 1..6 : m[k] <= 255

\* 2^k, for k up to the width of the slot count.
Power == LET power[k \in 0..SlotBits] == IF k = 0 THEN 1 ELSE 2 * power[k-1] IN power

MaxSlots == Power[SlotBits] - 1

Required == {"shm", "slots", "local-ip", "peer-ip", "data-port", "next-hop-mac"}
Flags == Required \cup {"batching"}

Text(is, value) == [is |-> is, value |-> value]
\* The end of the command line, where argv[i + 1] is not read.
LineEnd == Text("end", 0)

\* A flag is recognised in either case, but for the two dashes.
FlagTexts == {Text(is, f) : is \in {"flag", "FLAG"}, f \in Flags}
ValueTexts ==
  {Text("number", n) : n \in Numbers} \cup {Text("ip", a) : a \in Addresses}
    \cup {Text("mac", m) : m \in Macs} \cup {Text("other", 0), Text("dashed", 0)}
Texts == FlagTexts \cup ValueTexts

VARIABLES state,  \* "parsing", "accepted" or "refused"
          set,    \* the flags already set
          config, \* the members of the configuration
          given,  \* flag f: the arguments that followed it, in order
          odd     \* an argument that is no flag was met where one is expected

parserVars == <<state, set, config, given, odd>>

ParserInit ==
  /\ state = "parsing" /\ set = {} /\ odd = FALSE
  /\ config = [f \in Flags |-> IF f = "batching" THEN FALSE ELSE 0]
  /\ given = [f \in Flags |-> <<>>]

Matches(t, f) == t \in {Text("flag", f), Text("FLAG", f)}

\* The argument after a flag, if there is one that does not begin with "--".
next(t) == IF t.is \in {"end", "dashed", "flag", "FLAG"} THEN {} ELSE {t}

\* The number a text holds, if it is one that fits.
parseNumFromString(t, max) ==
  IF t.is = "number" /\ t.value <= max THEN {t.value} ELSE {}

\* Bit k of a number, and whether x & y is not zero.
Bit(x, k) == (x \div Power[k]) % 2
ShareBit(x, y) == \E k \in 0..SlotBits-1 : Bit(x, k) = 1 /\ Bit(y, k) = 1

Slots(t) == {n \in parseNumFromString(t, MaxSlots) : ~(n = 0 \/ ShareBit(n - 1, n))}

Port(t) == {n \in parseNumFromString(t, MaxPort) : n # 0}

Ip(t) == IF t.is = "ip" THEN {t.value} ELSE {}

Mac(t) ==
  {m \in IF t.is = "mac" THEN {t.value} ELSE {} :
     /\ \A k \in 1..6 : m[k] >= 0
     /\ \E k \in 1..6 : m[k] # 0
     /\ m[1] % 2 # 1}

\* What the handler of flag f reads in text t: a set of one value, or the
\* empty set when it refuses it.
Reading(f, t) ==
  CASE f = "shm" -> {t}
    [] f = "slots" -> Slots(t)
    [] f \in {"local-ip", "peer-ip"} -> Ip(t)
    [] f = "data-port" -> Port(t)
    [] f = "next-hop-mac" -> Mac(t)

Refuse == state' = "refused" /\ UNCHANGED <<set, config>>

\* The handler of a flag with a value: refused when the flag is already set,
\* when there is no value, or when the value is not one for it.
Assign(f, t) ==
  LET read == UNION {Reading(f, v) : v \in next(t)} IN
    IF f \in set \/ read = {} THEN Refuse
    ELSE /\ \E x \in read : config' = [config EXCEPT ![f] = x]
         /\ set' = set \cup {f} /\ UNCHANGED state

\* A turn of the loop at a required flag, followed by text t.
Flag ==
  /\ state = "parsing"
  /\ \E arg \in FlagTexts, f \in Required, t \in Texts \cup {LineEnd} :
       /\ Matches(arg, f)
       /\ Assign(f, t)
       /\ given' = [given EXCEPT ![f] = Append(@, t)]
       /\ UNCHANGED odd

\* A turn at --batching, which may be repeated.
Batching ==
  /\ state = "parsing" /\ Len(given["batching"]) < MaxBatching
  /\ \E arg \in FlagTexts : Matches(arg, "batching")
  /\ config' = [config EXCEPT !["batching"] = TRUE]
  /\ given' = [given EXCEPT !["batching"] = Append(@, LineEnd)]
  /\ UNCHANGED <<state, set, odd>>

\* A turn at any other text: a value too many, or an unknown flag.
Unknown ==
  /\ state = "parsing"
  /\ \E arg \in Texts :
       /\ \A f \in Flags : ~Matches(arg, f)
       /\ odd' = (arg \notin FlagTexts)
  /\ Refuse /\ UNCHANGED given

\* Mutant of Done: the last check forgets the peer's address.
DoneUnchecked ==
  /\ state = "parsing"
  /\ state' = IF Required \ set \subseteq {"peer-ip"} THEN "accepted" ELSE "refused"
  /\ UNCHANGED <<set, config, given, odd>>

\* The end of the loop: every flag but --batching must have been set.
Done ==
  /\ state = "parsing"
  /\ state' = IF Required \subseteq set THEN "accepted" ELSE "refused"
  /\ UNCHANGED <<set, config, given, odd>>

ParserNext == Flag \/ Batching \/ Unknown \/ Done

ParserSpec == ParserInit /\ [][ParserNext]_parserVars

(***************************************************************************)
(* Properties                                                              *)
(***************************************************************************)

\* What the usage text promises of a value, without the parser's way of
\* finding it out.
PowerOfTwo(t) == t.is = "number" /\ \E k \in 0..SlotBits-1 : t.value = Power[k]

UnicastMac(t) ==
  /\ t.is = "mac"
  /\ t.value \in [1..6 -> 0..255] /\ t.value[1] % 2 = 0
  /\ t.value # [k \in 1..6 |-> 0]

Valid(f, t) ==
  CASE f = "shm" -> t \in ValueTexts \ {Text("dashed", 0)}
    [] f = "slots" -> PowerOfTwo(t)
    [] f \in {"local-ip", "peer-ip"} -> t.is = "ip"
    [] f = "data-port" -> t.is = "number" /\ t.value \in 1..MaxPort
    [] f = "next-hop-mac" -> UnicastMac(t)

\* A command line is sound when it holds nothing but flags, every required one
\* once, each with a valid value.
Sound ==
  /\ ~odd
  /\ \A f \in Required : Len(given[f]) = 1 /\ Valid(f, given[f][1])

\* A configuration is returned for exactly the sound command lines: whatever the
\* order and case of the flags, every member then holds the value of its own flag,
\* and no configuration the program can run with is refused.
AcceptsExactlySound ==
  /\ state = "accepted" =>
       /\ Sound
       /\ config["shm"] = given["shm"][1]
       /\ \A f \in Required \ {"shm"} : config[f] = given[f][1].value
       /\ config["batching"] = (given["batching"] # <<>>)
  /\ state = "refused" => ~Sound
=============================================================================
