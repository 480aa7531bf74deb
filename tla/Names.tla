-------------------------------- MODULE Names --------------------------------
(***************************************************************************)
(* Device names (name.rs), how a driver's are built, and the devices that  *)
(* a client's query or subscription is about, with either backend.  A name *)
(* is a sequence of characters, which all take one byte: letters, digits,  *)
(* dashes, colons and others.                                              *)
(***************************************************************************)
EXTENDS Glob

CONSTANTS
  Alphanumeric,   \* characters of names, apart from "-" and ":"
  Bad             \* no name

\* Segment::is_valid_char
IsValidChar(idx, ch, len) == ch \in Alphanumeric \/ (ch = "-" /\ idx # 1 /\ idx # len)

\* Segment::create accepts s.
IsSegment(s) == s # <<>> /\ \A i \in DOMAIN s : IsValidChar(i, s[i], Len(s))

\* split(':'): what lies between the colons.
Split(s) ==
  LET split[k \in 0..Len(s)] ==   \* of the first k characters
        IF k = 0 THEN <<<<>>>>
        ELSE LET before == split[k - 1]
             IN  IF s[k] = ":" THEN Append(before, <<>>)
                 ELSE [before EXCEPT ![Len(before)] = Append(@, s[k])]
  IN  split[Len(s)]

\* Path::create
CreatePath(s) ==
  LET segments == Split(s)
  IN  IF \A i \in DOMAIN segments : IsSegment(segments[i]) THEN segments ELSE Bad

\* Name::create: a path and a base.
Create(s) ==
  LET segments == CreatePath(s)
      n == Len(segments)
  IN  IF segments = Bad \/ n < 2 THEN Bad
      ELSE [path |-> SubSeq(segments, 1, n - 1), base |-> segments[n]]

\* build_final_name: the prefix of the driver's section, the subpath of a group of
\* its devices (or <<>>), and the device's own name.
BuildFinalName(prefix, subpath, base) ==
  IF IsSegment(base) THEN [path |-> prefix \o subpath, base |-> base] ELSE Bad

\* Display of a Name.
Joined(segments) ==
  LET joined[k \in 1..Len(segments)] ==   \* the first k
        IF k = 1 THEN segments[1] ELSE joined[k - 1] \o <<":">> \o segments[k]
  IN  joined[Len(segments)]
Display(name) == Joined(Append(name.path, name.base))

\* The simple backend's get_device_info: a pattern that is a name selects that
\* device.
Selects(pattern, name) ==
  IF Create(pattern) # Bad THEN name = Create(pattern) ELSE Matches(pattern, Display(name))

\* Redis' KEYS of the pattern with "#info", of a key that is a name with "#info".
Key(s) == Append(s, "#")
RedisSelects(pattern, name) == Globs(Key(pattern), Key(Display(name)))

\* device_info of GraphQL, of the devices that a backend selects, which say if
\* they are settable.
DeviceInfo(selected, settable, devices) == {s \in selected : settable \in {Bad, devices[s]}}

\* monitor_device of GraphQL finds a device.
MonitorFinds(device, devices) == Create(device) # Bad /\ \E s \in devices : Create(s) = Create(device)

-----------------------------------------------------------------------------
(* Properties of every call. *)

\* The grammar of name.rs: segments start and end with an alphanumeric character,
\* and there are at least two.
WellFormed(s) ==
  LET Ends(i) == i \in DOMAIN s /\ s[i] \in Alphanumeric
  IN  /\ \E i \in DOMAIN s : s[i] = ":"
      /\ \A i \in DOMAIN s : s[i] \in Alphanumeric \union {"-", ":"}
      /\ \A i \in DOMAIN s : s[i] = ":" => Ends(i - 1) /\ Ends(i + 1)
      /\ Ends(1) /\ Ends(Len(s))

\* Exactly the well-formed strings are names, and a name is shown as it was
\* written.  A query for a name is about that device alone, with either backend,
\* if it exists, and so is a subscription; one for another pattern never misses
\* a device with the simple backend that it shows with redis; and each device
\* it shows is either settable or not.
SelectsDevices(pattern, devices) ==
  LET selected == {s \in DOMAIN devices : Selects(pattern, Create(s))}
      Shown(settable) == DeviceInfo(selected, settable, devices)
      Stored == {s \in DOMAIN devices : RedisSelects(pattern, Create(s))}
  IN  /\ Create(pattern) # Bad <=> WellFormed(pattern)
      /\ WellFormed(pattern) =>
           /\ Display(Create(pattern)) = pattern
           /\ Shown(Bad) = {pattern} \intersect DOMAIN devices
           /\ Stored = Shown(Bad)
      /\ MonitorFinds(pattern, DOMAIN devices) <=> pattern \in DOMAIN devices
      /\ Stored \subseteq Shown(Bad)
      /\ Shown(Bad) = Shown(TRUE) \union Shown(FALSE)

\* A client reaches every device that a driver registers by the name shown for
\* it, and two devices of a driver have the same name only if the groups and
\* the names in them are the same.
NamesAreDistinct(prefix, devices) ==
  LET Name(d) == BuildFinalName(prefix, IF d.group = <<>> THEN <<>> ELSE CreatePath(d.group), d.base)
      registered == {d \in devices : Name(d) # Bad}
  IN  \A d \in registered :
        /\ Create(Display(Name(d))) = Name(d)
        /\ \A e \in registered : Display(Name(e)) = Display(Name(d)) => d = e
=============================================================================
