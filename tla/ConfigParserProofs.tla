-------------------------- MODULE ConfigParserProofs --------------------------
(***************************************************************************)
(* Proofs about ConfigParser, for all files of any length: what the        *)
(* parsers keep has its type and stays within the arrays, nobody is        *)
(* allowed whom the file does not name, and what a file means to whom.     *)
(***************************************************************************)
EXTENDS ConfigParser, TLAPS

-----------------------------------------------------------------------------
(* Strings.                                                                *)

LEMMA PlainText == \A w \in Words : Plain(w) \in Texts
BY DEF Plain, Texts

LEMMA EmptyText == Empty \in Texts
BY DEF Empty, Texts

LEMMA ValueText == \A l \in Line : Value(l) \in Texts /\ Kept(l) \in Texts
BY DEF Value, Kept, Texts, Line

LEMMA AtoiInt == \A t \in Texts : atoi(t) \in Int
BY ConfigAssumption DEF atoi, Texts

(* A field holds a string, and a plain one is the word it was cut from.    *)
LEMMA StrncpyText ==
  ASSUME NEW t \in Texts, NEW cut \in [Words -> Words]
  PROVE  /\ strncpy(t, cut) \in Texts
         /\ \A n \in Words : strncpy(t, cut) = Plain(n) =>
              t.words # <<>> /\ n = cut[t.words[1]]
<1>1. CASE t.words # <<>> /\ cut[t.words[1]] # t.words[1]
  <2>1. t.words[1] \in Words /\ cut[t.words[1]] \in Words
    BY <1>1 DEF Texts
  <2>2. strncpy(t, cut) = [t EXCEPT !.words = <<cut[t.words[1]]>>, !.note = FALSE]
    BY <1>1 DEF strncpy
  <2>3. strncpy(t, cut) \in Texts /\ strncpy(t, cut).words = <<cut[t.words[1]]>>
    <3>1. <<cut[t.words[1]]>> \in Seq(Words)
      BY <2>1
    <3>2. strncpy(t, cut) = [blank |-> t.blank, words |-> <<cut[t.words[1]]>>, note |-> FALSE]
      BY <2>2 DEF Texts
    <3>3. t.blank \in BOOLEAN
      BY DEF Texts
    <3>4. QED
      BY <3>1, <3>2, <3>3 DEF Texts
  <2>4. QED
    BY <1>1, <2>1, <2>3 DEF Plain
<1>2. CASE ~(t.words # <<>> /\ cut[t.words[1]] # t.words[1])
  <2>1. strncpy(t, cut) = t
    BY <1>2 DEF strncpy
  <2>2. ASSUME NEW n \in Words, t = Plain(n)
        PROVE  t.words # <<>> /\ n = cut[t.words[1]]
    <3>1. t.words = <<n>>
      BY <2>2 DEF Plain
    <3>2. QED
      BY <3>1, <1>2
  <2>3. QED
    BY <2>1, <2>2
<1>3. QED
  BY <1>1, <1>2

(* Every piece of a list is a string, and a plain one is a word of the     *)
(* list, cut.                                                              *)
LEMMA ItemsTexts ==
  ASSUME NEW t \in Texts
  PROVE  /\ Items(t) \in Seq(Texts)
         /\ \A i \in 1 .. Len(Items(t)), n \in Words : Items(t)[i] = Plain(n) =>
              i \in 1 .. Len(t.words) /\ n = Cut32[t.words[i]]
<1>1. CASE t.words = <<>>
  <2>1. Items(t) = <<t>>
    BY <1>1 DEF Items
  <2>2. \A n \in Words : t # Plain(n)
    BY <1>1 DEF Plain
  <2>3. QED
    BY <2>1, <2>2
<1>2. CASE t.words # <<>>
  <2> DEFINE piece(i) == [blank |-> FALSE, words |-> <<t.words[i]>>,
                          note |-> t.note /\ i = Len(t.words)]
  <2>1. t.words \in Seq(Words)
    BY DEF Texts
  <2>2. Items(t) = [i \in 1 .. Len(t.words) |-> strncpy(piece(i), Cut32)]
    BY <1>2 DEF Items
  <2>3. ASSUME NEW i \in 1 .. Len(t.words)
        PROVE  /\ strncpy(piece(i), Cut32) \in Texts
               /\ \A n \in Words : strncpy(piece(i), Cut32) = Plain(n) => n = Cut32[t.words[i]]
    <3>1. t.words[i] \in Words
      BY <2>1
    <3>2. piece(i) \in Texts /\ piece(i).words[1] = t.words[i]
      <4>1. (t.note /\ i = Len(t.words)) \in BOOLEAN
        OBVIOUS
      <4>2. QED
        BY <3>1, <4>1 DEF Texts
    <3>3. QED
      BY <3>2, StrncpyText, ConfigAssumption
  <2> HIDE DEF piece
  <2>4. Len(t.words) \in Nat
    BY <2>1
  <2>5. Items(t) \in Seq(Texts) /\ Len(Items(t)) = Len(t.words)
    BY <2>2, <2>3, <2>4
  <2>6. QED
    BY <2>2, <2>3, <2>5
<1>3. QED
  BY <1>1, <1>2

(* The array of users takes strings up to its length; whoever is in it was *)
(* there before or is one of the new ones.                                 *)
LEMMA AddUsersConfig ==
  ASSUME NEW c \in Configs, NEW items \in Seq(Texts)
  PROVE  /\ AddUsers(c, items) \in Configs
         /\ Len(AddUsers(c, items).users) <= MaxUsers
         /\ AddUsers(c, items).user = c.user
         /\ \A t \in Range(AddUsers(c, items).users) :
              t \in Range(c.users) \/ \E i \in 1 .. Len(items) : t = items[i]
<1> DEFINE n == Len(c.users) + Len(items)
           k == IF n < MaxUsers THEN n ELSE MaxUsers
           us == [i \in 1 .. k |-> IF i <= Len(c.users) THEN c.users[i]
                                   ELSE items[i - Len(c.users)]]
<1>1. c.users \in Seq(Texts) /\ Len(c.users) \in Nat /\ Len(items) \in Nat
  BY DEF Configs
<1>2. MaxUsers \in Nat
  BY ConfigAssumption
<1>3. n \in Nat /\ k \in Nat /\ k <= n /\ k <= MaxUsers
  BY <1>1, <1>2
<1>4. AddUsers(c, items) = [c EXCEPT !.users = us]
  BY DEF AddUsers
<1>5. \A i \in 1 .. k : \/ i \in 1 .. Len(c.users) /\ us[i] = c.users[i]
                        \/ /\ i - Len(c.users) \in 1 .. Len(items)
                           /\ us[i] = items[i - Len(c.users)]
  BY <1>1, <1>3
<1>6. us \in Seq(Texts) /\ Len(us) = k
  <2>1. ASSUME NEW i \in 1 .. k PROVE us[i] \in Texts
    <3>1. CASE i \in 1 .. Len(c.users) /\ us[i] = c.users[i]
      BY <1>1, <3>1
    <3>2. CASE i - Len(c.users) \in 1 .. Len(items) /\ us[i] = items[i - Len(c.users)]
      BY <3>2
    <3>3. QED
      BY <1>5, <3>1, <3>2
  <2>2. us \in [1 .. k -> Texts]
    <3>1. us = [i \in 1 .. k |-> us[i]]
      OBVIOUS
    <3> HIDE DEF us
    <3>2. QED
      BY <2>1, <3>1
  <2> HIDE DEF us, k
  <2>3. QED
    BY <2>2, <1>3
<1>7. AddUsers(c, items) \in Configs /\ AddUsers(c, items).users = us
      /\ AddUsers(c, items).user = c.user
  BY <1>4, <1>6 DEF Configs
<1>8. ASSUME NEW t \in Range(us)
      PROVE  t \in Range(c.users) \/ \E i \in 1 .. Len(items) : t = items[i]
  <2>1. PICK i \in 1 .. k : t = us[i]
    BY DEF Range
  <2>2. CASE i \in 1 .. Len(c.users) /\ us[i] = c.users[i]
    <3>1. DOMAIN c.users = 1 .. Len(c.users)
      BY <1>1
    <3>2. QED
      BY <2>1, <2>2, <3>1 DEF Range
  <2>3. QED
    BY <1>5, <2>1, <2>2
<1> HIDE DEF us
<1>9. QED
  BY <1>3, <1>6, <1>7, <1>8

-----------------------------------------------------------------------------
(* One line, read by each parser: the types, and who is allowed after it.  *)

LEMMA StringsAreWords == Keys \subseteq Words
BY ConfigAssumption

LEMMA CutText ==
  ASSUME NEW t \in Texts
  PROVE  strncpy(t, Cut16) \in Texts /\ strncpy(t, Cut32) \in Texts
BY StrncpyText, ConfigAssumption

LEMMA config_parserLine ==
  ASSUME NEW c \in Configs, NEW l \in Line
  PROVE  /\ config_parser(c, l) \in Configs
         /\ config_parser(c, l).users = c.users
         /\ config_parser(c, l).end = c.end
         /\ \A n \in Words, p \in {"config_parser", "config_parser1"} :
              config_parser(c, l).user = Plain(n) =>
                \/ NamedBy(p, l, n)
                \/ /\ c.user = Plain(n)
                   /\ l.hash \/ l.key # "user" \/ ~HasValue(l)
<1> DEFINE v == strncpy(Value(l), Cut32)
<1>1. Value(l) \in Texts /\ v \in Texts /\ atoi(Value(l)) \in Int
  BY ValueText, CutText, AtoiInt
<1>2. CASE l.hash \/ ~HasValue(l)
  BY <1>2 DEF config_parser
<1>3. CASE ~l.hash /\ HasValue(l) /\ l.key = "user"
  <2>1. config_parser(c, l) = [c EXCEPT !.user = v]
    BY <1>3 DEF config_parser
  <2>2. config_parser(c, l) \in Configs /\ config_parser(c, l).users = c.users
        /\ config_parser(c, l).user = v /\ config_parser(c, l).end = c.end
    BY <1>1, <2>1 DEF Configs
  <2>3. ASSUME NEW n \in Words, NEW p \in {"config_parser", "config_parser1"}, v = Plain(n)
        PROVE  NamedBy(p, l, n)
    <3>1. Value(l).words # <<>> /\ n = Cut32[Value(l).words[1]]
      BY <1>1, <2>3, StrncpyText, ConfigAssumption
    <3>2. l.vals # <<>> /\ n = Cut32[l.vals[1]] /\ l.vals \in Seq(Words)
      BY <3>1 DEF Value, Line
    <3>3. 1 \in 1 .. Len(l.vals)
      BY <3>2
    <3>4. QED
      BY <1>3, <3>2, <3>3 DEF NamedBy, FilesOfNames
  <2>4. QED
    BY <2>2, <2>3
<1>4. CASE ~l.hash /\ HasValue(l) /\ l.key # "user"
  <2>1. \/ config_parser(c, l) = c
        \/ config_parser(c, l) = [c EXCEPT !.port = atoi(Value(l))]
        \/ config_parser(c, l) = [c EXCEPT !.type = v]
    BY <1>4 DEF config_parser
  <2>2. config_parser(c, l) \in Configs /\ config_parser(c, l).users = c.users
        /\ config_parser(c, l).user = c.user /\ config_parser(c, l).end = c.end
    BY <1>1, <2>1 DEF Configs
  <2>3. QED
    BY <1>4, <2>2
<1>5. QED
  BY <1>2, <1>3, <1>4

(* The pieces of a line's value are the names its users go by.             *)
LEMMA ItemsNamed ==
  ASSUME NEW l \in Line, ~l.hash, l.key \in {"user", "users"},
         NEW p \in Arrays, NEW n \in Words,
         NEW i \in 1 .. Len(Items(Value(l))), Items(Value(l))[i] = Plain(n)
  PROVE  NamedBy(p, l, n)
<1>1. i \in 1 .. Len(Value(l).words) /\ n = Cut32[Value(l).words[i]]
  BY ValueText, ItemsTexts
<1>2. i \in 1 .. Len(l.vals) /\ n = Cut32[l.vals[i]]
  BY <1>1 DEF Value
<1>3. QED
  BY <1>2 DEF NamedBy, FilesOfNames, Arrays

LEMMA config_parser1Line ==
  ASSUME NEW c \in Configs, NEW l \in Line, Len(c.users) <= MaxUsers
  PROVE  /\ config_parser1(c, l) \in Configs
         /\ Len(config_parser1(c, l).users) <= MaxUsers
         /\ \A n \in Words :
              /\ config_parser1(c, l).user = Plain(n) =>
                   c.user = Plain(n) \/ NamedBy("config_parser1", l, n)
              /\ Plain(n) \in Range(config_parser1(c, l).users) =>
                   Plain(n) \in Range(c.users) \/ NamedBy("config_parser1", l, n)
<1>1. CASE CommaLoopSpins(l)
  <2>1. config_parser1(c, l) = [c EXCEPT !.end = "hang"]
    BY <1>1 DEF config_parser1
  <2>2. "hang" \in Ends
    BY DEF Ends
  <2>3. QED
    BY <2>1, <2>2 DEF Configs
<1>2. CASE ~CommaLoopSpins(l) /\ ~l.hash /\ l.key = "users" /\ HasValue(l)
  <2> DEFINE items == Items(Value(l))
  <2>1. config_parser1(c, l) = AddUsers(c, items)
    BY <1>2 DEF config_parser1
  <2>2. items \in Seq(Texts)
    BY ValueText, ItemsTexts
  <2>3. \A n \in Words, i \in 1 .. Len(items) :
          items[i] = Plain(n) => NamedBy("config_parser1", l, n)
    BY <1>2, ItemsNamed DEF Arrays
  <2> HIDE DEF items
  <2>4. QED
    BY <2>1, <2>2, <2>3, AddUsersConfig
<1>3. CASE ~CommaLoopSpins(l) /\ ~(~l.hash /\ l.key = "users" /\ HasValue(l))
  <2>1. config_parser1(c, l) = config_parser(c, l)
    BY <1>3 DEF config_parser1
  <2>2. QED
    BY <2>1, config_parserLine
<1>4. QED
  BY <1>1, <1>2, <1>3

LEMMA lectureLine ==
  ASSUME NEW c \in Configs, NEW l \in Line
  PROVE  lecture(c, l) \in Configs /\ lecture(c, l).users = c.users
<1>1. Value(l) \in Texts /\ atoi(Value(l)) \in Int
  BY ValueText, AtoiInt
<1>2. c.end \in Ends /\ "crash" \in Ends /\ "overrun" \in Ends
  BY DEF Configs, Ends
<1>3. \/ lecture(c, l) = c
      \/ lecture(c, l) = [c EXCEPT !.end = "crash"]
      \/ lecture(c, l) = [c EXCEPT !.port = atoi(Value(l))]
      \/ \E e \in Ends : lecture(c, l) = [c EXCEPT !.type = Value(l), !.end = e]
  BY <1>2 DEF lecture
<1>4. \A e \in Ends : /\ [c EXCEPT !.type = Value(l), !.end = e] \in Configs
                      /\ [c EXCEPT !.type = Value(l), !.end = e].users = c.users
  BY <1>1 DEF Configs
<1>5. QED
  BY <1>1, <1>2, <1>3, <1>4 DEF Configs

LEMMA lecture1Line ==
  ASSUME NEW c \in Configs, NEW l \in Line, Len(c.users) <= MaxUsers
  PROVE  /\ lecture1(c, l) \in Configs
         /\ Len(lecture1(c, l).users) <= MaxUsers
         /\ \A n \in Words :
              Plain(n) \in Range(lecture1(c, l).users) =>
                Plain(n) \in Range(c.users) \/ NamedBy("lecture1", l, n)
<1> DEFINE rest == [blank |-> l.eq = "spaced", words |-> <<l.key>>,
                    note |-> l.eq = "none" /\ l.note]
           name(t) == <<strncpy(t, Cut32)>>
           items == Items(Value(l))
           v == strncpy(Value(l), Cut32)
<1>1. Value(l) \in Texts /\ v \in Texts /\ atoi(Value(l)) \in Int
  BY ValueText, CutText, AtoiInt
<1>2. l.key \in Words /\ Plain(l.key) \in Texts
  BY PlainText DEF Line
<1>3. rest \in Texts
  <2>1. (l.eq = "spaced") \in BOOLEAN /\ (l.eq = "none" /\ l.note) \in BOOLEAN
    OBVIOUS
  <2>2. <<l.key>> \in Seq(Words)
    BY <1>2
  <2>3. QED
    BY <2>1, <2>2 DEF Texts
<1>4. items \in Seq(Texts)
  BY ValueText, ItemsTexts
<1>5. ASSUME NEW t \in Texts, t.words = <<l.key>>, ~l.hash
      PROVE  /\ name(t) \in Seq(Texts)
             /\ \A n \in Words, i \in 1 .. Len(name(t)) :
                  name(t)[i] = Plain(n) => NamedBy("lecture1", l, n)
  <2>1. strncpy(t, Cut32) \in Texts
    BY CutText
  <2>2. ASSUME NEW n \in Words, strncpy(t, Cut32) = Plain(n)
        PROVE  n = Cut32[l.key]
    <3>1. t.words # <<>> /\ n = Cut32[t.words[1]]
      BY <2>2, StrncpyText, ConfigAssumption
    <3>2. t.words[1] = l.key
      BY <1>5
    <3>3. QED
      BY <3>1, <3>2
  <2>3. \A n \in Words : strncpy(t, Cut32) = Plain(n) => NamedBy("lecture1", l, n)
    BY <1>5, <2>2 DEF NamedBy
  <2> DEFINE s == strncpy(t, Cut32)
  <2>4. name(t) = <<s>>
    OBVIOUS
  <2> HIDE DEF s, name
  <2>5. QED
    BY <2>1, <2>3, <2>4 DEF s
<1>6. ~l.hash /\ l.key \in {"user", "users"} =>
        \A n \in Words, i \in 1 .. Len(items) :
          items[i] = Plain(n) => NamedBy("lecture1", l, n)
  BY ItemsNamed DEF Arrays
<1>7. rest.words = <<l.key>> /\ Plain(l.key).words = <<l.key>>
  BY DEF Plain
<1>8. \/ lecture1(c, l) = c
      \/ lecture1(c, l) = [c EXCEPT !.port = atoi(Value(l))]
      \/ lecture1(c, l) = [c EXCEPT !.type = v]
      \/ ~l.hash /\ lecture1(c, l) = AddUsers(c, name(rest))
      \/ ~l.hash /\ lecture1(c, l) = AddUsers(c, name(Plain(l.key)))
      \/ ~l.hash /\ l.key \in {"user", "users"} /\ lecture1(c, l) = AddUsers(c, items)
  BY DEF lecture1
<1> HIDE DEF rest, name, items, v
<1>9. QED
  <2>1. CASE \/ lecture1(c, l) = c
             \/ lecture1(c, l) = [c EXCEPT !.port = atoi(Value(l))]
             \/ lecture1(c, l) = [c EXCEPT !.type = v]
    BY <1>1, <2>1 DEF Configs
  <2>2. ASSUME NEW t \in Texts, t.words = <<l.key>>, ~l.hash,
               lecture1(c, l) = AddUsers(c, name(t))
        PROVE  /\ lecture1(c, l) \in Configs
               /\ Len(lecture1(c, l).users) <= MaxUsers
               /\ \A n \in Words :
                    Plain(n) \in Range(lecture1(c, l).users) =>
                      Plain(n) \in Range(c.users) \/ NamedBy("lecture1", l, n)
    <3> DEFINE new == name(t)
    <3>1. new \in Seq(Texts)
      BY <1>5, <2>2
    <3>2. \A n \in Words, i \in 1 .. Len(new) : new[i] = Plain(n) => NamedBy("lecture1", l, n)
      BY <1>5, <2>2
    <3>3. lecture1(c, l) = AddUsers(c, new)
      BY <2>2
    <3> HIDE DEF new
    <3>4. /\ AddUsers(c, new) \in Configs /\ Len(AddUsers(c, new).users) <= MaxUsers
          /\ \A u \in Range(AddUsers(c, new).users) :
               u \in Range(c.users) \/ \E i \in 1 .. Len(new) : u = new[i]
      BY <3>1, AddUsersConfig
    <3>5. QED
      BY <3>4, <3>3, <3>2
  <2>3. CASE ~l.hash /\ l.key \in {"user", "users"} /\ lecture1(c, l) = AddUsers(c, items)
    <3>1. \A n \in Words, i \in 1 .. Len(items) :
            items[i] = Plain(n) => NamedBy("lecture1", l, n)
      BY <1>6, <2>3
    <3>2. lecture1(c, l) = AddUsers(c, items)
      BY <2>3
    <3>3. /\ AddUsers(c, items) \in Configs /\ Len(AddUsers(c, items).users) <= MaxUsers
          /\ \A u \in Range(AddUsers(c, items).users) :
               u \in Range(c.users) \/ \E i \in 1 .. Len(items) : u = items[i]
      BY <1>4, AddUsersConfig
    <3>4. QED
      BY <3>3, <3>2, <3>1
  <2>4. QED
    BY <1>2, <1>3, <1>7, <1>8, <2>1, <2>2, <2>3

LEMMA quotedLine ==
  ASSUME NEW c \in Configs, NEW l \in Line
  PROVE  /\ quoted(c, l) \in Configs /\ quoted(c, l).users = c.users
         /\ daemon(c, l) \in Configs /\ daemon(c, l).users = c.users
<1>1. Value(l) \in Texts /\ atoi(Value(l)) \in Int
  BY ValueText, AtoiInt
<1>2. Plain("stream") \in Texts /\ Plain("dgram") \in Texts
  BY PlainText, StringsAreWords DEF Keys
<1>3. \/ quoted(c, l) = c
      \/ quoted(c, l) = [c EXCEPT !.port = atoi(Value(l))]
      \/ quoted(c, l) = [c EXCEPT !.type = Plain("stream")]
      \/ quoted(c, l) = [c EXCEPT !.type = Plain("dgram")]
  BY DEF quoted
<1>4. \/ daemon(c, l) = c
      \/ daemon(c, l) = [c EXCEPT !.port = atoi(Value(l))]
      \/ daemon(c, l) = [c EXCEPT !.type = Plain("stream")]
      \/ daemon(c, l) = [c EXCEPT !.type = Plain("dgram")]
  BY DEF daemon
<1>5. QED
  BY <1>1, <1>2, <1>3, <1>4 DEF Configs

LEMMA is_user_allowedLine ==
  ASSUME NEW c \in Configs, NEW l \in Line, NEW p \in FilesOfNames
  PROVE  /\ is_user_allowed(c, l) \in Configs
         /\ \A n \in Words :
              Plain(n) \in Range(is_user_allowed(c, l).users) =>
                Plain(n) \in Range(c.users) \/ NamedBy(p, l, n)
<1>1. CASE l.lead \/ l.hash \/ l.eq # "none" \/ l.note
  BY <1>1 DEF is_user_allowed
<1>2. CASE ~(l.lead \/ l.hash \/ l.eq # "none" \/ l.note)
  <2> DEFINE us == Append(c.users, Plain(l.key))
  <2>1. is_user_allowed(c, l) = [c EXCEPT !.users = us]
    BY <1>2 DEF is_user_allowed
  <2>2. c.users \in Seq(Texts) /\ Plain(l.key) \in Texts
    BY PlainText DEF Configs, Line
  <2>3. us \in Seq(Texts)
    BY <2>2
  <2>4. ASSUME NEW n \in Words, Plain(n) \in Range(us)
        PROVE  Plain(n) \in Range(c.users) \/ NamedBy(p, l, n)
    <3>1. PICK i \in 1 .. Len(c.users) + 1 : Plain(n) = us[i]
      BY <2>2, <2>4 DEF Range
    <3>2. CASE i \in 1 .. Len(c.users)
      <4>1. us[i] = c.users[i] /\ DOMAIN c.users = 1 .. Len(c.users)
        BY <2>2, <3>2
      <4>2. QED
        BY <3>1, <3>2, <4>1 DEF Range
    <3>3. CASE i = Len(c.users) + 1
      <4>1. us[i] = Plain(l.key)
        BY <2>2, <3>3
      <4>2. n = l.key
        BY <3>1, <4>1 DEF Plain
      <4>3. QED
        BY <1>2, <4>2 DEF NamedBy
    <3>4. QED
      BY <2>2, <3>2, <3>3
  <2> HIDE DEF us
  <2>5. is_user_allowed(c, l) \in Configs /\ is_user_allowed(c, l).users = us
    BY <2>1, <2>3 DEF Configs
  <2>6. QED
    BY <2>4, <2>5
<1>3. QED
  BY <1>1, <1>2

LEMMA config_Line ==
  ASSUME NEW c \in Configs, NEW l \in Line
  PROVE  /\ server_config(c, l) \in Configs /\ server_config(c, l).users = c.users
         /\ client_config(c, l) \in Configs /\ client_config(c, l).users = c.users
<1> DEFINE v == strncpy(Kept(l), Cut16)
<1>1. Kept(l) \in Texts /\ v \in Texts /\ atoi(Kept(l)) \in Int
  BY ValueText, CutText, AtoiInt
<1>2. \/ server_config(c, l) = c
      \/ server_config(c, l) = [c EXCEPT !.port = atoi(Kept(l))]
      \/ server_config(c, l) = [c EXCEPT !.type = v]
      \/ server_config(c, l) = [c EXCEPT !.limit = atoi(Kept(l))]
      \/ server_config(c, l) = [c EXCEPT !.place = Kept(l)]
  BY DEF server_config
<1>3. \/ client_config(c, l) = c
      \/ client_config(c, l) = [c EXCEPT !.port = atoi(Kept(l))]
      \/ client_config(c, l) = [c EXCEPT !.type = v]
      \/ client_config(c, l) = [c EXCEPT !.limit = atoi(Kept(l))]
      \/ client_config(c, l) = [c EXCEPT !.place = v]
  BY DEF client_config
<1> HIDE DEF v
<1>4. QED
  BY <1>1, <1>2, <1>3 DEF Configs

-----------------------------------------------------------------------------
(* One line, whoever reads it.                                             *)

LEMMA ParseLine ==
  ASSUME NEW p \in Parsers, NEW c \in Configs, NEW l \in Line,
         p \in Arrays => Len(c.users) <= MaxUsers
  PROVE  /\ Parse(p, c, l) \in Configs
         /\ p \in Arrays => Len(Parse(p, c, l).users) <= MaxUsers
         /\ p = "config_parser" => /\ Parse(p, c, l).users = c.users
                                   /\ Parse(p, c, l).end = c.end
         /\ \A n \in Words :
              /\ Plain(n) \in Range(Parse(p, c, l).users) =>
                   Plain(n) \in Range(c.users) \/ NamedBy(p, l, n)
              /\ p \in {"config_parser", "config_parser1"}
                   /\ Parse(p, c, l).user = Plain(n) =>
                     \/ NamedBy(p, l, n)
                     \/ /\ c.user = Plain(n)
                        /\ p = "config_parser" =>
                             (l.hash \/ l.key # "user" \/ ~HasValue(l))
<1>1. CASE p = "config_parser"
  <2>1. Parse(p, c, l) = config_parser(c, l)
    BY <1>1 DEF Parse
  <2>2. QED
    BY <1>1, <2>1, config_parserLine DEF Arrays
<1>2. CASE p = "config_parser1"
  <2>1. Parse(p, c, l) = config_parser1(c, l)
    BY <1>2 DEF Parse
  <2>2. Len(c.users) <= MaxUsers
    BY <1>2 DEF Arrays
  <2>3. QED
    BY <1>2, <2>1, <2>2, config_parser1Line
<1>3. CASE p = "lecture"
  <2> DEFINE d == is_user_allowed(c, l)
  <2>1. Parse(p, c, l) = lecture(d, l)
    BY <1>3 DEF Parse, lecture_user_allowed
  <2>2. /\ d \in Configs
        /\ \A n \in Words : Plain(n) \in Range(d.users) =>
             Plain(n) \in Range(c.users) \/ NamedBy(p, l, n)
    BY <1>3, is_user_allowedLine DEF FilesOfNames
  <2> HIDE DEF d
  <2>3. lecture(d, l) \in Configs /\ lecture(d, l).users = d.users
    BY <2>2, lectureLine
  <2>4. QED
    BY <1>3, <2>1, <2>2, <2>3 DEF Arrays
<1>4. CASE p = "lecture1"
  <2>1. Parse(p, c, l) = lecture1(c, l)
    BY <1>4 DEF Parse
  <2>2. Len(c.users) <= MaxUsers
    BY <1>4 DEF Arrays
  <2>3. QED
    BY <1>4, <2>1, <2>2, lecture1Line
<1>5. CASE p \in {"quoted", "daemon"}
  <2> DEFINE d == is_user_allowed(c, l)
  <2>1. Parse(p, c, l) \in {quoted(d, l), daemon(d, l)}
    BY <1>5 DEF Parse, quoted_is_user_allowed
  <2>2. /\ d \in Configs
        /\ \A n \in Words : Plain(n) \in Range(d.users) =>
             Plain(n) \in Range(c.users) \/ NamedBy(p, l, n)
    BY <1>5, is_user_allowedLine DEF FilesOfNames
  <2> HIDE DEF d
  <2>3. /\ quoted(d, l) \in Configs /\ quoted(d, l).users = d.users
        /\ daemon(d, l) \in Configs /\ daemon(d, l).users = d.users
    BY <2>2, quotedLine
  <2>4. QED
    BY <1>5, <2>1, <2>2, <2>3 DEF Arrays
<1>6. CASE p \in {"server_config", "client_config"}
  <2>1. Parse(p, c, l) \in {server_config(c, l), client_config(c, l)}
    BY <1>6 DEF Parse
  <2>2. QED
    BY <1>6, <2>1, config_Line DEF Arrays
<1>7. QED
  BY <1>1, <1>2, <1>3, <1>4, <1>5, <1>6 DEF Parsers

LEMMA DefaultTypes ==
  ASSUME NEW p \in Parsers
  PROVE  /\ Default(p) \in Configs
         /\ Default(p).users = <<>> /\ Default(p).end = "ok"
         /\ \A n \in Words : p \in {"config_parser", "config_parser1"}
              /\ Default(p).user = Plain(n) => p = "config_parser" /\ n = "root"
<1>1. /\ Plain("root") \in Texts /\ Plain("stream") \in Texts
      /\ Plain("127.0.0.1") \in Texts /\ Empty \in Texts
  BY PlainText, EmptyText, StringsAreWords DEF Keys
<1>2. \A i, k \in Int, u, t \in Texts :
        /\ Defaults(i, u, k, t) \in Configs
        /\ Defaults(i, u, k, t).users = <<>> /\ Defaults(i, u, k, t).user = u
        /\ Defaults(i, u, k, t).end = "ok"
  BY <1>1 DEF Defaults, Configs, Ends
<1>3. \/ p = "config_parser" /\ Default(p) = Defaults(0, Plain("root"), 0, Empty)
      \/ /\ p # "config_parser"
         /\ \E i, k \in Int, t \in Texts : Default(p) = Defaults(i, Empty, k, t)
  <2>1. p # "config_parser" => Default(p) \in
          {Defaults(0, Empty, 0, Empty), Defaults(1234, Empty, 0, Empty),
           Defaults(8080, Empty, 10, Empty), Defaults(8080, Empty, 5000, Plain("127.0.0.1"))}
    BY DEF Default, Parsers
  <2>2. p = "config_parser" => Default(p) = Defaults(0, Plain("root"), 0, Empty)
    BY DEF Default
  <2>3. QED
    BY <1>1, <2>1, <2>2
<1>4. \A n, k \in Words : Empty # Plain(n) /\ (Plain(k) = Plain(n) => k = n)
  BY DEF Empty, Plain
<1>5. "root" \in Words
  BY StringsAreWords DEF Keys
<1>6. CASE p = "config_parser" /\ Default(p) = Defaults(0, Plain("root"), 0, Empty)
  <2>1. /\ Default(p) \in Configs /\ Default(p).users = <<>>
        /\ Default(p).end = "ok" /\ Default(p).user = Plain("root")
    BY <1>1, <1>2, <1>6
  <2>2. QED
    BY <1>4, <1>5, <1>6, <2>1
<1>7. CASE p # "config_parser"
           /\ \E i, k \in Int, t \in Texts : Default(p) = Defaults(i, Empty, k, t)
  <2>1. /\ Default(p) \in Configs /\ Default(p).users = <<>>
        /\ Default(p).end = "ok" /\ Default(p).user = Empty
    BY <1>1, <1>2, <1>7
  <2>2. QED
    BY <1>4, <2>1
<1>8. QED
  BY <1>3, <1>6, <1>7

(* The type invariant holds: whatever the file, every field has its type   *)
(* and no array of users is longer than MAX_USERS (the bounds tested at    *)
(* config_parser1.c:75 and myrpc-server1/src/config_parser.c:33).          *)
THEOREM ConfigTypes == Spec => []TypeOK
<1>1. Init => TypeOK
  <2> SUFFICES ASSUME Init PROVE TypeOK
    OBVIOUS
  <2>1. file \in Seq(Lines) /\ Len(file) <= MaxLines
    BY ConfigAssumption DEF Init
  <2>2. \A p \in Parsers : cfg[p] \in Configs /\ Len(cfg[p].users) = 0
    BY DefaultTypes DEF Init
  <2>3. cfg \in [Parsers -> Configs]
    BY <2>2 DEF Init
  <2>4. Arrays \subseteq Parsers
    BY DEF Arrays, Parsers
  <2>5. QED
    BY <2>1, <2>2, <2>3, <2>4, ConfigAssumption DEF TypeOK
<1>2. TypeOK /\ [Next]_vars => TypeOK'
  <2> SUFFICES ASSUME TypeOK, [Next]_vars PROVE TypeOK'
    OBVIOUS
  <2>1. ASSUME NEW l \in Lines, ReadLine(l) PROVE TypeOK'
    <3>1. l \in Line
      BY ConfigAssumption
    <3>2. file' \in Seq(Lines) /\ Len(file') <= MaxLines
      BY <2>1, ConfigAssumption DEF ReadLine, TypeOK
    <3>3. ASSUME NEW p \in Parsers
          PROVE  /\ cfg'[p] \in Configs
                 /\ p \in Arrays => Len(cfg'[p].users) <= MaxUsers
      <4>1. cfg[p] \in Configs /\ (p \in Arrays => Len(cfg[p].users) <= MaxUsers)
        BY DEF TypeOK
      <4>2. cfg'[p] \in {cfg[p], Parse(p, cfg[p], l)}
        BY <2>1 DEF ReadLine
      <4>3. QED
        BY <3>1, <4>1, <4>2, ParseLine
    <3>4. cfg' \in [Parsers -> Configs]
      <4>1. cfg' = [p \in Parsers |-> cfg'[p]]
        BY <2>1 DEF ReadLine
      <4>2. QED
        BY <3>3, <4>1
    <3>5. Arrays \subseteq Parsers
      BY DEF Arrays, Parsers
    <3>6. QED
      BY <3>2, <3>3, <3>4, <3>5 DEF TypeOK
  <2>2. CASE UNCHANGED vars
    BY <2>2 DEF vars, TypeOK
  <2>3. QED
    BY <2>1, <2>2 DEF Next
<1>3. QED
  BY <1>1, <1>2, PTL DEF Spec

-----------------------------------------------------------------------------
(* Who is allowed.  For the induction: config_parser never fills the array *)
(* and reads every file to its end, so that its default is the only way to *)
(* be allowed unnamed and ends with the first line that names a user.      *)
NamedInv ==
  /\ cfg["config_parser"].users = <<>> /\ cfg["config_parser"].end = "ok"
  /\ OnlyNamed

LEMMA NamedInit == Init => NamedInv
<1> SUFFICES ASSUME Init PROVE NamedInv
  OBVIOUS
<1>1. \A p \in Parsers : cfg[p] = Default(p)
  BY DEF Init
<1>2. "config_parser" \in Parsers
  BY DEF Parsers
<1>3. ASSUME NEW p \in Parsers, NEW n \in Words, Allows(p, n)
      PROVE  p = "config_parser" /\ n = "root" /\ 1 .. Len(file) = {}
  <2>1. Range(cfg[p].users) = {}
    BY <1>1, DefaultTypes DEF Range
  <2>2. p \in {"config_parser", "config_parser1"} /\ cfg[p].user = Plain(n)
    BY <1>3, <2>1 DEF Allows
  <2>3. file = <<>>
    BY DEF Init
  <2>4. QED
    BY <1>1, <2>2, <2>3, DefaultTypes
<1>4. OnlyNamed
  BY <1>3 DEF OnlyNamed
<1>5. QED
  BY <1>1, <1>2, <1>4, DefaultTypes DEF NamedInv

LEMMA NamedStep == TypeOK /\ NamedInv /\ [Next]_vars => NamedInv'
<1> SUFFICES ASSUME TypeOK, NamedInv, [Next]_vars PROVE NamedInv'
  OBVIOUS
<1>1. ASSUME NEW l \in Lines, ReadLine(l) PROVE NamedInv'
  <2>1. l \in Line
    BY ConfigAssumption
  <2>2. /\ Len(file') = Len(file) + 1 /\ Len(file) \in Nat
        /\ file'[Len(file) + 1] = l
        /\ \A i \in 1 .. Len(file) : file'[i] = file[i]
    BY <1>1 DEF ReadLine, TypeOK
  <2>3. \A i \in 1 .. Len(file') : i \in 1 .. Len(file) \/ i = Len(file) + 1
    BY <2>2
  <2>4. 1 .. Len(file) \subseteq 1 .. Len(file') /\ Len(file) + 1 \in 1 .. Len(file')
    BY <2>2
  <2>5. \A p \in Parsers : /\ cfg[p] \in Configs
                           /\ p \in Arrays => Len(cfg[p].users) <= MaxUsers
    BY DEF TypeOK
  <2>6. \A p \in Parsers : \/ cfg'[p] = cfg[p] /\ cfg[p].end \in {"crash", "hang"}
                           \/ cfg'[p] = Parse(p, cfg[p], l)
    BY <1>1 DEF ReadLine
  <2>7. cfg'["config_parser"].users = <<>> /\ cfg'["config_parser"].end = "ok"
    <3>1. "config_parser" \in Parsers /\ "config_parser" \notin Arrays
      BY DEF Parsers, Arrays
    <3>2. /\ cfg["config_parser"] \in Configs
          /\ cfg["config_parser"].users = <<>> /\ cfg["config_parser"].end = "ok"
      BY <2>5, <3>1 DEF NamedInv
    <3>3. cfg'["config_parser"] = Parse("config_parser", cfg["config_parser"], l)
      BY <2>6, <3>1, <3>2
    <3>4. QED
      BY <2>1, <3>1, <3>2, <3>3, ParseLine
  <2>8. ASSUME NEW p \in Parsers, NEW n \in Words, Allows(p, n)'
        PROVE  \/ NamedBy(p, l, n)
               \/ /\ Allows(p, n)
                  /\ p = "config_parser" => (l.hash \/ l.key # "user" \/ ~HasValue(l))
    <3>1. cfg[p] \in Configs /\ (p \in Arrays => Len(cfg[p].users) <= MaxUsers)
      BY <2>5
    <3> DEFINE c == cfg[p]
               d == cfg'[p]
    <3>2. \/ p \in {"config_parser", "config_parser1"} /\ d.user = Plain(n)
          \/ Plain(n) \in Range(d.users)
      BY <2>8 DEF Allows
    <3>3. Range(<<>>) = {}
      BY DEF Range
    <3>4. p = "config_parser" => d.users = <<>> /\ c.end = "ok"
      BY <2>7 DEF NamedInv
    <3>5. CASE d = c /\ c.end \in {"crash", "hang"}
      BY <3>2, <3>4, <3>5 DEF Allows
    <3>6. CASE d = Parse(p, c, l)
      <4>1. /\ Plain(n) \in Range(d.users) => Plain(n) \in Range(c.users) \/ NamedBy(p, l, n)
            /\ p \in {"config_parser", "config_parser1"} /\ d.user = Plain(n) =>
                 \/ NamedBy(p, l, n)
                 \/ /\ c.user = Plain(n)
                    /\ p = "config_parser" => (l.hash \/ l.key # "user" \/ ~HasValue(l))
        BY <2>1, <3>1, <3>6, ParseLine
      <4>2. QED
        BY <3>2, <3>3, <3>4, <4>1 DEF Allows
    <3>7. QED
      BY <2>6, <3>5, <3>6
  <2>9. ASSUME NEW p \in Parsers, NEW n \in Words, Allows(p, n)'
        PROVE  \/ p = "config_parser" /\ n = "root"
                  /\ \A i \in 1 .. Len(file') :
                       file'[i].hash \/ file'[i].key # "user" \/ ~HasValue(file'[i])
               \/ \E i \in 1 .. Len(file') : NamedBy(p, file'[i], n)
    <3>1. CASE NamedBy(p, l, n)
      BY <2>2, <2>4, <3>1
    <3>2. CASE /\ Allows(p, n)
               /\ p = "config_parser" => (l.hash \/ l.key # "user" \/ ~HasValue(l))
      <4>1. \/ p = "config_parser" /\ n = "root"
               /\ \A i \in 1 .. Len(file) :
                    file[i].hash \/ file[i].key # "user" \/ ~HasValue(file[i])
            \/ \E i \in 1 .. Len(file) : NamedBy(p, file[i], n)
        BY <3>2 DEF NamedInv, OnlyNamed
      <4>2. QED
        BY <2>2, <2>3, <2>4, <3>2, <4>1
    <3>3. QED
      BY <2>8, <2>9, <3>1, <3>2
  <2>10. QED
    BY <2>7, <2>9 DEF NamedInv, OnlyNamed, NamedBy
<1>2. CASE UNCHANGED vars
  BY <1>2 DEF vars, NamedInv, OnlyNamed, Allows, NamedBy
<1>3. QED
  BY <1>1, <1>2 DEF Next

(* Nobody is allowed whom no line of the file names, except root with      *)
(* config_parser as long as no line names a user (config_parser.c:29).     *)
THEOREM ConfigNamed == Spec => []OnlyNamed
<1>1. NamedInv => OnlyNamed
  BY DEF NamedInv
<1>2. QED
  BY <1>1, NamedInit, NamedStep, ConfigTypes, PTL DEF Spec

-----------------------------------------------------------------------------
(* One line more, for the inductions below.                                *)

LEMMA LineRead ==
  ASSUME TypeOK, NEW l \in Lines, ReadLine(l)
  PROVE  /\ l \in Line
         /\ Len(file) \in Nat /\ Len(file') = Len(file) + 1
         /\ file'[Len(file) + 1] = l
         /\ \A i \in 1 .. Len(file) : file[i] \in Line /\ file'[i] = file[i]
         /\ \A p \in Parsers :
              /\ cfg[p] \in Configs /\ cfg'[p] \in Configs
              /\ p \in Arrays => Len(cfg[p].users) <= MaxUsers
              /\ cfg'[p] = IF cfg[p].end \in {"crash", "hang"} THEN cfg[p]
                           ELSE Parse(p, cfg[p], l)
<1>1. l \in Line /\ Lines \subseteq Line
  BY ConfigAssumption
<1>2. file \in Seq(Lines)
  BY DEF TypeOK
<1>3. /\ Len(file) \in Nat /\ Len(file') = Len(file) + 1
      /\ file'[Len(file) + 1] = l
      /\ \A i \in 1 .. Len(file) : file[i] \in Lines /\ file'[i] = file[i]
  BY <1>2 DEF ReadLine
<1>4. ASSUME NEW p \in Parsers
      PROVE  /\ cfg[p] \in Configs /\ cfg'[p] \in Configs
             /\ p \in Arrays => Len(cfg[p].users) <= MaxUsers
             /\ cfg'[p] = IF cfg[p].end \in {"crash", "hang"} THEN cfg[p]
                          ELSE Parse(p, cfg[p], l)
  <2>1. cfg[p] \in Configs /\ (p \in Arrays => Len(cfg[p].users) <= MaxUsers)
    BY DEF TypeOK
  <2>2. cfg'[p] = IF cfg[p].end \in {"crash", "hang"} THEN cfg[p]
                  ELSE Parse(p, cfg[p], l)
    BY DEF ReadLine
  <2>3. QED
    BY <1>1, <2>1, <2>2, ParseLine
<1>5. QED
  BY <1>1, <1>3, <1>4

(* AddUsers touches the array only; what does not fill it loses nobody.    *)
LEMMA AddUsersKeeps ==
  ASSUME NEW c \in Configs, NEW items \in Seq(Texts)
  PROVE  /\ AddUsers(c, items).end = c.end
         /\ AddUsers(c, items).port = c.port /\ AddUsers(c, items).type = c.type
         /\ Len(AddUsers(c, items).users) < MaxUsers =>
              /\ Len(c.users) < MaxUsers
              /\ Range(c.users) \subseteq Range(AddUsers(c, items).users)
              /\ \A i \in 1 .. Len(items) : items[i] \in Range(AddUsers(c, items).users)
<1> DEFINE n == Len(c.users) + Len(items)
           k == IF n < MaxUsers THEN n ELSE MaxUsers
           us == [i \in 1 .. k |-> IF i <= Len(c.users) THEN c.users[i]
                                   ELSE items[i - Len(c.users)]]
<1>1. /\ c.users \in Seq(Texts) /\ Len(c.users) \in Nat /\ Len(items) \in Nat
      /\ DOMAIN c.users = 1 .. Len(c.users)
  BY DEF Configs
<1>2. MaxUsers \in Nat
  BY ConfigAssumption
<1>3. AddUsers(c, items) = [c EXCEPT !.users = us]
  BY DEF AddUsers
<1>4. /\ AddUsers(c, items).end = c.end
      /\ AddUsers(c, items).port = c.port /\ AddUsers(c, items).type = c.type
      /\ AddUsers(c, items).users = us
  BY <1>3 DEF Configs
<1>5. Len(us) = k /\ DOMAIN us = 1 .. k
  <2>1. k \in Nat
    BY <1>1, <1>2
  <2> HIDE DEF k
  <2>2. QED
    BY <2>1
<1>6. ASSUME k < MaxUsers
      PROVE  /\ Len(c.users) < MaxUsers
             /\ Range(c.users) \subseteq Range(us)
             /\ \A i \in 1 .. Len(items) : items[i] \in Range(us)
  <2>1. k = n
    BY <1>1, <1>2, <1>6
  <2>2. \A i \in 1 .. Len(c.users) : i \in DOMAIN us /\ us[i] = c.users[i]
    BY <1>1, <1>5, <2>1
  <2>3. \A i \in 1 .. Len(items) : /\ Len(c.users) + i \in DOMAIN us
                                   /\ us[Len(c.users) + i] = items[i]
    BY <1>1, <1>5, <2>1
  <2>4. Len(c.users) < MaxUsers
    BY <1>1, <1>2, <1>6, <2>1
  <2> HIDE DEF us
  <2>5. QED
    BY <1>1, <2>2, <2>3, <2>4 DEF Range
<1> HIDE DEF us, k
<1>7. QED
  BY <1>4, <1>5, <1>6

(* The pieces of a list without a comment behind it are its words, cut.    *)
LEMMA ItemsAreWords ==
  ASSUME NEW l \in Line, ~l.note, NEW j \in 1 .. Len(l.vals)
  PROVE  j \in 1 .. Len(Items(Value(l))) /\ Items(Value(l))[j] = Plain(Cut32[l.vals[j]])
<1> DEFINE piece(i) == [blank |-> FALSE, words |-> <<Value(l).words[i]>>,
                        note |-> Value(l).note /\ i = Len(Value(l).words)]
<1>1. l.vals \in Seq(Words) /\ l.vals[j] \in Words /\ l.vals # <<>>
  BY DEF Line
<1>2. Value(l).words = l.vals /\ Value(l).note = FALSE
  BY DEF Value, Line
<1>3. Items(Value(l)) = [i \in 1 .. Len(l.vals) |-> strncpy(piece(i), Cut32)]
  BY <1>1, <1>2 DEF Items
<1>4. piece(j) = Plain(l.vals[j])
  BY <1>2 DEF Plain
<1>5. strncpy(Plain(l.vals[j]), Cut32) = Plain(Cut32[l.vals[j]])
  <2>1. Plain(l.vals[j]).words = <<l.vals[j]>> /\ Plain(l.vals[j]).words[1] = l.vals[j]
    BY DEF Plain
  <2>2. QED
    BY <2>1 DEF strncpy, Plain
<1> HIDE DEF piece
<1>6. QED
  BY <1>1, <1>3, <1>4, <1>5

LEMMA lecture1Cases ==
  ASSUME NEW c \in Configs, NEW l \in Line
  PROVE  /\ \/ lecture1(c, l) = c
            \/ \E n \in Int : lecture1(c, l) = [c EXCEPT !.port = n]
            \/ \E t \in Texts : lecture1(c, l) = [c EXCEPT !.type = t]
            \/ \E items \in Seq(Texts) : lecture1(c, l) = AddUsers(c, items)
         /\ ~l.hash /\ HasValue(l) /\ l.key \in {"user", "users"} =>
              lecture1(c, l) = AddUsers(c, Items(Value(l)))
<1> DEFINE rest == [blank |-> l.eq = "spaced", words |-> <<l.key>>,
                    note |-> l.eq = "none" /\ l.note]
           v == strncpy(Value(l), Cut32)
           new == {Items(Value(l)), <<strncpy(rest, Cut32)>>, <<strncpy(Plain(l.key), Cut32)>>}
<1>1. v \in Texts /\ atoi(Value(l)) \in Int /\ Items(Value(l)) \in Seq(Texts)
  BY ValueText, CutText, AtoiInt, ItemsTexts
<1>2. l.key \in Words /\ Plain(l.key) \in Texts
  BY PlainText DEF Line
<1>3. rest \in Texts
  <2>1. (l.eq = "spaced") \in BOOLEAN /\ (l.eq = "none" /\ l.note) \in BOOLEAN
    OBVIOUS
  <2>2. <<l.key>> \in Seq(Words)
    BY <1>2
  <2>3. QED
    BY <2>1, <2>2 DEF Texts
<1>4. new \subseteq Seq(Texts)
  <2>1. strncpy(rest, Cut32) \in Texts /\ strncpy(Plain(l.key), Cut32) \in Texts
    BY <1>2, <1>3, CutText
  <2>2. \A t \in Texts : <<t>> \in Seq(Texts)
    OBVIOUS
  <2>3. QED
    BY <1>1, <2>1, <2>2
<1>5. \/ lecture1(c, l) = c
      \/ lecture1(c, l) = [c EXCEPT !.port = atoi(Value(l))]
      \/ lecture1(c, l) = [c EXCEPT !.type = v]
      \/ \E items \in new : lecture1(c, l) = AddUsers(c, items)
  BY DEF lecture1
<1>6. ~l.hash /\ HasValue(l) /\ l.key \in {"user", "users"} =>
        lecture1(c, l) = AddUsers(c, Items(Value(l)))
  BY DEF lecture1
<1> HIDE DEF v, new
<1>7. QED
  BY <1>1, <1>4, <1>5, <1>6

(* What the two parsers with an array make of a line.                      *)
LEMMA ArraysKeep ==
  ASSUME NEW p \in Arrays, NEW c \in Configs, NEW l \in Line,
         l.eq = "none" => l.vals = <<>>
  PROVE  /\ \/ Parse(p, c, l).end = c.end
            \/ Parse(p, c, l).end = "hang" /\ CommaLoopSpins(l)
         /\ Parse(p, c, l).end = "ok" /\ Len(Parse(p, c, l).users) < MaxUsers =>
              /\ Len(c.users) < MaxUsers
              /\ Range(c.users) \subseteq Range(Parse(p, c, l).users)
              /\ l.key = "users" /\ ~l.hash /\ ~l.note =>
                   \A j \in 1 .. Len(l.vals) :
                     Plain(Cut32[l.vals[j]]) \in Range(Parse(p, c, l).users)
<1> DEFINE d == Parse(p, c, l)
           list == l.key = "users" /\ ~l.hash /\ ~l.note /\ l.vals # <<>>
<1>1. Items(Value(l)) \in Seq(Texts)
  BY ValueText, ItemsTexts
<1>2. list => HasValue(l)
  BY DEF HasValue
<1>3. \/ /\ \E items \in Seq(Texts) : d = AddUsers(c, items)
         /\ list => d = AddUsers(c, Items(Value(l)))
      \/ d.end = "hang" /\ CommaLoopSpins(l)
      \/ d.end = c.end /\ d.users = c.users /\ ~list
  <2>1. CASE p = "config_parser1"
    <3>1. d = config_parser1(c, l)
      BY <2>1 DEF Parse
    <3>2. CASE CommaLoopSpins(l)
      BY <3>1, <3>2 DEF config_parser1, Configs
    <3>3. CASE ~CommaLoopSpins(l) /\ ~l.hash /\ l.key = "users" /\ HasValue(l)
      BY <1>1, <3>1, <3>3 DEF config_parser1
    <3>4. CASE ~CommaLoopSpins(l) /\ ~(~l.hash /\ l.key = "users" /\ HasValue(l))
      <4>1. d = config_parser(c, l) /\ ~list
        BY <1>2, <3>1, <3>4 DEF config_parser1
      <4>2. QED
        BY <4>1, config_parserLine
    <3>5. QED
      BY <3>2, <3>3, <3>4
  <2>2. CASE p = "lecture1"
    <3>1. d = lecture1(c, l)
      BY <2>2 DEF Parse
    <3>2. list => d = AddUsers(c, Items(Value(l)))
      BY <1>2, <3>1, lecture1Cases
    <3>3. \/ d.end = c.end /\ d.users = c.users
          \/ \E items \in Seq(Texts) : d = AddUsers(c, items)
      <4> HIDE DEF d
      <4>2. \/ d = c
            \/ \E n \in Int : d = [c EXCEPT !.port = n]
            \/ \E t \in Texts : d = [c EXCEPT !.type = t]
            \/ \E items \in Seq(Texts) : d = AddUsers(c, items)
        BY <3>1, lecture1Cases
      <4>3. CASE \E n \in Int : d = [c EXCEPT !.port = n]
        <5>1. PICK n \in Int : d = [c EXCEPT !.port = n]
          BY <4>3
        <5>2. QED
          BY <5>1 DEF Configs
      <4>4. CASE \E t \in Texts : d = [c EXCEPT !.type = t]
        <5>1. PICK t \in Texts : d = [c EXCEPT !.type = t]
          BY <4>4
        <5>2. QED
          BY <5>1 DEF Configs
      <4>5. QED
        BY <4>2, <4>3, <4>4, Zenon
    <3> HIDE DEF d, list
    <3>4. QED
      BY <1>1, <3>2, <3>3
  <2>3. QED
    BY <2>1, <2>2 DEF Arrays
<1>4. list => \A j \in 1 .. Len(l.vals) :
                /\ j \in 1 .. Len(Items(Value(l)))
                /\ Items(Value(l))[j] = Plain(Cut32[l.vals[j]])
  BY ItemsAreWords
<1>5. l.key = "users" /\ ~l.hash /\ ~l.note =>
        list \/ \A j \in 1 .. Len(l.vals) : FALSE
  OBVIOUS
<1> HIDE DEF d, list
<1>6. CASE /\ \E items \in Seq(Texts) : d = AddUsers(c, items)
           /\ list => d = AddUsers(c, Items(Value(l)))
  <2>1. PICK items \in Seq(Texts) : d = AddUsers(c, items)
    BY <1>6
  <2>2. /\ d.end = c.end
        /\ Len(d.users) < MaxUsers =>
             Len(c.users) < MaxUsers /\ Range(c.users) \subseteq Range(d.users)
    BY <2>1, AddUsersKeeps
  <2>3. list /\ Len(d.users) < MaxUsers =>
          \A j \in 1 .. Len(Items(Value(l))) : Items(Value(l))[j] \in Range(d.users)
    BY <1>1, <1>6, AddUsersKeeps
  <2>4. list /\ Len(d.users) < MaxUsers =>
          \A j \in 1 .. Len(l.vals) : Plain(Cut32[l.vals[j]]) \in Range(d.users)
    BY <1>4, <2>3
  <2>5. l.key = "users" /\ ~l.hash /\ ~l.note /\ Len(d.users) < MaxUsers =>
          \A j \in 1 .. Len(l.vals) : Plain(Cut32[l.vals[j]]) \in Range(d.users)
    BY <1>5, <2>4
  <2>6. QED
    BY <2>2, <2>5 DEF d
<1>7. CASE d.end = "hang" /\ CommaLoopSpins(l)
  BY <1>7 DEF d
<1>8. CASE d.end = c.end /\ d.users = c.users /\ ~list
  <2>1. l.key = "users" /\ ~l.hash /\ ~l.note => \A j \in 1 .. Len(l.vals) : FALSE
    BY <1>5, <1>8
  <2>2. QED
    BY <1>8, <2>1 DEF d
<1>9. QED
  BY <1>3, <1>6, <1>7, <1>8

-----------------------------------------------------------------------------
(* Nobody of a list is lost.  For the induction: they are in the array,    *)
(* whatever the field of the single user holds.                            *)
InArray ==
  \A p \in Arrays : cfg[p].end = "ok" /\ Len(cfg[p].users) < MaxUsers =>
    \A i \in 1 .. Len(file) :
      file[i].key = "users" /\ ~file[i].hash /\ ~file[i].note =>
        \A j \in 1 .. Len(file[i].vals) :
          Plain(Cut32[file[i].vals[j]]) \in Range(cfg[p].users)

LEMMA InArrayStep == TypeOK /\ InArray /\ [Next]_vars => InArray'
<1> SUFFICES ASSUME TypeOK, InArray, [Next]_vars PROVE InArray'
  OBVIOUS
<1>1. ASSUME NEW l \in Lines, ReadLine(l) PROVE InArray'
  <2>1. SUFFICES ASSUME NEW p \in Arrays, cfg'[p].end = "ok", Len(cfg'[p].users) < MaxUsers,
                        NEW i \in 1 .. Len(file'),
                        file'[i].key = "users", ~file'[i].hash, ~file'[i].note,
                        NEW j \in 1 .. Len(file'[i].vals)
                 PROVE  Plain(Cut32[file'[i].vals[j]]) \in Range(cfg'[p].users)
    BY DEF InArray
  <2>2. /\ Len(file) \in Nat /\ Len(file') = Len(file) + 1 /\ file'[Len(file) + 1] = l
        /\ \A k \in 1 .. Len(file) : file'[k] = file[k]
    BY <1>1, LineRead
  <2>3. p \in Parsers
    BY DEF Arrays, Parsers
  <2>4. l \in Line /\ cfg[p] \in Configs /\ (l.eq = "none" => l.vals = <<>>)
    BY <1>1, <2>3, LineRead, ConfigAssumption
  <2>5. cfg'[p] = Parse(p, cfg[p], l)
    BY <1>1, <2>1, <2>3, LineRead
  <2>6. /\ cfg[p].end = "ok" /\ Len(cfg[p].users) < MaxUsers
        /\ Range(cfg[p].users) \subseteq Range(cfg'[p].users)
        /\ l.key = "users" /\ ~l.hash /\ ~l.note =>
             \A k \in 1 .. Len(l.vals) : Plain(Cut32[l.vals[k]]) \in Range(cfg'[p].users)
    <3> DEFINE c == cfg[p]
               d == cfg'[p]
    <3>1. d.end = "ok" /\ Len(d.users) < MaxUsers
      BY <2>1
    <3>2. /\ d.end = c.end \/ d.end = "hang"
          /\ d.end = "ok" /\ Len(d.users) < MaxUsers =>
               /\ Len(c.users) < MaxUsers
               /\ Range(c.users) \subseteq Range(d.users)
               /\ l.key = "users" /\ ~l.hash /\ ~l.note =>
                    \A k \in 1 .. Len(l.vals) : Plain(Cut32[l.vals[k]]) \in Range(d.users)
      <4>1. c \in Configs /\ d = Parse(p, c, l)
        BY <2>4, <2>5
      <4> HIDE DEF c, d
      <4>2. QED
        BY <2>4, <4>1, ArraysKeep
    <3> HIDE DEF c, d
    <3>3. /\ c.end = "ok" /\ Len(c.users) < MaxUsers
          /\ Range(c.users) \subseteq Range(d.users)
          /\ l.key = "users" /\ ~l.hash /\ ~l.note =>
               \A k \in 1 .. Len(l.vals) : Plain(Cut32[l.vals[k]]) \in Range(d.users)
      BY <3>1, <3>2
    <3>4. QED
      BY <3>3 DEF c, d
  <2>7. CASE i \in 1 .. Len(file)
    <3>1. file'[i] = file[i]
      BY <2>2, <2>7
    <3>2. Plain(Cut32[file[i].vals[j]]) \in Range(cfg[p].users)
      BY <2>1, <2>6, <2>7, <3>1 DEF InArray
    <3>3. QED
      BY <2>6, <3>1, <3>2
  <2>8. CASE i = Len(file) + 1
    BY <2>1, <2>2, <2>6, <2>8
  <2>9. QED
    BY <2>2, <2>7, <2>8
<1>2. CASE UNCHANGED vars
  BY <1>2 DEF vars, InArray
<1>3. QED
  BY <1>1, <1>2 DEF Next

(* Everybody in a list of users is allowed as long as the array is not     *)
(* full, whatever lines come before and after (config_parser1.c:73,        *)
(* myrpc-server1/src/config_parser.c:87).                                  *)
THEOREM ConfigNobodyLost == Spec => []NobodyLost
<1>1. Init => InArray
  BY DEF Init, InArray
<1>2. InArray => NobodyLost
  BY DEF InArray, NobodyLost, Allows
<1>3. QED
  BY <1>1, <1>2, InArrayStep, ConfigTypes, PTL DEF Spec

-----------------------------------------------------------------------------
(* The last line for the type that is read has a blank behind its `='.     *)
SpacedTypeIsLast ==
  \E i \in 1 .. Len(file) :
    /\ file[i].key = "socket_type" /\ ~Unread(file[i]) /\ file[i].eq = "spaced"
    /\ \A j \in i + 1 .. Len(file) : file[j].key # "socket_type" \/ Unread(file[j])

SpacedTypeIsRefused ==
  SpacedTypeIsLast => /\ ~validate_server_config(cfg["server_config"])
                      /\ ~validate_client_config(cfg["client_config"])

(* The blank behind `='.  For the induction: the two parsers always get to *)
(* the end of the file, and a type from a spaced line keeps its blank      *)
(* until another line for the type is read.                                *)
Blanked == {"server_config", "client_config"}

BlankKept ==
  \A p \in Blanked : /\ cfg[p].end = "ok"
                     /\ SpacedTypeIsLast => cfg[p].type.blank = TRUE

LEMMA BlankLine ==
  ASSUME NEW p \in Blanked, NEW c \in Configs, NEW l \in Line
  PROVE  /\ Parse(p, c, l).end = c.end
         /\ IF l.key = "socket_type" /\ ~Unread(l)
            THEN Parse(p, c, l).type.blank = (l.eq = "spaced")
            ELSE Parse(p, c, l).type = c.type
<1> DEFINE v == strncpy(Kept(l), Cut16)
<1>1. v.blank = (l.eq = "spaced")
  <2>1. Kept(l).blank = (l.eq = "spaced") /\ Kept(l) \in Texts
    BY ValueText DEF Kept
  <2>2. \/ v = Kept(l)
        \/ \E w \in {Cut16[Kept(l).words[1]]} :
             v = [Kept(l) EXCEPT !.words = <<w>>, !.note = FALSE]
    BY DEF strncpy
  <2> HIDE DEF v
  <2>3. QED
    BY <2>1, <2>2 DEF Texts
<1>2. Parse(p, c, l) \in {server_config(c, l), client_config(c, l)}
  BY DEF Parse, Blanked
<1> DEFINE typed == l.key = "socket_type" /\ ~Unread(l)
<1>3. typed => Parse(p, c, l) = [c EXCEPT !.type = v]
  BY <1>2 DEF server_config, client_config
<1>4. ~typed => Parse(p, c, l).end = c.end /\ Parse(p, c, l).type = c.type
  BY <1>2 DEF server_config, client_config, Configs
<1> HIDE DEF v
<1>5. typed => Parse(p, c, l).end = c.end /\ Parse(p, c, l).type = v
  BY <1>3 DEF Configs
<1>6. QED
  BY <1>1, <1>4, <1>5

LEMMA BlankStep == TypeOK /\ BlankKept /\ [Next]_vars => BlankKept'
<1> SUFFICES ASSUME TypeOK, BlankKept, [Next]_vars PROVE BlankKept'
  OBVIOUS
<1>1. ASSUME NEW l \in Lines, ReadLine(l) PROVE BlankKept'
  <2> DEFINE typed == l.key = "socket_type" /\ ~Unread(l)
  <2>1. /\ l \in Line /\ Len(file) \in Nat /\ Len(file') = Len(file) + 1
        /\ file'[Len(file) + 1] = l
        /\ \A i \in 1 .. Len(file) : file'[i] = file[i]
    BY <1>1, LineRead
  <2>2. SpacedTypeIsLast' => IF typed THEN l.eq = "spaced" ELSE SpacedTypeIsLast
    <3>1. SUFFICES ASSUME NEW i \in 1 .. Len(file'),
                          file'[i].key = "socket_type", ~Unread(file'[i]), file'[i].eq = "spaced",
                          \A j \in i + 1 .. Len(file') :
                            file'[j].key # "socket_type" \/ Unread(file'[j])
                   PROVE  IF typed THEN l.eq = "spaced" ELSE SpacedTypeIsLast
      BY DEF SpacedTypeIsLast, Unread
    <3>2. CASE i = Len(file) + 1
      BY <2>1, <3>1, <3>2
    <3>3. CASE i \in 1 .. Len(file)
      <4>1. ~typed
        <5>1. Len(file) + 1 \in i + 1 .. Len(file')
          BY <2>1, <3>3
        <5>2. QED
          BY <2>1, <3>1, <5>1
      <4>2. file[i].key = "socket_type" /\ ~Unread(file[i]) /\ file[i].eq = "spaced"
        BY <2>1, <3>1, <3>3
      <4>3. \A j \in i + 1 .. Len(file) : file[j].key # "socket_type" \/ Unread(file[j])
        <5>1. \A j \in i + 1 .. Len(file) :
                j \in i + 1 .. Len(file') /\ file'[j] = file[j]
          BY <2>1, <3>3
        <5>2. QED
          BY <3>1, <5>1
      <4>4. SpacedTypeIsLast
        BY <3>3, <4>2, <4>3 DEF SpacedTypeIsLast
      <4>5. QED
        BY <4>1, <4>4
    <3>4. QED
      BY <2>1, <3>2, <3>3
  <2>3. ASSUME NEW p \in Blanked
        PROVE  /\ cfg'[p].end = "ok"
               /\ SpacedTypeIsLast' => cfg'[p].type.blank = TRUE
    <3>1. p \in Parsers
      BY DEF Blanked, Parsers
    <3>2. cfg[p].end = "ok" /\ (SpacedTypeIsLast => cfg[p].type.blank = TRUE)
      BY DEF BlankKept
    <3>3. cfg[p] \in Configs /\ cfg'[p] = Parse(p, cfg[p], l)
      BY <1>1, <3>1, <3>2, LineRead
    <3>4. /\ cfg'[p].end = "ok"
          /\ typed => cfg'[p].type.blank = (l.eq = "spaced")
          /\ ~typed => cfg'[p].type = cfg[p].type
      BY <2>1, <3>2, <3>3, BlankLine
    <3>5. QED
      BY <2>2, <3>2, <3>4
  <2>4. QED
    BY <2>3 DEF BlankKept
<1>2. CASE UNCHANGED vars
  BY <1>2 DEF vars, BlankKept, SpacedTypeIsLast, Unread
<1>3. QED
  BY <1>1, <1>2 DEF Next

(* SampleIsAccepted fails for every file that says its type in the style   *)
(* of the samples: a type written with a blank behind `=' is refused by    *)
(* the two readers that check what they have read (server_config.c:9, :71; *)
(* client_config.c:10, :75).                                               *)
THEOREM ConfigSpaced == Spec => []SpacedTypeIsRefused
<1>1. Init => BlankKept
  <2>1. Blanked \subseteq Parsers
    BY DEF Blanked, Parsers
  <2>2. QED
    BY <2>1, DefaultTypes DEF Init, BlankKept, SpacedTypeIsLast
<1>2. TypeOK /\ BlankKept => SpacedTypeIsRefused
  <2>1. \A w \in Words : Plain(w).blank = FALSE
    BY DEF Plain
  <2>2. "stream" \in Words /\ "dgram" \in Words
    BY StringsAreWords DEF Keys
  <2>3. BlankKept /\ SpacedTypeIsLast =>
          \A p \in Blanked : cfg[p].type \notin {Plain("stream"), Plain("dgram")}
    BY <2>1, <2>2 DEF BlankKept
  <2>4. ASSUME NEW c \in Configs, validate_server_config(c)
        PROVE  c.type \in {Plain("stream"), Plain("dgram")}
    BY <2>4 DEF validate_server_config
  <2>5. ASSUME NEW c \in Configs, validate_client_config(c)
        PROVE  c.type \in {Plain("stream"), Plain("dgram")}
    BY <2>5 DEF validate_client_config
  <2>6. "server_config" \in Blanked /\ "client_config" \in Blanked
    BY DEF Blanked
  <2>7. TypeOK /\ BlankKept /\ SpacedTypeIsLast =>
          /\ ~validate_server_config(cfg["server_config"])
          /\ ~validate_client_config(cfg["client_config"])
    <3>1. TypeOK => \A p \in Blanked : cfg[p] \in Configs
      BY DEF TypeOK, Blanked, Parsers
    <3>2. QED
      BY <2>3, <2>4, <2>5, <2>6, <3>1
  <2>8. QED
    BY <2>7 DEF SpacedTypeIsRefused
<1>3. QED
  BY <1>1, <1>2, BlankStep, ConfigTypes, PTL DEF Spec

-----------------------------------------------------------------------------
(* The two styles.  For the induction: the readers of a style get to the   *)
(* end of a file that keeps to it.                                         *)
Keeps(eq) == \A i \in 1 .. Len(file) : Setting(file[i], eq)
PortSet == \E i \in 1 .. Len(file) : file[i].key = "port" /\ ~file[i].hash

SameMeaning ==
  \A eq \in {"spaced", "tight"} : Keeps(eq) =>
    \A p, q \in Readers(eq) : /\ cfg[p].end = "ok" /\ cfg[p].type = cfg[q].type
                              /\ PortSet => cfg[p].port = cfg[q].port

(* What a line of the style means, to whoever reads it.                    *)
LEMMA SettingLine ==
  ASSUME NEW eq \in {"spaced", "tight"}, NEW p \in Readers(eq), NEW c \in Configs,
         NEW l \in Line, l.eq = "none" => l.vals = <<>>, Setting(l, eq)
  PROVE  /\ Parse(p, c, l).end = c.end
         /\ Parse(p, c, l).type = IF l.hash \/ l.key = "port" THEN c.type ELSE Plain(l.vals[1])
         /\ Parse(p, c, l).port = IF l.hash \/ l.key # "port" THEN c.port ELSE Number[l.vals[1]]
<1> DEFINE d == Parse(p, c, l)
           w == l.vals[1]
<1>1. ~CommaLoopSpins(l)
  <2>1. ASSUME l.vals = <<>>
        PROVE  Len(l.vals) = 0
    BY <2>1
  <2>2. Len(l.vals) = 0 \/ Len(l.vals) = 1
    BY <2>1 DEF Setting
  <2>3. ~(0 > 1) /\ ~(1 > 1)
    OBVIOUS
  <2>4. ~(Len(l.vals) > 1)
    BY <2>2, <2>3, Zenon
  <2>5. QED
    BY <2>4 DEF CommaLoopSpins
<1>2. is_user_allowed(c, l) = c
  BY DEF is_user_allowed, Setting
<1>3. d = CASE p = "config_parser"  -> config_parser(c, l)
            [] p = "config_parser1" -> config_parser1(c, l)
            [] p = "lecture"        -> lecture(c, l)
            [] p = "lecture1"       -> lecture1(c, l)
            [] p = "quoted"         -> quoted(c, l)
            [] p = "daemon"         -> daemon(c, l)
            [] p = "server_config"  -> server_config(c, l)
  BY <1>2 DEF Parse, Readers, lecture_user_allowed, quoted_is_user_allowed
<1>4. CASE l.hash
  <2>1. ~l.lead /\ l.eq = "none"
    BY <1>4 DEF Setting
  <2>2. d = c
    BY <1>1, <1>3, <1>4, <2>1
       DEF Readers, config_parser, config_parser1, lecture, lecture1, quoted, daemon,
           server_config, Unread
  <2>3. QED
    BY <1>4, <2>2
<1>5. CASE ~l.hash
  <2>1. /\ ~l.lead /\ ~l.note /\ l.eq = eq /\ Len(l.vals) = 1
        /\ l.key = "port" \/ (l.key = "socket_type" /\ w \in {"stream", "dgram"})
    BY <1>5 DEF Setting
  <2>2. l.vals = <<w>> /\ w \in Words /\ l.vals # <<>>
    BY <2>1 DEF Line
  <2>3. HasValue(l) /\ l.eq # "none"
    BY <2>1, <2>2 DEF HasValue
  <2>4. Value(l) = Plain(w)
    BY <2>1, <2>2 DEF Value, Plain, Line
  <2>5. eq = "tight" => Kept(l) = Plain(w) /\ ~Unread(l)
    BY <1>5, <2>1, <2>2, <2>3 DEF Kept, Plain, Unread
  <2>6. /\ p \in {"lecture", "server_config"} => eq = "tight"
        /\ p \in {"quoted", "daemon"} => eq = "spaced"
    BY DEF Readers
  <2>7. Plain(w).words = <<w>> /\ atoi(Plain(w)) = Number[w]
    BY DEF Plain, atoi
  <2>8. CASE l.key = "port"
    <3>1. d = [c EXCEPT !.port = Number[w]]
      BY <1>1, <1>3, <1>5, <2>1, <2>2, <2>3, <2>4, <2>5, <2>6, <2>7, <2>8,
         ConfigAssumption
         DEF Readers, config_parser, config_parser1, lecture, lecture1, quoted, daemon,
             server_config
    <3>2. QED
      BY <1>5, <2>8, <3>1 DEF Configs
  <2>9. CASE l.key = "socket_type" /\ w \in {"stream", "dgram"}
    <3>1. Cut16[w] = w /\ Cut32[w] = w
      BY <2>9, ConfigAssumption
    <3>2. strncpy(Plain(w), Cut16) = Plain(w) /\ strncpy(Plain(w), Cut32) = Plain(w)
      BY <2>7, <3>1 DEF strncpy
    <3>3. d.type = Plain(w) /\ d.end = c.end /\ d.port = c.port
      <4>1. CASE p \in {"config_parser", "config_parser1", "lecture1", "server_config"}
        <5>1. d = [c EXCEPT !.type = Plain(w)]
          BY <1>1, <1>3, <1>5, <2>1, <2>3, <2>4, <2>5, <2>6, <2>9,
             <3>2, <4>1
             DEF Readers, config_parser, config_parser1, lecture1, server_config
        <5>2. QED
          BY <5>1 DEF Configs
      <4>2. CASE p = "lecture"
        <5>1. d = [c EXCEPT !.type = Value(l), !.end = @]
          BY <1>3, <1>5, <2>1, <2>2, <2>3, <2>6, <2>9, <3>1, <4>2 DEF lecture
        <5>2. QED
          BY <2>4, <5>1 DEF Configs
      <4>3. CASE p \in {"quoted", "daemon"}
        <5>1. l.eq = "spaced" /\ "socket_type" \notin PortLike
          BY <2>1, <2>6, <4>3, ConfigAssumption
        <5>2. /\ w = "stream" => w \in StreamLike
              /\ w = "dgram" => w \notin StreamLike /\ w \in DgramLike
          BY ConfigAssumption
        <5>3. Range(l.vals) = {w}
          BY <2>2 DEF Range
        <5>4. d = [c EXCEPT !.type = Plain(w)]
          BY <1>3, <1>5, <2>1, <2>2, <2>9, <4>3, <5>1, <5>2, <5>3 DEF quoted, daemon
        <5>5. QED
          BY <5>4 DEF Configs
      <4>4. QED
        BY <4>1, <4>2, <4>3 DEF Readers
    <3>4. QED
      BY <1>5, <2>9, <3>3
  <2>10. QED
    BY <2>1, <2>8, <2>9
<1>6. QED
  BY <1>4, <1>5

LEMMA SameStep == TypeOK /\ SameMeaning /\ [Next]_vars => SameMeaning'
<1> SUFFICES ASSUME TypeOK, SameMeaning, [Next]_vars PROVE SameMeaning'
  OBVIOUS
<1>1. ASSUME NEW l \in Lines, ReadLine(l) PROVE SameMeaning'
  <2>1. SUFFICES ASSUME NEW eq \in {"spaced", "tight"}, Keeps(eq)',
                        NEW p \in Readers(eq), NEW q \in Readers(eq)
                 PROVE  /\ cfg'[p].end = "ok" /\ cfg'[p].type = cfg'[q].type
                        /\ PortSet' => cfg'[p].port = cfg'[q].port
    BY DEF SameMeaning, Readers
  <2>2. /\ Len(file) \in Nat /\ Len(file') = Len(file) + 1 /\ file'[Len(file) + 1] = l
        /\ \A i \in 1 .. Len(file) : file'[i] = file[i]
    BY <1>1, LineRead
  <2>3. Setting(l, eq) /\ Keeps(eq)
    BY <2>1, <2>2 DEF Keeps, Setting
  <2>4. PortSet' => PortSet \/ (l.key = "port" /\ ~l.hash)
    BY <2>2 DEF PortSet
  <2>5. l \in Line /\ (l.eq = "none" => l.vals = <<>>)
    BY <1>1, ConfigAssumption
  <2>6. ASSUME NEW r \in Readers(eq)
        PROVE  /\ cfg[r].end = "ok"
               /\ cfg'[r].end = cfg[r].end
               /\ cfg'[r].type = IF l.hash \/ l.key = "port" THEN cfg[r].type ELSE Plain(l.vals[1])
               /\ cfg'[r].port = IF l.hash \/ l.key # "port" THEN cfg[r].port
                                 ELSE Number[l.vals[1]]
    <3>1. r \in Parsers
      BY DEF Readers, Parsers
    <3>2. cfg[r].end = "ok"
      BY <2>3 DEF SameMeaning
    <3>3. cfg[r] \in Configs /\ cfg'[r] = Parse(r, cfg[r], l)
      BY <1>1, <3>1, <3>2, LineRead
    <3>4. QED
      BY <2>3, <2>5, <3>2, <3>3, SettingLine
  <2>7. cfg[p].type = cfg[q].type /\ (PortSet => cfg[p].port = cfg[q].port)
    BY <2>3 DEF SameMeaning
  <2>8. QED
    BY <2>4, <2>6, <2>7
<1>2. CASE UNCHANGED vars
  BY <1>2 DEF vars, SameMeaning, Keeps, PortSet, Setting, Readers
<1>3. QED
  BY <1>1, <1>2 DEF Next

(* A file in one of the two styles means the same type and, once it sets   *)
(* one, the same port to every program that reads that style: the five     *)
(* that read serv.conf's "port = 8080" and the five that read "port=8080"  *)
(* (myRPC-server.c, rpc_server.c; server_config.c and the lecture's).      *)
THEOREM ConfigStyles == Spec => []StylesAgree
<1>1. Init => SameMeaning
  <2> SUFFICES ASSUME Init PROVE SameMeaning
    OBVIOUS
  <2>1. \A p \in Parsers : cfg[p].end = "ok" /\ cfg[p].type = Plain("stream")
    BY DEF Init, Default, Defaults, Parsers
  <2>2. \A eq : Readers(eq) \subseteq Parsers
    BY DEF Readers, Parsers
  <2>3. ~PortSet
    BY DEF Init, PortSet
  <2>4. QED
    BY <2>1, <2>2, <2>3 DEF SameMeaning
<1>2. SameMeaning => StylesAgree
  BY DEF SameMeaning, StylesAgree, Keeps, PortSet
<1>3. QED
  BY <1>1, <1>2, SameStep, ConfigTypes, PTL DEF Spec
=============================================================================
