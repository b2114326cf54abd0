---------------------------- MODULE PluginOptions ----------------------------
(***************************************************************************)
(* What set_options_impl and get_options_impl of a plugin do, written as a *)
(* sequence of entries in the order set_options_impl reads its keys.  An   *)
(* entry says which setting the key writes, which values it accepts, what  *)
(* a refused value does, what else it fixes, and what get_options_impl     *)
(* shows under the key.  An option's value is one of three: 0 is the value *)
(* a check refuses where there is one (zero threads, an unknown name, a    *)
(* level out of range), 1 and 2 are two that it accepts.                   *)
(***************************************************************************)
EXTENDS Naturals, Sequences, FiniteSets

Values == 0..2
Good == 1..2
Nothing == [none \in {} |-> 0]         \* an entry that fixes nothing, or asks nothing

\* get(options, key, &slot) in set_options_impl, set(options, key, slot) in get_options_impl
Copy(key, slot) ==
  [key |-> key, slot |-> slot, ok |-> Values, bad |-> "skip", fix |-> Nothing,
   show |-> "value", cond |-> Nothing, vals |-> Values, alt |-> "", given |-> {}, without |-> {}, held |-> Nothing]
\* keys whose settings carry the keys' own names
Own(key) == Copy(key, key)
Owns(keys) == [i \in 1..Len(keys) |-> Own(keys[i])]
Each(F(_), keys) == [i \in 1..Len(keys) |-> F(keys[i])]
\* get_options_impl gives the key a type and no value ...
Hide(e) == [e EXCEPT !.show = "type"]
\* ... or a value once there is one ...
IfSet(e) == [e EXCEPT !.show = "set"]
\* ... or does not list it, so that check_options refuses it
Unlisted(e) == [e EXCEPT !.show = "none"]
\* get_options_impl lists the key, set_options_impl never reads it, or reads another type than the one listed
Deaf(key) == [Own(key) EXCEPT !.ok = {}, !.show = "type"]
ReadOnly(key, slot) == [Copy(key, slot) EXCEPT !.ok = {}]
\* a refused value makes set_options_impl return, or leaves it by an exception; is recorded by set_error and 0 returned;
\* is passed over
Checked(e) == [e EXCEPT !.ok = Good, !.bad = "return"]
Thrown(e) == [e EXCEPT !.ok = Good, !.bad = "throw"]
Recorded(e) == [e EXCEPT !.ok = Good, !.bad = "record"]
Passed(e) == [e EXCEPT !.ok = Good]
\* a key that can only fail
Fails(key) == [Copy(key, "") EXCEPT !.ok = {}, !.bad = "return", !.show = "none"]
\* setting the key also gives other settings a value ...
Fixes(e, fix) == [e EXCEPT !.fix = fix]
\* ... and get_options_impl shows the key only while they have it, or while others have a value
Picks(e, fix) == [e EXCEPT !.fix = fix, !.cond = fix]
ShownWhile(e, cond) == [e EXCEPT !.cond = cond]
\* a member that may have no value, 0, which no option can give back to it
Optional(key) == [IfSet(Own(key)) EXCEPT !.ok = Good]
\* the branches of an if / else if chain: the first that applies hides the others
Else(alt, es) == [i \in DOMAIN es |-> [es[i] EXCEPT !.alt = alt]]
\* a branch taken only for some values, only beside other keys, only without them, only while settings have a value
Only(vals, e) == [e EXCEPT !.vals = vals]
Beside(e, keys) == [e EXCEPT !.given = keys]
Without(e, keys) == [e EXCEPT !.without = keys]
While(e, held) == [e EXCEPT !.held = held]

Fixed(e) == DOMAIN e.fix
\* a stream the object takes over and will destroy: 1 is a pointer to its own, which it destroys before it takes it,
\* 0 a stream destroyed already; get_options_impl always shows a pointer to the object's own
Stream(key) == << [Unlisted(Copy(key, "stream")) EXCEPT !.ok = {2}],
                  [Unlisted(Copy(key, "stream")) EXCEPT !.ok = {1}, !.fix = [stream |-> 0]], ReadOnly(key, "own stream") >>
\* get_meta: a name that is known, 1 or 2, and not the current one replaces the child by a new one with its defaults; an
\* unknown one, 0, is passed over, and then the child does not see its own options either; what the child says of
\* its options is not looked at.  All the child's settings are one slot, its options one key.
ChildOf(key) == key \o "*"
Meta(key) ==
  LET to(v, was) == Only({v}, While(Fixes(Own(key), [c \in {ChildOf(key)} |-> 1]), [k \in {key} |-> was]))
  IN << to(2, 1), Unlisted(to(1, 2)) >> \o Else(key, << Only({0}, Unlisted(Deaf(key))), Passed(Own(ChildOf(key))) >>)
\* what set_options_impl does whichever keys are given
Always(fix) == [Copy("", "") EXCEPT !.fix = fix, !.show = "none"]

Entries(table) == {table[i] : i \in DOMAIN table}
KeysOf(table) == {table[i].key : i \in DOMAIN table} \ {""}
SlotsOf(table) == UNION {{table[i].slot} \cup Fixed(table[i]) : i \in DOMAIN table} \ {""}
Listed(table) == {table[i].key : i \in {j \in DOMAIN table : table[j].show # "none"}}

Holds(f, s) == \A x \in DOMAIN f : s[x] = f[x]

\* the condition of an entry's branch
Applies(e, opts, s) == /\ e.key = "" \/ (e.key \in DOMAIN opts /\ opts[e.key] \in e.vals)
                       /\ e.given \subseteq DOMAIN opts
                       /\ e.without \cap DOMAIN opts = {}
                       /\ Holds(e.held, s)

\* settings with the entry's key set to v
Write(e, v, s) == [x \in DOMAIN s |-> IF x \in Fixed(e) THEN e.fix[x] ELSE IF x = e.slot THEN v ELSE s[x]]

\* one entry of set_options_impl; r holds the settings, the code returned, the error recorded, the chains decided
Read(r, e, opts) ==
  IF r.rc # 0 \/ ~Applies(e, opts, r.s) \/ (e.alt # "" /\ e.alt \in r.taken) THEN r
  ELSE LET v == IF e.key = "" THEN 1 ELSE opts[e.key]
           fits == v \in e.ok
       IN [s |-> IF fits THEN Write(e, v, r.s) ELSE r.s,
           rc |-> IF fits THEN 0 ELSE CASE e.bad = "return" -> 1 [] e.bad = "throw" -> 2 [] OTHER -> 0,
           err |-> IF ~fits /\ e.bad # "skip" THEN 1 ELSE r.err,
           taken |-> r.taken \cup {e.alt}]

\* set_options_impl: the entries in order
SetOptions(table, opts, s) ==
  LET After[i \in 0..Len(table)] ==
        IF i = 0 THEN [s |-> s, rc |-> 0, err |-> 0, taken |-> {}] ELSE Read(After[i-1], table[i], opts)
  IN After[Len(table)]

Shown(e, s) == /\ e.show = "value" \/ (e.show = "set" /\ s[e.slot] # 0)
               /\ Holds(e.cond, s)

\* get_options_impl: the keys that have a value; a key entered twice is shown once
GetOptions(table, s) ==
  LET shown == {i \in DOMAIN table : Shown(table[i], s)}
  IN [k \in {table[i].key : i \in shown} |-> s[table[CHOOSE i \in shown : table[i].key = k].slot]]
=============================================================================
