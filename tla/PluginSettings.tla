---------------------------- MODULE PluginSettings ----------------------------
(***************************************************************************)
(* One object of a plugin and the calls of set_options a program makes on  *)
(* it.  A call gives one key, or two that are about the same settings, and *)
(* a later call is about the settings of an earlier one: keys that share   *)
(* nothing cannot matter to each other.                                    *)
(***************************************************************************)
EXTENDS PluginOptions

CONSTANTS Tables,     \* from a plugin's name to its table of options
          Starts,     \* from it to the settings its constructor does not leave at 1
          Named,      \* from it to what its configuration and its documentation name
          MaxCalls,   \* how often set_options is called
          Unread,     \* from it to the options it offers and may not read, whatever their value
          PassedOver, \* to the options whose unacceptable values it passes over
          Drifting,   \* to the settings that do not survive their own options
          Left,       \* to the options another object does not show when it is given them
          Refusers    \* the plugins that may refuse their own options

VARIABLES plugin,     \* the plugin
          s,          \* the settings of the object
          given,      \* the options of the last call
          reply,      \* the code it returned, or 2 for an exception, and the error it recorded
          touched,    \* the settings the calls so far were about
          calls       \* how many they were
vars == <<plugin, s, given, reply, touched, calls>>

\* what the constructor leaves
Fresh(p) == [x \in SlotsOf(Tables[p]) |-> IF p \in DOMAIN Starts /\ x \in DOMAIN Starts[p] THEN Starts[p][x] ELSE 1]

\* the settings a key is about, those of the branches it opens or closes included
About == [p \in DOMAIN Tables |-> [k \in KeysOf(Tables[p]) |->
            UNION {({e.slot} \cup Fixed(e) \cup DOMAIN e.cond \cup DOMAIN e.held) \ {""} :
                     e \in {x \in Entries(Tables[p]) : k \in {x.key} \cup x.given \cup x.without}}]]
\* what a program may take for an option of the plugin
NamesOf == [p \in DOMAIN Tables |-> Named[p].declared \cup Named[p].described]
KeySets == [p \in DOMAIN Tables |-> {{k} : k \in NamesOf[p] \ KeysOf(Tables[p])} \cup
             {ks \in {{j, k} : j, k \in KeysOf(Tables[p])} : \A j, k \in ks : About[p][j] \cap About[p][k] # {}}]
\* an option that is given has a value
Inputs == [p \in DOMAIN Tables |-> [k \in NamesOf[p] \cup KeysOf(Tables[p]) |->
             {v \in Values : v # 0 \/ Optional(k) \notin {[e EXCEPT !.fix = Nothing, !.cond = Nothing, !.slot = k, !.vals = Values] : e \in Entries(Tables[p])}}]]

Init == /\ plugin \in DOMAIN Tables
        /\ s = Fresh(plugin)
        /\ given = Nothing /\ reply = <<0, 0>>
        /\ touched = {} /\ calls = 0

\* pressio_compressor_set_options
Set(opts) ==
  LET r == SetOptions(Tables[plugin], opts, s)
  IN /\ s' = r.s
     /\ given' = opts /\ reply' = <<r.rc, r.err>>
     /\ UNCHANGED plugin

\* a call on a fresh object gives one key
Next == /\ calls < MaxCalls /\ calls' = calls + 1
        /\ \E ks \in KeySets[plugin] :
             LET about == UNION {About[plugin][k] : k \in ks \cap KeysOf(Tables[plugin])}
             IN /\ IF calls = 0 THEN Cardinality(ks) = 1 ELSE about \cap touched # {}
                /\ touched' = touched \cup about
                /\ \E opts \in [ks -> Values] : (\A k \in ks : opts[k] \in Inputs[plugin][k]) /\ Set(opts)
Spec == Init /\ [][Next]_vars


table == Tables[plugin]
Of(k) == {e \in Entries(table) : e.key = k}
\* get_options lists the option, or the plugin names it elsewhere
Offered(k) == k \in NamesOf[plugin] \/ \E e \in Of(k) : e.show # "none" /\ Holds(e.held, s)
\* the value is in force; a child whose name is given again keeps its settings
InForce(k, v) == \E e \in Of(k) : /\ v \in e.ok \cap e.vals
                                /\ \A x \in DOMAIN s \ {ChildOf(e.slot)} : Write(e, v, s)[x] = s[x]
Refused == reply # <<0, 0>>

\* An option that get_options lists, or that the configuration or the documentation names, takes effect when set_options
\* is given it alone and reports nothing: set_options_impl reads the names get_options_impl writes, and keeps what it
\* reads.  The plugins that do not are in Unread, those that pass over a bad value without a word in PassedOver.
Heard == Cardinality(DOMAIN given) = 1 /\ ~Refused =>
           \A k \in DOMAIN given : Offered(k) =>
             \/ InForce(k, given[k])
             \/ k \in Unread[plugin] /\ given[k] \in Good
             \/ k \in PassedOver[plugin] /\ given[k] = 0

Again == SetOptions(table, GetOptions(table, s), s)
\* What get_options_impl gives, set_options_impl accepts, and its settings stay what they are, although two keys may
\* write one setting and the order is that of the code: saving and restoring an object's options is safe.
RoundTrip == /\ (Again.rc = 0 /\ Again.err = 0) \/ plugin \in Refusers
             /\ \A x \in DOMAIN s : Again.s[x] = s[x] \/ x \in Drifting[plugin]

Other == SetOptions(table, GetOptions(table, s), Fresh(plugin))
\* Another object given the options of this one, which is how a plugin without a copy constructor is cloned and how a
\* configuration is sent to another process, shows the same options.
Portable == Other.rc = 0 =>
              LET here == GetOptions(table, s)  there == GetOptions(table, Other.s)
              IN \A k \in DOMAIN here \cup DOMAIN there :
                   (k \in DOMAIN here \cap DOMAIN there /\ here[k] = there[k]) \/ k \in Left[plugin]
=============================================================================
