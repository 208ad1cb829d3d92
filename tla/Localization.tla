---------------------------- MODULE Localization ----------------------------
(***************************************************************************)
(* localizedTemplateEngine (localization.go): BuildMessage resolves the    *)
(* user's locale, looks up the localized template, has it compiled through *)
(* a cache that other calls fill at the same time, and leaves to the base  *)
(* engine (templateengine.go) what has no localized template or one that   *)
(* does not compile.  Templates are registered anew meanwhile.             *)
(*                                                                         *)
(* One event type, whose base template may be missing; EventTypeCustom has *)
(* one from the start.  A compiled template is named by its source.        *)
(***************************************************************************)
EXTENDS Naturals

CONSTANTS
  Builders,   \* goroutines that call BuildMessage
  Locales,    \* locale tags
  Fallback,   \* the locale resolver's fallbackLocale
  Default,    \* LocalizedTemplate.DefaultLocale
  Templates,  \* message templates
  Malformed,  \* those that do not compile
  Missing     \* no template

ASSUME LocalizationAssumption ==
  /\ {Fallback, Default} \subseteq Locales
  /\ Malformed \subseteq Templates
  /\ Missing \notin Templates

VARIABLES
  registered,  \* the localization store, per locale
  compiled,    \* the compiled-template cache, per locale
  base,        \* the base engine's template for the type
  builder      \* per builder: [pc, locale, template, rendered]

localizationVars == <<registered, compiled, base, builder>>

Waiting == [pc |-> "idle", locale |-> Fallback, template |-> Missing,
            rendered |-> Missing]

InitLocalization ==
  /\ registered = [l \in Locales |-> Missing]
  /\ compiled = [l \in Locales |-> Missing]
  /\ base = Missing
  /\ builder = [b \in Builders |-> Waiting]

-----------------------------------------------------------------------------
\* preferencesLocaleResolver: the locale in the preferences; the fallback for
\* an empty one, on any error, and for an event of no user.
ResolveLocale(b) ==
  /\ builder[b].pc = "idle"
  /\ \E l \in Locales :
       builder' = [builder EXCEPT ![b] =
                     [@ EXCEPT !.pc = "lookup", !.locale = l]]
  /\ UNCHANGED <<registered, compiled, base>>

\* Missing is ErrTemplateNotFound.
GetLocalizedTemplate(locale) ==
  IF registered[locale] # Missing THEN registered[locale]
  ELSE registered[Default]

Lookup(b) ==
  LET template == GetLocalizedTemplate(builder[b].locale)
  IN  /\ builder[b].pc = "lookup"
      /\ builder' = [builder EXCEPT ![b] =
           [@ EXCEPT !.pc = IF template = Missing THEN "base" ELSE "compile",
                     !.template = template]]
      /\ UNCHANGED <<registered, compiled, base>>

\* Mutant: a cached form is used without comparing its source.
HitAny(b) == compiled[builder[b].locale] # Missing

\* A cached form is used if it was compiled from the source just fetched.
Hit(b) == compiled[builder[b].locale] = builder[b].template

\* getCompiled: under the read lock, then compileTemplate without a lock.
getCompiled(b) ==
  /\ builder[b].pc = "compile"
  /\ builder' = [builder EXCEPT ![b] =
       IF Hit(b)
       THEN [@ EXCEPT !.pc = "built",
                      !.rendered = compiled[builder[b].locale]]
       ELSE IF builder[b].template \in Malformed
       THEN [@ EXCEPT !.pc = "base", !.template = Missing]
       ELSE [@ EXCEPT !.pc = "store", !.rendered = builder[b].template]]
  /\ UNCHANGED <<registered, compiled, base>>

\* getCompiled under the write lock; what another call stored is replaced.
storeCompiled(b) ==
  /\ builder[b].pc = "store"
  /\ compiled' = [compiled EXCEPT ![builder[b].locale] = builder[b].rendered]
  /\ builder' = [builder EXCEPT ![b].pc = "built"]
  /\ UNCHANGED <<registered, base>>

\* defaultTemplateEngine.BuildMessage: the type's template, or the one of
\* EventTypeCustom (for which Missing stands).
baseBuildMessage(b) ==
  /\ builder[b].pc = "base"
  /\ builder' = [builder EXCEPT ![b] =
       [@ EXCEPT !.pc = "built", !.template = base, !.rendered = base]]
  /\ UNCHANGED <<registered, compiled, base>>

SendBuilt(b) ==
  /\ builder[b].pc = "built"
  /\ builder' = [builder EXCEPT ![b] = Waiting]
  /\ UNCHANGED <<registered, compiled, base>>

RegisterLocalizedTemplate(locale, template) ==
  /\ registered' = [registered EXCEPT ![locale] = template]
  /\ UNCHANGED <<compiled, base, builder>>

\* What does not compile is refused.
RegisterTemplate(template) ==
  /\ template \notin Malformed
  /\ base' = template
  /\ UNCHANGED <<registered, compiled, builder>>

NextLocalization ==
  \/ \E b \in Builders : \/ ResolveLocale(b) \/ Lookup(b) \/ getCompiled(b)
                         \/ storeCompiled(b) \/ baseBuildMessage(b)
                         \/ SendBuilt(b)
  \/ \E l \in Locales, t \in Templates : RegisterLocalizedTemplate(l, t)
  \/ \E t \in Templates : RegisterTemplate(t)

SpecLocalization == InitLocalization /\ [][NextLocalization]_localizationVars

-----------------------------------------------------------------------------
Builder == [pc : {"idle", "lookup", "compile", "store", "base", "built"},
            locale : Locales,
            template : Templates \cup {Missing},
            rendered : Templates \cup {Missing}]

TypeOKLocalization ==
  /\ registered \in [Locales -> Templates \cup {Missing}]
  /\ compiled \in [Locales -> (Templates \ Malformed) \cup {Missing}]
  /\ base \in (Templates \ Malformed) \cup {Missing}
  /\ builder \in [Builders -> Builder]

\* A message is rendered from the template that its own call looked up, and
\* never from a malformed one, even if templates are registered anew while
\* slower calls compile the old ones and store them over newer ones.
RenderedIsRegistered ==
  \A b \in Builders :
    builder[b].rendered # Missing =>
      /\ builder[b].rendered = builder[b].template
      /\ builder[b].rendered \notin Malformed
=============================================================================
