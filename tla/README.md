# TLA+ models of the crater i18n and asset tooling

This directory holds TLA+ models of the Python tooling under `src/`. That
tooling keeps the translated documentation and message catalogues of the
crater websites in step, formats the frontend's catalogues, and compresses
the website's images. Every module is translated from the source.
`PROJECT.json` maps each definition to the lines it models, and lists the
runs, mutants, findings and hazards.

## The system

| Part | Source | State it changes |
|---|---|---|
| Filename convention | both `hack/i18n/bootstrap.py`, `get_path_prefix_and_lang`, and the creation path | none: a pure mapping from a path to *(family prefix, locale)* |
| Bootstrap (crater-website) | `crater-website/hack/i18n/bootstrap.py` `main` | the content tree under `content/docs` and `messages` |
| Bootstrap (website) | `website/hack/i18n/bootstrap.py` `main(update_existing)` | the content tree, in create or update mode |
| Translation client | `crater-website/hack/i18n/translation_client.py`: `translate_files`, `_translate_json_chunks`, `_translate_plain_text` | the returned mapping, and the target files when `write_to_existing_files` is set |
| JSON flatten helpers | `translation_client.py` `_flatten_json` and `_unflatten_json`; `frontend/hack/format_translation.py` `flatten_json` | none: pure functions |
| Catalogue formatter | `frontend/hack/format_translation.py` | rewrites the JSON catalogues, or checks them (`--check`) |
| Image compressor | `website/hack/squoosh_images.py` | deletes and converts images, and rewrites Markdown references |
| Model API call | `translation_client.py` `_call_llm_api` | none: one HTTP request, modelled by its outcomes |
| Config loader | `get_i18n_config` in both bootstraps (the same code) | none: parses `src/i18n/config.ts` with regular expressions into the default locale and the locale map |

### How the parts interact

**Bootstrap (crater-website).** `main` runs these steps:

1. It walks the scan roots and groups content files into families. A family
   is the set of files that share a prefix, one file per locale.
2. It optionally keeps only the families that changed, using
   `--changed-files` and `is_meaningful_diff`.
3. It picks a source of truth for each family.
4. It calls `translate_files` for the missing locales and writes the
   results.
5. It calls `translate_files` again to update the existing locales.

**Bootstrap (website).** The older bootstrap does either the create step or
the update step, depending on its mode.

**`translate_files`.** It reads the source and retries each target language
up to `MAX_RETRIES` times. For JSON, it flattens the document with the
`...` separator, sends string leaves in chunks, merges and unflattens the
answers, then reorders the top-level keys. Text answers must start with a
front matter.

**Formatter and compressor.** These two are stand-alone scripts.

## Modules

- **FileNames.tla** models the filename convention.
  - A path is a sequence of names, and each name is a sequence of its
    dot-separated parts.
  - `GetPathPrefixAndLang` applies the three rules of the code, in order.
  - `CreationTargetPath` builds the path that the create step writes.
- **Bootstrap.tla** models crater-website's `main` as a program counter over
  its phases. The phases are `Scan`, `LoadChanges` (with
  `IsMeaningfulDiff`), `SkipConflict`, `PlanFamily`, `CreateMissing`,
  `UpdateExisting`, `FinishFamily` and `EndLoop`.
  - `translate_files` is abstracted to the subset of locales it returns.
  - The update call raises `TypeError` (see the findings).
- **WebsiteBootstrap.tla** models the older `main` over consecutive runs, in
  either mode, with files added between runs. It reuses FileNames.
  - `Translate` is the `translate_files` call. `WriteFile` writes one
    returned locale, in `supported_locales` order (lines 166-171 and
    193-221), and `EndWrites` ends the family.
  - `Kill` is a run terminated from outside (spec section 5), either
    between two steps or inside `open(path, 'w')`. In that case the file
    exists but is torn (`torn`).
- **TranslationClient.tla** models one call of `translate_files`.
  - A JSON document is its set of flattened leaf keys. `TopOf` gives each
    leaf's top-level key.
  - A result records where each leaf came from: `fresh`, `kept` or
    `copied`.
  - `CallLlmApi` is `_call_llm_api`. The exchange (`Exchanges`) is chosen by
    `\E`: success, connection error (which re-raises), HTTP error, a body
    without `choices`, or any other error (these return `None`). On success
    the answer is a body, with or without a `<think>` block that is cut off.
  - A chunk's answer is a JSON object, text that is not JSON, a JSON array
    (`update` raises), or empty. `PlainText` is `_translate_plain_text`,
    which turns `None` into `""`. A text answer counts only if it starts with
    a front matter.
  - Actions:
    - `ReadSource`, `StartLocale`, `ReturnResults`. `StartLocale` reads an
      existing target, and only `FileNotFoundError` is caught there: an
      `Unreadable` target makes the call raise (`pc = "raised"`).
    - `BeginAttempt` (parsing and the items to send)
    - `AddToChunk` and `SendChunk` (the chunk loop)
    - `MergeJson` (the merge and the reordering)
    - `TranslateText`
    - `StoreResult` (the write-back)
    - `RetryOrSkip`
- **TranslateFiles.tla** is the abstract contract of `translate_files`.
  - A missing source gives `None`; an unreadable one gives `{}`.
  - Otherwise each target, in order, is either translated or skipped, and
    then the call returns.
  - A translated JSON document holds three kinds of leaf:
    - every existing leaf under a source top-level key, kept;
    - every non-string source leaf the target lacks, copied;
    - any subset of the string leaves it lacks, fresh. Dropped chunks
      account for the ones left out.
  - TranslationClient instantiates it with a refinement mapping:
    - `done <- i - 1`;
    - `results` is restricted to the languages the loop has moved past;
    - `status` is taken from `pc`.
- **JsonFlatten.tla** holds the pure operators.
  - Objects are ordered sequences of `<<key, value>>` pairs with
    character-level keys.
  - `Flatten`, `Split`, `SetPath` and `Unflatten` are RECURSIVE operators.
  - `FormatTranslationContent` is the formatter's sorted, `.`-joined dump.
  - `LeafPaths` is the reference definition.
- **JsonTranslation.tla** models the JSON branch of `translate_files` on
  real nested documents for one catalogue across consecutive runs.
  - The developer may edit the source between runs.
  - A translator may fix a translated leaf by hand.
- **FormatTranslation.tla** models `process_folder` in format mode and in
  check mode across consecutive runs, with edits in between.
- **Squoosh.tla** models one run of `squoosh_images.py`: scan, optional
  deletion of unused images, conversion to `.webp`, and substring rewriting
  of references.
  - Reference text is kept character by character, which is where the
    substring match operates.
  - `CodeResolve` is the code's path resolution. `RenderResolve` is how
    Markdown resolves the same reference.
  - Step 4 is split into `Convertible` (the `.webp` skip), `Converted` (the
    save and `os.remove`) and `Recorded` (the `conversion_map` entry).
  - `Crash` stops the script after any step of 4 or 5, or inside the write
    of a Markdown file that step 5 updates. `open(md, 'w')` has already
    truncated that file, so it is left empty (`tornMd`). Nothing is
    persisted, so a crash is a terminal state.
- **I18nConfig.tla** models `get_i18n_config`.
  - `config.ts` is a sequence of lexical tokens, cut where the patterns look:
    identifiers, quoted strings, `:`, `=`, braces, spaces, newlines, and
    other text.
  - `DefaultLocaleMatch` is the leftmost `defaultLocale:` match, with the
    greedy `.*` kept to its line. `LocalesMatch` is the body up to the first
    `}` (`BodyEnd`). `LocalePairs` is the `findall`, and `LocalesMap` the dict
    built from it, where a later key wins.
  - `GetI18nConfig` exits (`ConfigError`) when the file or either pattern is
    missing.
  - The bootstraps' constants `Locales` and `Default` stand for its result.
- The **MC\*.tla** modules supply the constants for TLC. MCJsonFlatten
  checks all the pure helpers. One step hands a helper either a JSON document
  or a `config.ts` rendered from a declared registry and a layout.

## Runs

| Run | Expect | What it shows |
|---|---|---|
| bootstrap_create_safety | pass | Created files are new and stay under the family and locale they were made for (`CreatedFilesStayInFamily`). Every write comes from a source that the policy allows (`WritesFollowSourcePolicy`). |
| bootstrap_run_completes | violation | `RunCompletes`: any update target ends the run with `TypeError`. |
| bootstrap_blank_diff | violation | `BlankDiffIgnored`: a diff that only adds blank lines still counts as a change, because of its `---`/`+++` headers. |
| client_retry_chunks | pass | Model answers range over every outcome of `_call_llm_api`. `ChunksCoverItems`: the chunks partition the leaves to send. `IncrementalKeepsTranslations`: existing leaves are never re-sent and never lost. `ImplementsTranslateFiles`: the client refines TranslateFiles. Through the abstract fairness this includes that every call returns. Existing targets are readable or missing. |
| helpers_reference | pass | Over every object of depth two on five keys: both flattens agree with `LeafPaths` (`FlattenMatchesReference`), and unflatten inverts flatten for plain keys (`RoundTripForPlainKeys`). Over every layout of `config.ts`: `get_i18n_config` returns the declared registry, and exits exactly when the file or a declaration is missing (`ConfigLoadedAsDeclared`). |
| jsonflatten_round_trip | violation | `RoundTripLaw` fails for an empty nested object, for a key ending in `.`, and for an empty top-level key. |
| format_check_idempotent | pass | `FormattedFilesPassCheck`: a file last written by format mode is never reported by `--check`. |
| json_stale_translation | violation | `TranslationsCurrent`: the source is reworded between runs. The target keeps the translation of the old wording for ever, because incremental mode sends only missing keys. |
| json_reruns | pass | `RerunIsIdempotent`: a rerun after a complete run makes no call and writes the same catalogue. `TranslationsKept`: updates keep existing translations, including hand-fixed ones. `CompleteRunFillsCatalogue`: after a run with every chunk answered, every leaf of the current source is in the catalogue, whatever earlier runs dropped. |
| squoosh_conventional | pass | `RefsStayValid`: on a tree whose directories share no image names, every reference shows the same picture after the run, whichever conversions fail. `RefsRecoverable`: even when the script crashes between deleting an original and rewriting the Markdown, every reference of a Markdown file that still has its text shows its picture, either as it is or with `.webp` in place of its extension. A file emptied by a kill inside its own write is left out. Its text is lost, which is the hazard at `squoosh_images.py:175`. |
| website_create_converges | pass | `CreateRunsConverge`: a create run that follows a complete create run has nothing to create, also after a killed run. |
| website_killed_run | violation | `KilledRunsRepaired`: a create run killed while writing `index.ja.mdx` leaves it torn. Every later create run, however complete, counts the torn file as an existing translation and never rewrites it. |

Every property of a passing run has a mutant in `PROJECT.json`. A mutant is
a plausible bug in a mapped definition, and TLC finds the property violated
under it.

For the refinement, the mutant `ReorderedNoFilter` drops the top-level key
filter, so a stale leaf survives. TLC reports the abstract `Translate` step
as violated.

## Hazards checked outside the passing instances

Some hazards listed in `PROJECT.json` fail only on inputs that the passing
runs leave out. The hazard notes say which inputs. Two cases are kept as
configurations that are not runs:
- `Squoosh_SharedName.cfg` reproduces the shared-name rewrite;
- `TranslationClient_Unreadable.cfg` reproduces the unreadable target.

The other cases were checked with TLC on widened instances while the
modules were written. Those instances are not kept. Each case follows
from the definitions named in its note.

- **Config loader.**
  - A quoted locale key (`'zh-CN': ...`, which TypeScript needs for a code
    with a hyphen) does not match `(\w+):`, so that locale is silently left
    out. With every key quoted the map is empty, and the run translates
    nothing and exits 0.
  - An untyped `defaultLocale = 'en'`, or a hyphenated default, exits as if
    the key were missing.
  - Both violate `ConfigLoadedAsDeclared`.
- **Squoosh.**
  - A `.png` and a `.jpg` of the same name both become one `.webp`.
  - A bare reference (`img.png` in a subdirectory) resolves from
    `content/`, so its image is taken as unused and deleted.
  - When `d/a.png` is converted and `a.png` is not, `./a.png` in
    `content/index.md` is rewritten to a missing `a.webp`.
    `Squoosh_SharedName.cfg` reproduces it.
- **WebsiteBootstrap.** For a file like `zh.ja.mdx`, consecutive create runs
  never converge.
- **Bootstrap (crater-website).**
  - The locale-stem case writes a variant over another family's file.
  - A run without `--changed-files` plans updates.
  - A changed translation becomes the source of the default page.
- **Unreadable target.** An existing target that cannot be read
  (`PermissionError`, or bytes that are not UTF-8) raises out of
  `translate_files` (lines 136-141), and the bootstrap run dies. This
  violates `ImplementsTranslateFiles` (`TranslationClient_Unreadable.cfg`).
- **Write-back.** With `write_to_existing_files=True`, a language whose last
  write fails is both skipped and in the result. This violates
  `ImplementsTranslateFiles`. crater-website's update call sets the flag,
  but it raises `TypeError` before `translate_files` runs. Only the
  client's demonstration `__main__` reaches write-back, so the run uses
  `CallsWith(FALSE)`.
- **Key renaming.** An answer that returns a chunk under other keys than
  the ones sent is merged as it is. It violates `ImplementsTranslateFiles`
  when the answers may rename keys. The passing run gives answers the keys
  they were sent.
- **Formatter.** `{"a": {"b": x}, "a.b": y}` flattens both leaves onto
  `a.b`, and format mode writes the file back with one leaf lost.
- **JsonTranslation.** A source edit that turns a string leaf into an object
  makes every later attempt raise `TypeError`, so the catalogue is never
  written again. The instances keep leaves as leaves, and no property is
  stated for this case.

## Bounds

- **Bootstrap**
  - Locales: `en` (the default), `zh` and `ja`.
  - Two scan roots.
  - Seven files, and every subset of them as the initial tree. They include
    the colliding pair `index.mdx` and `index.en.mdx`.
  - Every subset of four changed paths, each with no diff, a text edit or a
    blank-only edit.
  - This reaches every source rule, the conflict, the walk-order collision,
    creates and updates.
- **WebsiteBootstrap**
  - The five files the site uses: `index.mdx`, `index.en.mdx`,
    `index.zh.mdx`, `meta.ja.json` and `messages/zh.json`.
  - Every subset of them as the initial tree, any of them added between
    runs.
  - Three runs, each in either mode.
  - `MaxKills = 1`: one run terminated from outside. The kill may come
    before any file of the family is written, between two writes, or
    inside a write. That is enough for a torn file to meet a later clean
    create run.
- **TranslationClient**
  - Four keys under three top-level keys.
  - `ChunkSize = 2`, so that three leaves need a full chunk and a partial
    one.
  - `MAX_RETRIES = 3`, as in the code.
  - One or two target languages.
  - Six shapes of existing target, including an invalid one and one with a
    stale top-level key.
  - Two source shapes, each parsable or not, and the two broken reads.
- **Config loader**
  - Registries of one to three of `en`, `zh` and `ja`, in any order, with
    any of them as the default.
  - The default declared typed or missing, and the locales declared or
    missing, in either order.
  - With or without a later object literal that holds a `key: 'value'`
    pair, the case where the end of the body matters.
  - The file present or missing: 1440 configs in all.
- **JsonFlatten**: keys `""`, `a`, `b`, `.a` and `a.`, with objects of at
  most two keys nested two deep.
- **JsonTranslation**
  - Three source catalogues: nested, flattened away, and reordered with a
    number turned into a string.
  - Two source strings, each with its own translation. The stale run edits
    between the catalogue and a copy whose first string is reworded.
  - `ChunkSize = 1`, `MAX_RETRIES = 3`, three runs.
- **FormatTranslation**
  - Two files.
  - Five catalogues: flat, unsorted, nested, colliding and with an empty
    object. Each is canonical or not, or the file is invalid.
  - Three runs.
- **Squoosh**
  - `content/` and `d/`, names `a` and `b`, extensions `png`, `jpg` and
    `webp`.
  - One Markdown file per directory, with references in all four
    prefix forms, including one outside `content/`.
  - Every subset of the images present.

## Fairness

Every specification assumes `WF_vars(Next)`, and so does the abstract
TranslateFiles. Each script is a single sequential process, and its only
blocking call is the model request, which has a 720 s timeout. So an enabled
step is eventually taken.

No fairness is assumed for the model's answers. Retries end by their
counter, not by luck.

The configurations set `CHECK_DEADLOCK FALSE` because the scripts end, and
their final states are the terminal ones.

## Not modelled

- `_call_llm_api` is modelled by its outcomes, not by its request.
- Another process deleting a source file between the scan and
  `translate_files` is not modelled. Spec section 5 rules out concurrent
  access to the tree. In that case `translate_files` returns `None`, and
  bootstrap line 227 calls `.items()` on it.
- The demonstration `__main__` of `translation_client.py`.
- Prompt wording, the `/src/` to `/lang/` link rewrite, and printing.
- In TranslationClient, leaf values are abstracted away.
  - A stale translation of a changed source string cannot be expressed
    there. JsonTranslation keeps values, and two source wordings with their
    translations, which is where the stale translation is found.
- **Squoosh**
  - Resizing and encoding are abstracted to "the same picture".
  - Images outside `content/` are left out.
  - Extensions are matched case-sensitively.
  - Reruns after a crash are not modelled. A rerun with `--delete-unused`
    would delete a `.webp` whose references still name the original.
- The bootstraps are not composed with the client model. Each bootstrap
  abstracts `translate_files` to the subset of target locales it returns.
  That is what TranslateFiles promises when the source exists, and the scan
  has just seen the source.
