CONSTANTS
  p = p
  q = q
  Places = {p, q}
  Backups <- MCBackups
  TemplateIds = {t1, t2}
  NoTemplate = NoTemplate
  Handlers = {h1, h2}
  MaxEdits = 4
SPECIFICATION Spec
SYMMETRY Symmetric
INVARIANTS TypeOK OneVisibleRoute SeqsContiguous
PROPERTIES EditsTakeEffect ImplementsRoute
